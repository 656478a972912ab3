---------------------------- MODULE RbTreeProofs ----------------------------
(***************************************************************************)
(* The red-black tree holds a set in order and is balanced, for any set of *)
(* keys and any row of insertions and removals.                            *)
(***************************************************************************)
EXTENDS RbTree, CommonLemmas

-----------------------------------------------------------------------------
(* Entries.                                                                *)

LEMMA EntryFacts ==
  /\ Nil \notin Entries
  /\ \A e \in Entries : Key(e) \in Int
  /\ IsFiniteSet(Entries)
<1>1. Nil \notin Entries
  <2> SUFFICES ASSUME <<>> \in (Keys \X {1}) \cup (Twice \X {2}) PROVE FALSE
    BY DEF Nil, Entries
  <2>1. \A a, b : <<a, b>> # <<>>
    OBVIOUS
  <2> QED
    BY <2>1
<1>2. ASSUME NEW e \in Entries PROVE Key(e) \in Int
  <2>1. Twice \subseteq Keys /\ Keys \subseteq Int
    BY KeysAssumption DEF KeysComparable
  <2>2. e \in Keys \X {1} \/ e \in Twice \X {2}
    BY DEF Entries
  <2>3. e[1] \in Keys
    BY <2>1, <2>2
  <2> QED
    BY <2>1, <2>3 DEF Key
<1>3. IsFiniteSet(Entries)
  <2>1. IsFiniteSet(Keys) /\ IsFiniteSet(Twice)
    BY KeysAssumption, FS_Subset DEF KeysComparable
  <2>2. IsFiniteSet({1}) /\ IsFiniteSet({2})
    BY FS_Singleton
  <2>3. IsFiniteSet(Keys \X {1}) /\ IsFiniteSet(Twice \X {2})
    BY <2>1, <2>2, FS_Product
  <2> QED
    BY <2>3, FS_Union DEF Entries
<1> QED
  BY <1>1, <1>2, <1>3

\* x is on side s of y.
On(s, x, y) == IF s = 0 THEN Key(x) < Key(y) ELSE Key(x) > Key(y)

-----------------------------------------------------------------------------
(* Trees.                                                                  *)

\* The links of the entries of H fit together.
Linked(t, H) ==
  /\ t \in Trees /\ H \subseteq Entries
  /\ t.root \in H \cup {Nil} /\ (t.root # Nil => t.parent[t.root] = Nil)
  /\ \A x \in H : t.parent[x] = Nil => x = t.root
  /\ \A x \in H : t.parent[x] # Nil =>
       t.parent[x] \in H /\ \E s \in Sides : t.kid[t.parent[x]][s] = x
  /\ \A x \in H, s \in Sides : t.kid[x][s] # Nil =>
       t.kid[x][s] \in H /\ t.parent[t.kid[x][s]] = x

\* sp says what hangs from each entry, itself included: all of H from the
\* root, and on each side of an entry what belongs there.
Spans(t, H, sp) ==
  /\ sp \in [Places -> SUBSET H] /\ sp[Nil] = {} /\ sp[t.root] = H
  /\ \A x \in H : sp[x] = {x} \cup sp[t.kid[x][0]] \cup sp[t.kid[x][1]]
  /\ \A x \in H, s \in Sides : \A y \in sp[t.kid[x][s]] : On(s, y, x)

\* Updates, field by field: r is t but for a kid of e, the parent of e, what
\* hangs from p, the colours.
KidSet(t, r, e, s, n) ==
  /\ r \in Trees /\ r.red = t.red /\ r.parent = t.parent /\ r.root = t.root
  /\ \A x \in Entries, d \in Sides :
       r.kid[x][d] = IF x = e /\ d = s THEN n ELSE t.kid[x][d]
ParentSet(t, r, e, p) ==
  /\ r \in Trees /\ r.red = t.red /\ r.kid = t.kid /\ r.root = t.root
  /\ \A x \in Entries : r.parent[x] = IF x = e THEN p ELSE t.parent[x]
HungAt(t, r, p, d0, n) ==
  /\ r \in Trees /\ r.red = t.red /\ r.parent = t.parent
  /\ r.root = IF p = Nil THEN n ELSE t.root
  /\ \A x \in Entries, d \in Sides : r.kid[x][d] =
       IF x = p /\ d = d0 THEN n ELSE t.kid[x][d]
Painted(t, r, blacks, reds) ==
  /\ r \in Trees /\ r.kid = t.kid /\ r.parent = t.parent /\ r.root = t.root
  /\ r.red = (t.red \ blacks) \cup reds

LEMMA WithKidIs ==
  ASSUME NEW t \in Trees, NEW e \in Entries, NEW s \in Sides, NEW n \in Places
  PROVE  KidSet(t, WithKid(t, e, s, n), e, s, n)
BY DEF KidSet, WithKid, Trees

LEMMA HangIs ==
  ASSUME NEW t \in Trees, NEW p \in Places, NEW e \in Places, NEW n \in Places
  PROVE  HungAt(t, Hang(t, p, e, n), p, SideOf(t, p, e), n)
<1>1. CASE p = Nil
  BY <1>1, EntryFacts DEF Hang, HungAt, Trees
<1>2. CASE p # Nil
  <2>1. PICK d : d = SideOf(t, p, e)
    OBVIOUS
  <2>2. p \in Entries /\ d \in Sides
    BY <1>2, <2>1 DEF Places, SideOf, Sides
  <2>3. KidSet(t, WithKid(t, p, d, n), p, d, n)
    BY <2>2, WithKidIs
  <2>4. Hang(t, p, e, n) = WithKid(t, p, d, n)
    BY <1>2, <2>1 DEF Hang
  <2>5. HungAt(t, WithKid(t, p, d, n), p, d, n)
    BY <1>2, <2>3 DEF HungAt, KidSet
  <2> QED
    BY <2>1, <2>4, <2>5
<1> QED
  BY <1>1, <1>2

LEMMA WithParentIs ==
  ASSUME NEW t \in Trees, NEW e \in Places, NEW p \in Places
  PROVE  ParentSet(t, WithParent(t, e, p), e, p)
<1>1. CASE e = Nil
  BY <1>1, EntryFacts DEF ParentSet, WithParent, Trees
<1>2. CASE e # Nil
  BY <1>2 DEF ParentSet, WithParent, Trees, Places
<1> QED
  BY <1>1, <1>2

LEMMA PaintIs ==
  ASSUME NEW t \in Trees, NEW blacks, NEW reds \in SUBSET Entries
  PROVE  Painted(t, Paint(t, blacks, reds), blacks, reds)
BY DEF Painted, Paint, Trees

\* r is t with up, a kid of e, above e, on whose side s e goes down.
Rotated(t, r, e, s, up, inner, g) ==
  /\ r \in Trees /\ r.red = t.red
  /\ r.root = IF g = Nil THEN up ELSE t.root
  /\ \A x \in Entries, d \in Sides : r.kid[x][d] =
       IF x = e /\ d = 1 - s THEN inner
       ELSE IF x = up /\ d = s THEN e
       ELSE IF x = g /\ d = SideOf(t, g, e) THEN up
       ELSE t.kid[x][d]
  /\ \A x \in Entries : r.parent[x] =
       IF x = e THEN up ELSE IF x = up THEN g ELSE IF x = inner THEN e
       ELSE t.parent[x]

LEMMA RotateIs ==
  ASSUME NEW t \in Trees, NEW e \in Entries, NEW s \in Sides, NEW up \in Entries,
         NEW inner \in Places, NEW g \in Places,
         up = t.kid[e][1 - s], inner = t.kid[up][s], g = t.parent[e],
         up # e, g # e, g # up, inner # e, inner # up
  PROVE  Rotated(t, Rotate(t, e, s), e, s, up, inner, g)
<1>0. 1 - s \in Sides /\ e \in Places /\ up \in Places
  BY DEF Sides, Places
<1>1. PICK k : k = WithKid(t, e, 1 - s, inner)
  OBVIOUS
<1>2. PICK a : a = WithParent(k, inner, e)
  OBVIOUS
<1>3. PICK m : m = WithParent(a, up, g)
  OBVIOUS
<1>4. PICK b : b = Hang(m, g, e, up)
  OBVIOUS
<1>5. PICK c : c = WithKid(b, up, s, e)
  OBVIOUS
<1>6. PICK r : r = WithParent(c, e, up)
  OBVIOUS
<1>7. Rotate(t, e, s) = r
  <2>1. Rotate(t, e, s) = Raised(t, e, s, up, inner, g)
    BY DEF Rotate
  <2> QED
    BY <1>1, <1>2, <1>3, <1>4, <1>5, <1>6, <2>1 DEF Raised
<1>8. KidSet(t, k, e, 1 - s, inner)
  BY <1>0, <1>1, WithKidIs
<1>9. ParentSet(k, a, inner, e)
  BY <1>0, <1>2, <1>8, WithParentIs DEF KidSet
<1>10. ParentSet(a, m, up, g)
  <2>1. a \in Trees
    BY <1>9 DEF ParentSet
  <2> QED
    BY <1>0, <1>3, <2>1, WithParentIs
<1>11. g # Nil => SideOf(m, g, e) = SideOf(t, g, e)
  <2>1. g # Nil => k.kid[g][0] = t.kid[g][0]
    BY <1>8 DEF KidSet, Places, Sides
  <2> QED
    BY <1>9, <1>10, <2>1 DEF SideOf, ParentSet
<1>12. HungAt(m, b, g, SideOf(m, g, e), up)
  BY <1>0, <1>4, <1>10, HangIs DEF ParentSet
<1>13. KidSet(b, c, up, s, e)
  BY <1>0, <1>5, <1>12, WithKidIs DEF HungAt
<1>14. ParentSet(c, r, e, up)
  BY <1>0, <1>6, <1>13, WithParentIs DEF KidSet
<1>15. ASSUME NEW x \in Entries, NEW d \in Sides
       PROVE  r.kid[x][d] = IF x = e /\ d = 1 - s THEN inner
                            ELSE IF x = up /\ d = s THEN e
                            ELSE IF x = g /\ d = SideOf(t, g, e) THEN up
                            ELSE t.kid[x][d]
  <2>1. r.kid[x][d] = IF x = up /\ d = s THEN e ELSE b.kid[x][d]
    BY <1>13, <1>14 DEF KidSet, ParentSet
  <2>2. b.kid[x][d] = IF x = g /\ d = SideOf(t, g, e) THEN up ELSE k.kid[x][d]
    BY <1>9, <1>10, <1>11, <1>12, EntryFacts DEF HungAt, ParentSet
  <2>3. k.kid[x][d] = IF x = e /\ d = 1 - s THEN inner ELSE t.kid[x][d]
    BY <1>8 DEF KidSet
  <2> QED
    BY <2>1, <2>2, <2>3
<1>16. \A x \in Entries : r.parent[x] =
        IF x = e THEN up ELSE IF x = up THEN g ELSE IF x = inner THEN e
        ELSE t.parent[x]
  BY <1>8, <1>9, <1>10, <1>12, <1>13, <1>14 DEF KidSet, HungAt, ParentSet
<1>17. r \in Trees /\ r.red = t.red /\ r.root = IF g = Nil THEN up ELSE t.root
  BY <1>8, <1>9, <1>10, <1>12, <1>13, <1>14 DEF KidSet, HungAt, ParentSet
<1> QED
  BY <1>7, <1>15, <1>16, <1>17 DEF Rotated

-----------------------------------------------------------------------------
(* Loops.                                                                  *)

LEMMA HowMany == Cardinality(Entries) \in Nat
BY EntryFacts, FS_CardinalityType

\* A loop ends where a turn changes nothing. G has what is met, with a number
\* that every turn makes smaller.
LEMMA LoopEnds ==
  ASSUME NEW V, NEW f, NEW x, NEW r0 \in 0..Cardinality(Entries),
         NEW G, G \subseteq V \X Nat, <<x, r0>> \in G,
         \A c \in V, r \in Nat : <<c, r>> \in G =>
           f[c] = c \/ \E q \in Nat : q < r /\ <<f[c], q>> \in G
  PROVE  LET d == Loop(f, x) IN
         f[d] = d /\ d \in V /\ \E r \in Nat : <<d, r>> \in G
<1>0. PICK N : N = Cardinality(Entries)
  OBVIOUS
<1> DEFINE W == {c \in V : \E r \in Nat : <<c, r>> \in G}
           up == [c \in W \X (1..N) |-> f[c[1]]]
           Is(g) == g = [n \in 0..N |-> IF n = 0 THEN x ELSE f[g[n - 1]]]
<1>1. N \in Nat /\ r0 \in 0..N /\ r0 \in Nat
  BY <1>0, HowMany
<1>2. x \in W
  BY <1>1
<1>3. up \in [W \X (1..N) -> W]
  <2> SUFFICES ASSUME NEW c \in W PROVE f[c] \in W
    OBVIOUS
  <2>1. PICK r \in Nat : <<c, r>> \in G
    OBVIOUS
  <2>2. f[c] = c \/ \E q \in Nat : <<f[c], q>> \in G
    BY <2>1
  <2> QED
    BY <2>2
<1>4. \E g \in [0..N -> W] : Stepwise(g, N, x, up)
  <2> HIDE DEF W, up
  <2> QED
    BY <1>1, <1>2, <1>3, StepwiseExists
<1>5. PICK g \in [0..N -> W] :
        \A i \in 0..N : g[i] = IF i = 0 THEN x ELSE up[<<g[i - 1], i>>]
  BY <1>4 DEF Stepwise
<1>6. Is(g)
  <2>1. ASSUME NEW i \in 0..N, i # 0 PROVE up[<<g[i - 1], i>>] = f[g[i - 1]]
    <3>1. g[i - 1] \in W /\ i \in 1..N
      BY <1>1, <1>5, <2>1
    <3> QED
      BY <3>1
  <2>2. g = [i \in 0..N |-> g[i]]
    BY <1>5
  <2>3. \A i \in 0..N : g[i] = IF i = 0 THEN x ELSE f[g[i - 1]]
    BY <1>5, <2>1
  <2> HIDE DEF up
  <2> QED
    BY <2>2, <2>3
<1>7. PICK h : h = CHOOSE g1 : Is(g1)
  OBVIOUS
<1>8. Loop(f, x) = h[N]
  BY <1>0, <1>7 DEF Loop
<1>9. \A n \in 0..N : h[n] = IF n = 0 THEN x ELSE f[h[n - 1]]
  <2>1. Is(h)
    <3> HIDE DEF Is
    <3> QED
      BY <1>6, <1>7
  <2> QED
    BY <2>1
<1> HIDE DEF up, Is
<1> DEFINE I == {i \in 0..N : h[i] \in V /\ \E r \in Nat :
                   <<h[i], r>> \in G /\ (r <= r0 - i \/ f[h[i]] = h[i])}
<1>10. 0 \in I
  <2>1. h[0] = x /\ 0 \in 0..N /\ r0 <= r0 - 0
    BY <1>1, <1>9
  <2> QED
    BY <1>1, <1>2, <2>1
<1>11. ASSUME NEW i \in 0..N, i < N, i \in I PROVE i + 1 \in I
  <2>1. PICK r \in Nat : <<h[i], r>> \in G /\ (r <= r0 - i \/ f[h[i]] = h[i])
    BY <1>11
  <2>2. h[i] \in V /\ i + 1 \in 0..N /\ i + 1 # 0 /\ (i + 1) - 1 = i
    BY <1>1, <1>11
  <2>3. h[i + 1] = f[h[i]]
    BY <1>9, <2>2
  <2>4. CASE f[h[i]] = h[i]
    BY <2>1, <2>2, <2>3, <2>4
  <2>5. CASE f[h[i]] # h[i]
    <3>1. PICK q \in Nat : q < r /\ <<f[h[i]], q>> \in G
      BY <2>1, <2>2, <2>5
    <3>2. r0 \in Int /\ q <= r0 - (i + 1)
      BY <1>1, <2>1, <2>5, <3>1
    <3>3. f[h[i]] \in V
      BY <3>1
    <3> QED
      BY <2>2, <2>3, <3>1, <3>2, <3>3
  <2> QED
    BY <2>4, <2>5
<1> HIDE DEF I
<1>12. N \in I
  <2>1. \A i \in 0..N : i < N /\ i \in I => i + 1 \in I
    BY <1>11
  <2>2. \A i \in 0..N : i \in I
    BY <1>1, <1>10, <2>1, AllNumbers
  <2> QED
    BY <1>1, <2>2
<1>13. PICK r \in Nat : /\ h[N] \in V /\ <<h[N], r>> \in G
                        /\ r <= r0 - N \/ f[h[N]] = h[N]
  BY <1>12 DEF I
<1>14. f[h[N]] = h[N]
  <2>1. CASE r <= r0 - N
    <3>1. ~\E q \in Nat : q < r
      BY <1>1, <1>13, <2>1
    <3> QED
      BY <1>13, <3>1
  <2> QED
    BY <1>13, <2>1
<1> QED
  BY <1>8, <1>13, <1>14

-----------------------------------------------------------------------------
(* What hangs where.                                                       *)

LEMMA OnFacts ==
  /\ \A s \in Sides : 1 - s \in Sides /\ 1 - s # s /\ 1 - (1 - s) = s
  /\ \A s \in Sides, x, y \in Entries : On(s, x, y) <=> On(1 - s, y, x)
  /\ \A s \in Sides, x, y \in Entries : ~(On(s, x, y) /\ On(1 - s, x, y))
  /\ \A s \in Sides, x \in Entries : ~On(s, x, x)
  /\ \A s \in Sides, x, y \in Entries : Key(x) # Key(y) => On(s, x, y) \/ On(1 - s, x, y)
  /\ \A s \in Sides, x, y \in Entries : On(s, x, y) => Key(x) # Key(y)
  /\ \A s \in Sides, x, y, z \in Entries : On(s, x, y) /\ On(s, y, z) => On(s, x, z)
<1> \A e \in Entries : Key(e) \in Int
  BY EntryFacts
<1> QED
  BY DEF On, Sides

LEMMA SpanFacts ==
  ASSUME NEW t, NEW H, NEW sp, Linked(t, H), Spans(t, H, sp)
  PROVE  /\ \A x \in H : x \in sp[x] /\ x \in Places /\ x # Nil /\ sp[x] \subseteq H
         /\ \A x \in H, s \in Sides :
              /\ t.kid[x][s] \in H \cup {Nil} /\ sp[t.kid[x][s]] \subseteq sp[x]
              /\ x \notin sp[t.kid[x][s]]
              /\ \A y \in sp[x] :
                   y = x \/ y \in sp[t.kid[x][s]] \/ y \in sp[t.kid[x][1 - s]]
              /\ \A y \in sp[t.kid[x][s]] :
                   y \in Entries /\ On(s, y, x) /\ y \notin sp[t.kid[x][1 - s]]
         /\ H # {} => t.root \in H
<1>1. H \subseteq Entries /\ \A x \in H : x \in Places /\ x # Nil
  BY EntryFacts DEF Linked, Places
<1>2. \A x \in H : x \in sp[x] /\ sp[x] \subseteq H
  BY <1>1 DEF Spans
<1>3. ASSUME NEW x \in H, NEW s \in Sides
      PROVE  /\ t.kid[x][s] \in H \cup {Nil} /\ sp[t.kid[x][s]] \subseteq sp[x]
             /\ x \notin sp[t.kid[x][s]]
             /\ \A y \in sp[x] :
                  y = x \/ y \in sp[t.kid[x][s]] \/ y \in sp[t.kid[x][1 - s]]
             /\ \A y \in sp[t.kid[x][s]] :
                  y \in Entries /\ On(s, y, x) /\ y \notin sp[t.kid[x][1 - s]]
  <2>1. t.kid[x][s] \in H \cup {Nil}
    BY DEF Linked
  <2>2. sp[x] = {x} \cup sp[t.kid[x][s]] \cup sp[t.kid[x][1 - s]]
    <3>1. sp[x] = {x} \cup sp[t.kid[x][0]] \cup sp[t.kid[x][1]]
      BY DEF Spans
    <3>2. (s = 0 /\ 1 - s = 1) \/ (s = 1 /\ 1 - s = 0)
      BY DEF Sides
    <3> QED
      BY <3>1, <3>2
  <2>3. 1 - s \in Sides
    BY OnFacts
  <2>4. /\ \A y \in sp[t.kid[x][s]] : On(s, y, x)
        /\ \A y \in sp[t.kid[x][1 - s]] : On(1 - s, y, x)
    BY <2>3 DEF Spans
  <2>5. sp[t.kid[x][s]] \subseteq Entries
    BY <1>1, <1>2, <2>2
  <2> QED
    BY <1>1, <2>1, <2>2, <2>4, <2>5, OnFacts
<1>4. H # {} => t.root \in H
  BY DEF Spans, Linked
<1> QED
  BY <1>1, <1>2, <1>3, <1>4

LEMMA SpanSizes ==
  ASSUME NEW t, NEW H, NEW sp, Linked(t, H), Spans(t, H, sp)
  PROVE  /\ IsFiniteSet(H) /\ Cardinality(H) \in 0..Cardinality(Entries)
         /\ \A x \in H : /\ Cardinality(sp[x]) \in 1..Cardinality(H)
                         /\ Cardinality(sp[x]) \in 1..Cardinality(Entries)
         /\ \A x, y \in H : sp[x] \subseteq sp[y] /\ y \notin sp[x] =>
              Cardinality(sp[x]) < Cardinality(sp[y])
         /\ \A x, y \in H : sp[x] \subseteq sp[y] =>
              Cardinality(sp[x]) <= Cardinality(sp[y])
<1>1. IsFiniteSet(H) /\ Cardinality(H) <= Cardinality(Entries)
  BY EntryFacts, FS_Subset DEF Linked
<1>2. \A x \in H : x \in sp[x] /\ sp[x] \subseteq H
  BY SpanFacts
<1>3. \A x \in H : IsFiniteSet(sp[x]) /\ Cardinality(sp[x]) <= Cardinality(H)
  BY <1>1, <1>2, FS_Subset
<1>4. \A x \in H : Cardinality(sp[x]) \in Nat
  BY <1>3, FS_CardinalityType
<1>5. Cardinality(H) \in 0..Cardinality(Entries)
  BY <1>1, FS_CardinalityType, HowMany
<1>6. ASSUME NEW x \in H
      PROVE  /\ Cardinality(sp[x]) \in 1..Cardinality(H)
             /\ Cardinality(sp[x]) \in 1..Cardinality(Entries)
  <2>1. sp[x] # {}
    BY <1>2
  <2>2. Cardinality(sp[x]) # 0
    BY <1>3, <2>1, FS_EmptySet
  <2> QED
    BY <1>3, <1>4, <1>5, <2>2, HowMany
<1>7. ASSUME NEW x \in H, NEW y \in H, sp[x] \subseteq sp[y]
      PROVE  Cardinality(sp[x]) <= Cardinality(sp[y])
  BY <1>3, <1>7, FS_Subset
<1>8. ASSUME NEW x \in H, NEW y \in H, sp[x] \subseteq sp[y], y \notin sp[x]
      PROVE  Cardinality(sp[x]) < Cardinality(sp[y])
  <2>1. sp[x] # sp[y]
    BY <1>2, <1>8
  <2>2. Cardinality(sp[x]) # Cardinality(sp[y])
    BY <1>3, <1>8, <2>1, FS_Subset
  <2> QED
    BY <1>4, <1>7, <1>8, <2>2
<1> QED
  BY <1>1, <1>5, <1>6, <1>7, <1>8

\* What holds of an entry when it holds of its kids holds of all.
LEMMA FromBelow ==
  ASSUME NEW t, NEW H, NEW sp, Linked(t, H), Spans(t, H, sp), NEW G,
         \A x \in H : (\A s \in Sides : t.kid[x][s] \in G \cup {Nil}) => x \in G
  PROVE  H \subseteq G
<1> SUFFICES ASSUME NEW z \in H, z \notin G PROVE FALSE
  OBVIOUS
<1> DEFINE T == {Cardinality(sp[x]) : x \in H \ G}
<1>1. T \subseteq Nat /\ T # {}
  BY SpanSizes
<1>2. PICK x \in H \ G : \A y \in H \ G : Cardinality(sp[x]) <= Cardinality(sp[y])
  <2>1. PICK m \in T : \A n \in T : m <= n
    <3> HIDE DEF T
    <3> QED
      BY <1>1, LeastNumber
  <2> QED
    BY <2>1
<1>3. PICK s \in Sides : t.kid[x][s] \notin G \cup {Nil}
  BY <1>2
<1>4. PICK k : k = t.kid[x][s]
  OBVIOUS
<1>5. k \in H \ G /\ sp[k] \subseteq sp[x] /\ x \notin sp[k]
  BY <1>2, <1>3, <1>4, SpanFacts
<1>6. Cardinality(sp[k]) < Cardinality(sp[x])
  BY <1>5, SpanSizes
<1>7. Cardinality(sp[k]) \in Int /\ Cardinality(sp[x]) \in Int
  BY <1>2, <1>5, SpanSizes
<1> QED
  BY <1>2, <1>5, <1>6, <1>7

\* What hangs from what hangs from a hangs from a, and so does all on the way.
LEMMA Within ==
  ASSUME NEW t, NEW H, NEW sp, Linked(t, H), Spans(t, H, sp), NEW a \in H
  PROVE  \A c \in sp[a] : /\ c \in H /\ sp[c] \subseteq sp[a]
                          /\ c # a => t.parent[c] \in sp[a] /\ a \notin sp[c]
<1> DEFINE G == {b \in H : \A c \in sp[b] :
                   /\ c \in H /\ sp[c] \subseteq sp[b]
                   /\ c # b => t.parent[c] \in sp[b] /\ b \notin sp[c]}
<1>1. ASSUME NEW b \in H, \A s \in Sides : t.kid[b][s] \in G \cup {Nil}
      PROVE  b \in G
  <2> SUFFICES ASSUME NEW c \in sp[b], c # b
               PROVE  /\ c \in H /\ sp[c] \subseteq sp[b]
                      /\ t.parent[c] \in sp[b] /\ b \notin sp[c]
    BY SpanFacts
  <2>1. PICK s \in Sides : c \in sp[t.kid[b][s]]
    BY SpanFacts, OnFacts DEF Sides
  <2>2. PICK k : k = t.kid[b][s]
    OBVIOUS
  <2>3. k \in H \cup {Nil} /\ sp[k] \subseteq sp[b] /\ b \notin sp[k] /\ b \in sp[b]
    BY <2>2, SpanFacts
  <2>4. k \in G /\ k \in H
    BY <1>1, <2>1, <2>2, <2>3 DEF Spans
  <2>5. c \in H /\ sp[c] \subseteq sp[k] /\ (c # k => t.parent[c] \in sp[k])
    BY <2>1, <2>2, <2>4
  <2>6. t.parent[k] = b
    BY <2>2, <2>4, SpanFacts DEF Linked
  <2> QED
    BY <2>3, <2>5, <2>6
<1> HIDE DEF G
<1>2. H \subseteq G
  BY <1>1, FromBelow
<1> QED
  BY <1>2 DEF G

\* All that hangs from a is on the same side of what does not.
LEMMA Apart ==
  ASSUME NEW t, NEW H, NEW sp, Linked(t, H), Spans(t, H, sp)
  PROVE  \A a \in H : \A y \in H \ sp[a] : \E s \in Sides : \A z \in sp[a] : On(s, y, z)
<1> DEFINE G == {b \in H : \A a \in sp[b] : \A y \in sp[b] \ sp[a] :
                   \E s \in Sides : \A z \in sp[a] : On(s, y, z)}
<1>1. ASSUME NEW b \in H, \A s \in Sides : t.kid[b][s] \in G \cup {Nil}
      PROVE  b \in G
  <2> SUFFICES ASSUME NEW a \in sp[b], NEW y \in sp[b] \ sp[a]
               PROVE  \E s \in Sides : \A z \in sp[a] : On(s, y, z)
    OBVIOUS
  <2>1. a # b
    OBVIOUS
  <2>2. PICK s \in Sides : a \in sp[t.kid[b][s]]
    BY <2>1, SpanFacts, OnFacts DEF Sides
  <2>3. PICK k, j : k = t.kid[b][s] /\ j = t.kid[b][1 - s]
    OBVIOUS
  <2>4. k \in G /\ k \in H /\ 1 - s \in Sides /\ b \in Entries /\ s = 1 - (1 - s)
    BY <1>1, <2>2, <2>3, SpanFacts, OnFacts DEF Spans, Linked
  <2>5. sp[a] \subseteq sp[k]
    BY <2>2, <2>3, <2>4, Within
  <2>6. \A z \in sp[a] : z \in Entries /\ On(1 - s, b, z)
    BY <2>2, <2>3, <2>4, <2>5, SpanFacts, OnFacts
  <2>7. y = b \/ y \in sp[k] \/ y \in sp[j]
    BY <2>3, <2>4, SpanFacts
  <2>8. CASE y = b
    BY <2>4, <2>6, <2>8
  <2>9. CASE y \in sp[k]
    BY <2>2, <2>3, <2>4, <2>9
  <2>10. CASE y \in sp[j]
    <3>1. On(1 - s, y, b) /\ y \in Entries
      BY <2>3, <2>4, <2>10, SpanFacts
    <3> QED
      BY <2>4, <2>6, <3>1, OnFacts
  <2> QED
    BY <2>7, <2>8, <2>9, <2>10
<1> HIDE DEF G
<1>2. H \subseteq G
  BY <1>1, FromBelow
<1>3. H # {} => t.root \in H
  BY SpanFacts
<1> QED
  BY <1>2, <1>3 DEF G, Spans

LEMMA KeysDiffer ==
  ASSUME NEW t, NEW H, NEW sp, Linked(t, H), Spans(t, H, sp)
  PROVE  \A x, y \in H : Key(x) = Key(y) => x = y
<1> DEFINE G == {b \in H : \A x, y \in sp[b] : Key(x) = Key(y) => x = y}
<1>1. ASSUME NEW b \in H, \A s \in Sides : t.kid[b][s] \in G \cup {Nil}
      PROVE  b \in G
  <2> SUFFICES ASSUME NEW x \in sp[b], NEW y \in sp[b], Key(x) = Key(y) PROVE x = y
    OBVIOUS
  <2>1. PICK k, j : k = t.kid[b][0] /\ j = t.kid[b][1]
    OBVIOUS
  <2>2. 0 \in Sides /\ 1 \in Sides /\ 1 = 1 - 0 /\ 0 = 1 - 1 /\ b \in Entries
    BY DEF Sides, Linked
  <2>3. k \in G \cup {Nil} /\ j \in G \cup {Nil}
    BY <1>1, <2>1, <2>2
  <2>4. /\ x = b \/ x \in sp[k] \/ x \in sp[j]
        /\ y = b \/ y \in sp[k] \/ y \in sp[j]
        /\ \A z \in sp[k] : z \in Entries /\ On(0, z, b)
        /\ \A z \in sp[j] : z \in Entries /\ On(1, z, b)
    BY <2>1, <2>2, SpanFacts
  <2>5. \A e \in Entries : Key(e) \in Int
    BY EntryFacts
  <2>6. /\ \A z \in sp[k] : Key(z) < Key(b)
        /\ \A z \in sp[j] : Key(z) > Key(b)
    BY <2>4 DEF On
  <2>7. \/ x = b /\ y = b
        \/ x \in sp[k] /\ y \in sp[k]
        \/ x \in sp[j] /\ y \in sp[j]
    BY <2>2, <2>4, <2>5, <2>6
  <2> QED
    BY <2>3, <2>7 DEF Spans
<1> HIDE DEF G
<1>2. H \subseteq G
  BY <1>1, FromBelow
<1>3. H # {} => t.root \in H
  BY SpanFacts
<1> QED
  BY <1>2, <1>3 DEF G, Spans

\* A kid is on one side.
LEMMA KidSides ==
  ASSUME NEW t, NEW H, NEW sp, Linked(t, H), Spans(t, H, sp)
  PROVE  /\ \A x \in H, s \in Sides : t.kid[x][s] # Nil =>
              /\ t.kid[x][s] \in H /\ t.kid[x][s] # x /\ t.kid[x][1 - s] # t.kid[x][s]
              /\ t.parent[t.kid[x][s]] = x /\ SideOf(t, x, t.kid[x][s]) = s
              /\ t.kid[x][s] # t.root
         /\ \A x \in H : /\ t.parent[x] \in H \cup {Nil} /\ t.parent[x] # x
                         /\ x = t.root <=> t.parent[x] = Nil
                         /\ t.parent[x] # Nil => \E s \in Sides : t.kid[t.parent[x]][s] = x
<1>1. ASSUME NEW x \in H, NEW s \in Sides, t.kid[x][s] # Nil
      PROVE  /\ t.kid[x][s] \in H /\ t.kid[x][s] # x /\ t.kid[x][1 - s] # t.kid[x][s]
             /\ t.parent[t.kid[x][s]] = x /\ SideOf(t, x, t.kid[x][s]) = s
             /\ t.kid[x][s] # t.root
  <2>1. PICK k : k = t.kid[x][s]
    OBVIOUS
  <2>2. k \in H /\ k \in sp[k] /\ x \notin sp[k] /\ t.parent[k] = x
    BY <1>1, <2>1, SpanFacts DEF Linked
  <2>3. \A y \in sp[k] : y \notin sp[t.kid[x][1 - s]]
    BY <2>1, SpanFacts
  <2>4. t.kid[x][1 - s] # k /\ k # x
    BY <2>2, <2>3
  <2>5. SideOf(t, x, k) = s
    BY <2>1, <2>4 DEF SideOf, Sides
  <2>6. x # Nil /\ (t.root # Nil => t.parent[t.root] = Nil) /\ k # Nil
    BY <2>2, SpanFacts DEF Linked
  <2> QED
    BY <2>1, <2>2, <2>4, <2>5, <2>6
<1>2. ASSUME NEW x \in H
      PROVE  /\ t.parent[x] \in H \cup {Nil} /\ t.parent[x] # x
             /\ x = t.root <=> t.parent[x] = Nil
             /\ t.parent[x] # Nil => \E s \in Sides : t.kid[t.parent[x]][s] = x
  <2>1. /\ t.parent[x] \in H \cup {Nil} /\ x # Nil
        /\ x = t.root <=> t.parent[x] = Nil
        /\ t.parent[x] # Nil => \E s \in Sides : t.kid[t.parent[x]][s] = x
    BY SpanFacts DEF Linked
  <2> QED
    BY <1>1, <2>1
<1> QED
  BY <1>1, <1>2

LEMMA KidOf ==
  ASSUME NEW t, NEW H, NEW sp, Linked(t, H), Spans(t, H, sp),
         NEW x \in H, NEW c \in H, NEW s \in Sides, t.kid[x][s] = c
  PROVE  /\ t.parent[c] = x /\ c # x /\ c # t.root
         /\ SideOf(t, x, c) = s /\ t.kid[x][1 - s] # c
         /\ sp[c] \subseteq sp[x] /\ x \notin sp[c] /\ On(s, c, x)
<1>1. c # Nil /\ c \in sp[c]
  BY SpanFacts
<1> QED
  BY <1>1, KidSides, SpanFacts

LEMMA ParentOf ==
  ASSUME NEW t, NEW H, NEW sp, Linked(t, H), Spans(t, H, sp),
         NEW x \in H, NEW p, p = t.parent[x], p # Nil
  PROVE  /\ p \in H /\ p # x /\ x # t.root /\ sp[x] \subseteq sp[p] /\ p \notin sp[x]
         /\ SideOf(t, p, x) \in Sides /\ t.kid[p][SideOf(t, p, x)] = x
<1>1. PICK d \in Sides : p \in H /\ t.kid[p][d] = x
  BY DEF Linked
<1>2. SideOf(t, p, x) = d
  BY <1>1, KidOf
<1> QED
  BY <1>1, <1>2, KidOf

\* Of the two sides one may be said first, whichever.
LEMMA EitherSide ==
  ASSUME NEW t, NEW sp, NEW x, NEW s \in Sides
  PROVE  {x} \cup sp[t.kid[x][0]] \cup sp[t.kid[x][1]] =
         {x} \cup sp[t.kid[x][s]] \cup sp[t.kid[x][1 - s]]
<1>1. (s = 0 /\ 1 - s = 1) \/ (s = 1 /\ 1 - s = 0)
  BY DEF Sides
<1> QED
  BY <1>1

LEMMA SpanOfKids ==
  ASSUME NEW t, NEW H, NEW sp, Linked(t, H), Spans(t, H, sp), NEW x \in H, NEW s \in Sides
  PROVE  /\ sp[x] = {x} \cup sp[t.kid[x][s]] \cup sp[t.kid[x][1 - s]]
         /\ t.kid[x][s] \in H \cup {Nil} /\ t.kid[x][s] # x /\ x \notin sp[t.kid[x][s]]
<1>1. sp[x] = {x} \cup sp[t.kid[x][0]] \cup sp[t.kid[x][1]]
  BY DEF Spans
<1>2. sp[x] = {x} \cup sp[t.kid[x][s]] \cup sp[t.kid[x][1 - s]]
  <2>1. (s = 0 /\ 1 - s = 1) \/ (s = 1 /\ 1 - s = 0)
    BY DEF Sides
  <2> QED
    BY <1>1, <2>1
<1>3. t.kid[x][s] \in H \cup {Nil} /\ x \notin sp[t.kid[x][s]] /\ x # Nil
  BY SpanFacts
<1>4. t.kid[x][s] # x
  BY <1>3, SpanFacts
<1> QED
  BY <1>2, <1>3, <1>4

-----------------------------------------------------------------------------
(* Reading.                                                                *)

\* RB_LEFT of RB_LEFT of ...: the one furthest on side s.
LEMMA FarthestIs ==
  ASSUME NEW t, NEW H, NEW sp, Linked(t, H), Spans(t, H, sp), NEW e \in H, NEW s \in Sides
  PROVE  LET n == Farthest(t, e, s) IN
         /\ n \in sp[e] /\ n \in H /\ t.kid[n][s] = Nil
         /\ \A y \in sp[e] : y = n \/ On(1 - s, y, n)
<1> DEFINE G == {q \in Entries \X Nat :
                   /\ q[1] \in sp[e] /\ q[2] = Cardinality(sp[q[1]])
                   /\ \A y \in sp[e] \ sp[q[1]] : On(1 - s, y, q[1])}
           f == FarTurns(t, s)
           r0 == Cardinality(sp[e])
<1>0. H \subseteq Entries /\ 1 - s \in Sides /\ sp[e] \subseteq H /\ e \in sp[e]
  BY OnFacts, SpanFacts DEF Linked
<1>1. r0 \in 0..Cardinality(Entries) /\ r0 \in Nat
  BY SpanSizes, HowMany
<1>2. <<e, r0>> \in G
  BY <1>0, <1>1
<1>3. ASSUME NEW c \in Entries, NEW r \in Nat, <<c, r>> \in G
      PROVE  f[c] = c \/ \E q \in Nat : q < r /\ <<f[c], q>> \in G
  <2>1. c \in sp[e] /\ r = Cardinality(sp[c]) /\ \A y \in sp[e] \ sp[c] : On(1 - s, y, c)
    BY <1>3
  <2>2. PICK k, j : k = t.kid[c][s] /\ j = t.kid[c][1 - s]
    OBVIOUS
  <2>3. CASE k = Nil
    BY <2>2, <2>3 DEF FarTurns
  <2>4. CASE k # Nil
    <3>1. f[c] = k
      BY <2>2, <2>4 DEF FarTurns
    <3>2. /\ c \in H /\ k \in H /\ sp[k] \subseteq sp[c] /\ c \notin sp[k] /\ k \in sp[k]
          /\ \A y \in sp[c] : y = c \/ y \in sp[k] \/ y \in sp[j]
          /\ \A y \in sp[j] : y \in Entries /\ On(1 - s, y, c)
          /\ On(s, k, c)
      BY <1>0, <2>1, <2>2, <2>4, SpanFacts
    <3>3. On(1 - s, c, k)
      BY <1>0, <3>2, OnFacts
    <3>4. ASSUME NEW y \in sp[e] \ sp[k] PROVE On(1 - s, y, k)
      <4>1. y = c \/ On(1 - s, y, c)
        BY <2>1, <3>2
      <4> QED
        BY <1>0, <3>2, <3>3, <4>1, OnFacts
    <3>5. sp[c] \subseteq sp[e]
      BY <2>1, Within
    <3>6. Cardinality(sp[k]) \in Nat /\ Cardinality(sp[k]) < r
      BY <2>1, <3>2, SpanSizes
    <3>7. <<k, Cardinality(sp[k])>> \in G
      BY <1>0, <3>2, <3>4, <3>5, <3>6
    <3> QED
      BY <3>1, <3>6, <3>7
  <2> QED
    BY <2>3, <2>4
<1>4. PICK n : n = Loop(f, e)
  OBVIOUS
<1>5. f[n] = n /\ n \in Entries /\ \E r \in Nat : <<n, r>> \in G
  <2>1. G \subseteq Entries \X Nat
    OBVIOUS
  <2>2. e \in Entries
    BY <1>0
  <2> HIDE DEF G, f, r0
  <2> QED
    BY <1>1, <1>2, <1>3, <1>4, <2>1, <2>2, LoopEnds
<1>6. n \in sp[e] /\ n \in H /\ \A y \in sp[e] \ sp[n] : On(1 - s, y, n)
  BY <1>0, <1>5
<1>7. t.kid[n][s] = Nil
  BY <1>5, <1>6, KidSides DEF FarTurns
<1>8. \A y \in sp[e] : y = n \/ On(1 - s, y, n)
  <2>1. \A y \in sp[n] : y = n \/ On(1 - s, y, n)
    BY <1>0, <1>6, <1>7, SpanFacts DEF Spans
  <2> QED
    BY <1>6, <2>1
<1> QED
  BY <1>4, <1>6, <1>7, <1>8 DEF Farthest

\* n is the one next to e on side s, Nil when e is the last there.
NextTo(H, e, s, n) ==
  /\ n \in H \cup {Nil} /\ (n # Nil => On(s, n, e))
  /\ \A y \in H : On(s, y, e) => n # Nil /\ (y = n \/ On(s, y, n))

\* Up, as long as it is the kid on side s.
LEMMA ClimbIs ==
  ASSUME NEW t, NEW H, NEW sp, Linked(t, H), Spans(t, H, sp), NEW e \in H, NEW s \in Sides,
         t.kid[e][s] = Nil
  PROVE  NextTo(H, e, s, Climb(t, e, s))
<1> DEFINE Size(c) == Cardinality(sp[c])
           N == Cardinality(H)
           G == {q \in Entries \X Nat :
                   /\ q[1] \in H /\ q[2] = N - Size(q[1]) /\ e \in sp[q[1]]
                   /\ \A y \in sp[q[1]] : y = e \/ On(1 - s, y, e)}
           f == ClimbTurns(t, s)
           r0 == N - Size(e)
<1>0. H \subseteq Entries /\ 1 - s \in Sides /\ 1 - (1 - s) = s /\ e \in sp[e]
  BY OnFacts, SpanFacts DEF Linked
<1>below. \A y \in sp[e] : y = e \/ On(1 - s, y, e)
  BY <1>0, SpanFacts DEF Spans
<1>1. N \in 0..Cardinality(Entries) /\ N \in Nat /\ \A c \in H : Size(c) \in 1..N
  BY SpanSizes, HowMany
<1> HIDE DEF Size, N
<1>2. r0 \in 0..Cardinality(Entries) /\ r0 \in Nat
  BY <1>1, HowMany
<1>3. <<e, r0>> \in G
  BY <1>0, <1>below, <1>2
<1>4. ASSUME NEW c \in H, e \in sp[c], \A y \in sp[c] : y = e \/ On(1 - s, y, e),
             NEW p \in H, p = t.parent[c], t.kid[p][s] = c
      PROVE  /\ e \in sp[p] /\ Size(c) < Size(p)
             /\ \A y \in sp[p] : y = e \/ On(1 - s, y, e)
  <2>1. /\ sp[c] \subseteq sp[p] /\ p \notin sp[c]
        /\ \A y \in sp[p] : y = p \/ y \in sp[c] \/ y \in sp[t.kid[p][1 - s]]
        /\ \A y \in sp[t.kid[p][1 - s]] : y \in Entries /\ On(1 - s, y, p)
        /\ On(s, e, p)
    BY <1>0, <1>4, SpanFacts
  <2>2. Size(c) < Size(p)
    BY <2>1, SpanSizes DEF Size
  <2>3. On(1 - s, p, e)
    BY <1>0, <2>1, OnFacts
  <2> QED
    BY <1>0, <1>4, <2>1, <2>2, <2>3, OnFacts
<1>5. ASSUME NEW c \in Entries, NEW r \in Nat, <<c, r>> \in G
      PROVE  f[c] = c \/ \E q \in Nat : q < r /\ <<f[c], q>> \in G
  <2>1. PICK p : p = t.parent[c]
    OBVIOUS
  <2>2. c \in H /\ r = N - Size(c) /\ e \in sp[c] /\ \A y \in sp[c] : y = e \/ On(1 - s, y, e)
    BY <1>5
  <2>3. CASE p # Nil /\ t.kid[p][s] = c
    <3>1. p \in H /\ f[c] = p
      BY <2>1, <2>2, <2>3, KidSides DEF ClimbTurns
    <3>2. /\ e \in sp[p] /\ Size(c) < Size(p)
          /\ \A y \in sp[p] : y = e \/ On(1 - s, y, e)
      BY <1>4, <2>1, <2>2, <2>3, <3>1
    <3>3. N - Size(p) \in Nat /\ N - Size(p) < r
      BY <1>1, <2>2, <3>1, <3>2
    <3>4. <<p, N - Size(p)>> \in G
      BY <1>0, <3>1, <3>2, <3>3
    <3> QED
      BY <3>1, <3>3, <3>4
  <2>4. CASE ~(p # Nil /\ t.kid[p][s] = c)
    BY <2>1, <2>4 DEF ClimbTurns
  <2> QED
    BY <2>3, <2>4
<1>6. PICK c : c = Loop(f, e)
  OBVIOUS
<1>7. f[c] = c /\ c \in Entries /\ \E r \in Nat : <<c, r>> \in G
  <2>1. G \subseteq Entries \X Nat
    OBVIOUS
  <2>2. e \in Entries
    BY <1>0
  <2> HIDE DEF G, f, r0
  <2> QED
    BY <1>2, <1>3, <1>5, <1>6, <2>1, <2>2, LoopEnds
<1>8. c \in H /\ e \in sp[c] /\ \A y \in sp[c] : y = e \/ On(1 - s, y, e)
  BY <1>7
<1>9. PICK p : p = t.parent[c]
  OBVIOUS
<1>10. Climb(t, e, s) = p
  BY <1>6, <1>9 DEF Climb
<1>11. ASSUME NEW y \in H, On(s, y, e) PROVE \A z \in sp[c] : On(s, y, z)
  <2>1. y \notin sp[c]
    BY <1>0, <1>8, <1>11, OnFacts
  <2>2. PICK d \in Sides : \A z \in sp[c] : On(d, y, z)
    BY <1>8, <2>1, Apart
  <2>3. d = s
    BY <1>0, <1>8, <1>11, <2>2, OnFacts DEF Sides
  <2> QED
    BY <2>2, <2>3
<1>12. CASE p = Nil
  <2>1. sp[c] = H
    <3>1. c = t.root
      BY <1>8, <1>9, <1>12 DEF Linked
    <3> QED
      BY <3>1 DEF Spans
  <2>2. \A y \in H : ~On(s, y, e)
    BY <1>0, <1>8, <2>1, OnFacts
  <2> QED
    BY <1>10, <1>12, <2>2 DEF NextTo
<1>13. CASE p # Nil
  <2>1. p \in H /\ c \in sp[c] /\ t.kid[p][s] # c
    BY <1>7, <1>8, <1>9, <1>13, KidSides, SpanFacts DEF ClimbTurns
  <2>2. t.kid[p][1 - s] = c
    BY <1>0, <1>8, <1>9, <1>13, <2>1, KidSides DEF Sides
  <2>3. /\ On(1 - s, e, p)
        /\ \A y \in sp[p] : y = p \/ y \in sp[c] \/ y \in sp[t.kid[p][s]]
        /\ \A y \in sp[t.kid[p][s]] : On(s, y, p)
        /\ sp[c] \subseteq sp[p] /\ p \in sp[p]
    BY <1>0, <1>8, <2>1, <2>2, SpanFacts
  <2>4. On(s, p, e)
    BY <1>0, <2>1, <2>3, OnFacts
  <2>5. ASSUME NEW y \in H, On(s, y, e) PROVE y = p \/ On(s, y, p)
    <3>1. \A z \in sp[c] : On(s, y, z)
      BY <1>11, <2>5
    <3>2. y \notin sp[c]
      BY <1>0, <1>8, <2>5, OnFacts
    <3>3. CASE y \in sp[p]
      BY <2>3, <3>2, <3>3
    <3>4. CASE y \notin sp[p]
      <4>1. PICK d \in Sides : \A z \in sp[p] : On(d, y, z)
        BY <2>1, <3>4, Apart
      <4>2. d = s
        BY <1>0, <1>8, <2>3, <2>5, <4>1, OnFacts DEF Sides
      <4> QED
        BY <2>3, <4>1, <4>2
    <3> QED
      BY <3>3, <3>4
  <2> QED
    BY <1>10, <1>13, <2>1, <2>4, <2>5 DEF NextTo
<1> QED
  BY <1>12, <1>13

LEMMA BesideIs ==
  ASSUME NEW t, NEW H, NEW sp, Linked(t, H), Spans(t, H, sp), NEW e \in H, NEW s \in Sides
  PROVE  NextTo(H, e, s, Beside(t, e, s))
<1>1. CASE t.kid[e][s] = Nil
  BY <1>1, ClimbIs DEF Beside
<1>2. CASE t.kid[e][s] # Nil
  <2>1. PICK k : k = t.kid[e][s]
    OBVIOUS
  <2>2. PICK n : n = Farthest(t, k, 1 - s)
    OBVIOUS
  <2>3. Beside(t, e, s) = n
    BY <1>2, <2>1, <2>2 DEF Beside
  <2>4. H \subseteq Entries /\ k \in H /\ 1 - s \in Sides /\ 1 - (1 - s) = s
    BY <1>2, <2>1, KidSides, OnFacts DEF Linked
  <2>5. n \in sp[k] /\ n \in H /\ \A y \in sp[k] : y = n \/ On(s, y, n)
    BY <2>2, <2>4, FarthestIs
  <2>6. /\ On(s, n, e) /\ e \in sp[e]
        /\ \A y \in sp[e] : y = e \/ y \in sp[k] \/ y \in sp[t.kid[e][1 - s]]
        /\ \A y \in sp[t.kid[e][1 - s]] : On(1 - s, y, e)
        /\ sp[k] \subseteq sp[e]
    BY <2>1, <2>4, <2>5, SpanFacts
  <2>7. ASSUME NEW y \in H, On(s, y, e) PROVE y = n \/ On(s, y, n)
    <3>1. CASE y \in sp[e]
      <4>1. y \in sp[k]
        BY <2>4, <2>6, <2>7, <3>1, OnFacts
      <4> QED
        BY <2>5, <4>1
    <3>2. CASE y \notin sp[e]
      <4>1. PICK d \in Sides : \A z \in sp[e] : On(d, y, z)
        BY <3>2, Apart
      <4>2. d = s
        BY <2>4, <2>6, <2>7, <4>1, OnFacts DEF Sides
      <4> QED
        BY <2>5, <2>6, <4>1, <4>2
    <3> QED
      BY <3>1, <3>2
  <2>8. n # Nil
    BY <2>5, SpanFacts
  <2> QED
    BY <2>3, <2>5, <2>6, <2>7, <2>8 DEF NextTo
<1> QED
  BY <1>1, <1>2

\* On which side of y a key is.
KeyOn(s, k, y) == IF s = 0 THEN k < Key(y) ELSE k > Key(y)

\* The way down by a key comes to the entry that has it, or to where it would
\* hang.
LEMMA NearestIs ==
  ASSUME NEW t, NEW H, NEW sp, Linked(t, H), Spans(t, H, sp), NEW k \in Int, H # {}
  PROVE  LET p == Nearest(t, k) IN
         /\ p \in H
         /\ \A a \in H, s \in Sides : p \in sp[t.kid[a][s]] => KeyOn(s, k, a)
         /\ \A y \in H : Key(y) = k => y = p
         /\ Key(p) # k => t.kid[p][IF k < Key(p) THEN 0 ELSE 1] = Nil
<1> DEFINE Way(c) == /\ c \in H
                     /\ \A a \in H, s \in Sides : c \in sp[t.kid[a][s]] => KeyOn(s, k, a)
                     /\ \A y \in H : Key(y) = k => y \in sp[c]
           G == {q \in Entries \X Nat : Way(q[1]) /\ q[2] = Cardinality(sp[q[1]])}
           f == DownTurns(t, k)
           r0 == Cardinality(sp[t.root])
<1>0. H \subseteq Entries /\ (\A e \in Entries : Key(e) \in Int) /\ t.root \in H
  BY EntryFacts, SpanFacts DEF Linked
<1>1. r0 \in 0..Cardinality(Entries) /\ r0 \in Nat
  BY <1>0, SpanSizes, HowMany
<1>2. Way(t.root)
  <2>1. ASSUME NEW a \in H, NEW s \in Sides, t.root \in sp[t.kid[a][s]] PROVE FALSE
    <3>1. PICK b : b = t.kid[a][s]
      OBVIOUS
    <3>2. b \in H \cup {Nil} /\ a \notin sp[b]
      BY <3>1, SpanFacts
    <3>3. b \in H
      BY <2>1, <3>1, <3>2 DEF Spans
    <3>4. sp[t.root] \subseteq sp[b]
      BY <2>1, <3>1, <3>3, Within
    <3> QED
      BY <3>2, <3>4 DEF Spans
  <2>2. \A y \in H : y \in sp[t.root]
    BY DEF Spans
  <2> QED
    BY <1>0, <2>1, <2>2
<1>3. <<t.root, r0>> \in G
  BY <1>0, <1>1, <1>2
<1>4. ASSUME NEW c \in Entries, NEW r \in Nat, <<c, r>> \in G
      PROVE  f[c] = c \/ \E q \in Nat : q < r /\ <<f[c], q>> \in G
  <2>1. Way(c) /\ r = Cardinality(sp[c])
    BY <1>4
  <2>2. PICK s, n : s = (IF k < Key(c) THEN 0 ELSE 1) /\ n = t.kid[c][s]
    OBVIOUS
  <2>3. CASE k = Key(c) \/ n = Nil
    BY <2>2, <2>3 DEF DownTurns
  <2>4. CASE k # Key(c) /\ n # Nil
    <3>1. f[c] = n
      BY <2>2, <2>4 DEF DownTurns
    <3>2. s \in Sides /\ KeyOn(s, k, c)
      BY <1>0, <2>2, <2>4 DEF Sides, KeyOn
    <3>3. /\ c \in H /\ n \in H /\ sp[n] \subseteq sp[c] /\ c \notin sp[n] /\ n \in sp[n]
          /\ \A y \in sp[c] : y = c \/ y \in sp[n] \/ y \in sp[t.kid[c][1 - s]]
          /\ \A y \in sp[t.kid[c][1 - s]] : y \in Entries /\ On(1 - s, y, c)
      BY <2>1, <2>2, <2>4, <3>2, SpanFacts, OnFacts
    <3>4. Cardinality(sp[n]) \in Nat /\ Cardinality(sp[n]) < r
      BY <2>1, <3>3, SpanSizes
    <3>8. c \in H /\ n \in H /\ s \in Sides /\ t.kid[c][s] = n
      BY <2>2, <3>2, <3>3
    <3>5. ASSUME NEW a \in H, NEW d \in Sides, n \in sp[t.kid[a][d]] PROVE KeyOn(d, k, a)
      <4>1. PICK b : b = t.kid[a][d]
        OBVIOUS
      <4>2. b \in H
        BY <3>5, <4>1, SpanFacts DEF Spans
      <4>3. CASE b = n
        <5>1. t.parent[b] = a
          BY <4>1, <4>2, KidOf
        <5>2. t.parent[n] = c /\ t.kid[c][1 - s] # n
          BY <3>8, KidOf
        <5>3. d = s \/ d = 1 - s
          BY <3>2 DEF Sides
        <5> QED
          BY <3>2, <3>8, <4>1, <4>3, <5>1, <5>2, <5>3
      <4>4. CASE b # n
        <5>1. t.parent[n] \in sp[b]
          BY <3>5, <4>1, <4>2, <4>4, Within
        <5>2. t.parent[n] = c
          BY <3>8, KidOf
        <5> QED
          BY <2>1, <4>1, <5>1, <5>2
      <4> QED
        BY <4>3, <4>4
    <3>6. ASSUME NEW y \in H, Key(y) = k PROVE y \in sp[n]
      <4>1. y \in sp[c] /\ y # c
        BY <2>1, <2>4, <3>6
      <4>2. ~On(1 - s, y, c)
        BY <1>0, <3>2, <3>3, <3>6 DEF KeyOn, On, Sides
      <4> QED
        BY <3>3, <4>1, <4>2
    <3>7. <<n, Cardinality(sp[n])>> \in G
      BY <1>0, <3>3, <3>4, <3>5, <3>6
    <3> QED
      BY <3>1, <3>4, <3>7
  <2> QED
    BY <2>3, <2>4
<1>5. PICK p : p = Loop(f, t.root)
  OBVIOUS
<1>6. f[p] = p /\ p \in Entries /\ \E r \in Nat : <<p, r>> \in G
  <2>1. G \subseteq Entries \X Nat /\ t.root \in Entries
    BY <1>0
  <2>2. PICK z : z = t.root
    OBVIOUS
  <2>3. z \in Entries /\ <<z, r0>> \in G /\ p = Loop(f, z)
    BY <1>3, <1>5, <2>1, <2>2
  <2> HIDE DEF G, f, r0
  <2> QED
    BY <1>1, <1>4, <2>1, <2>3, LoopEnds
<1>7. Way(p)
  BY <1>6
<1>8. Nearest(t, k) = p
  <2>1. t.root # Nil
    BY <1>0, SpanFacts
  <2> QED
    BY <1>5, <2>1 DEF Nearest
<1>9. PICK s, n : s = (IF k < Key(p) THEN 0 ELSE 1) /\ n = t.kid[p][s]
  OBVIOUS
<1>10. s \in Sides
  BY <1>9 DEF Sides
<1>11. k = Key(p) \/ n = Nil
  <2>1. n # Nil => n # p
    BY <1>7, <1>9, <1>10, KidSides
  <2> QED
    BY <1>6, <1>9, <2>1 DEF DownTurns
<1>12. ASSUME NEW y \in H, Key(y) = k PROVE y = p
  <2>1. y \in sp[p]
    BY <1>7, <1>12
  <2>2. CASE Key(p) = k
    BY <1>7, <1>12, <2>2, KeysDiffer
  <2>3. CASE Key(p) # k
    <3>1. sp[n] = {}
      BY <1>11, <2>3 DEF Spans
    <3>2. y = p \/ y \in sp[t.kid[p][1 - s]]
      <4>1. y = p \/ y \in sp[t.kid[p][s]] \/ y \in sp[t.kid[p][1 - s]]
        BY <1>7, <1>10, <2>1, SpanFacts
      <4> QED
        BY <1>9, <3>1, <4>1
    <3>3. y \in sp[t.kid[p][1 - s]] => On(1 - s, y, p)
      BY <1>7, <1>10, SpanFacts, OnFacts
    <3>4. ~On(1 - s, y, p)
      BY <1>0, <1>7, <1>9, <1>12 DEF On
    <3> QED
      BY <3>2, <3>3, <3>4
  <2> QED
    BY <2>2, <2>3
<1> QED
  BY <1>7, <1>8, <1>9, <1>11, <1>12

LEMMA FoundIs ==
  ASSUME NEW t, NEW H, NEW sp, Linked(t, H), Spans(t, H, sp), NEW k \in Int
  PROVE  /\ Found(t, k) \in H \cup {Nil}
         /\ Found(t, k) = Nil <=> ~\E e \in H : Key(e) = k
<1>1. CASE H = {}
  <2>1. t.root = Nil
    BY <1>1 DEF Linked
  <2>2. Found(t, k) = Nil
    BY <2>1 DEF Found, Nearest
  <2> QED
    BY <1>1, <2>2
<1>2. CASE H # {}
  <2>1. PICK p : p = Nearest(t, k)
    OBVIOUS
  <2>2. p \in H /\ \A y \in H : Key(y) = k => y = p
    BY <1>2, <2>1, NearestIs
  <2>3. p # Nil
    BY <2>2, SpanFacts
  <2>4. Found(t, k) = IF Key(p) = k THEN p ELSE Nil
    BY <2>1, <2>3 DEF Found
  <2> QED
    BY <2>2, <2>3, <2>4
<1> QED
  BY <1>1, <1>2

\* The way down by a key, with the last from which it went left.
LEMMA NFoundIs ==
  ASSUME NEW t, NEW H, NEW sp, Linked(t, H), Spans(t, H, sp), NEW k \in Int
  PROVE  LET n == NFound(t, k) IN
         /\ n \in H \cup {Nil} /\ (n # Nil => Key(n) >= k)
         /\ \A y \in H : Key(y) >= k => n # Nil /\ Key(n) <= Key(y)
<1> DEFINE Size(e) == IF e = Nil THEN 0 ELSE Cardinality(sp[e])
           Way(e, n) ==
             /\ e \in H \cup {Nil} /\ n \in H \cup {Nil}
             /\ n # Nil => Key(n) >= k /\ \A y \in sp[e] : Key(y) < Key(n)
             /\ \A y \in H : Key(y) >= k => y \in sp[e] \/ (n # Nil /\ Key(n) <= Key(y))
           V == Places \X Places
           G == {q \in V \X Nat : Way(q[1][1], q[1][2]) /\ q[2] = Size(q[1][1])}
           f == NFoundTurns(t, k)
<1>0. /\ H \subseteq Entries /\ Nil \in Places /\ Nil \notin H
      /\ \A e \in Entries : Key(e) \in Int /\ e \in Places
  BY EntryFacts DEF Linked, Places
<1>1. PICK z, r0 : z = t.root /\ r0 = Size(z)
  OBVIOUS
<1>2. Way(z, Nil)
  <2>1. sp[z] = H /\ z \in H \cup {Nil}
    BY <1>1 DEF Linked, Spans
  <2> QED
    BY <2>1
<1>3. \A e \in H \cup {Nil} : Size(e) \in Nat /\ Size(e) \in 0..Cardinality(Entries)
  BY SpanSizes, HowMany
<1>4. r0 \in 0..Cardinality(Entries) /\ r0 \in Nat
  BY <1>1, <1>2, <1>3
<1> HIDE DEF Size, Way
<1>5. <<<<z, Nil>>, r0>> \in G
  <2>1. z \in Places
    BY <1>0, <1>2 DEF Way
  <2> QED
    BY <1>0, <1>1, <1>2, <1>4, <2>1
<1>6. ASSUME NEW e \in Places, NEW n \in Places, NEW r \in Nat, Way(e, n), r = Size(e)
      PROVE  \/ f[<<e, n>>] = <<e, n>>
             \/ \E d, m \in Places :
                  f[<<e, n>>] = <<d, m>> /\ Way(d, m) /\ Size(d) \in Nat /\ Size(d) < r
  <2>1. f[<<e, n>>] = IF e = Nil THEN <<e, n>>
                      ELSE IF k = Key(e) THEN <<Nil, e>>
                      ELSE IF k < Key(e) THEN <<t.kid[e][0], e>> ELSE <<t.kid[e][1], n>>
    BY DEF NFoundTurns
  <2>2. CASE e = Nil
    BY <2>1, <2>2
  <2>3. CASE e # Nil
    <3>1. PICK a, b : a = t.kid[e][0] /\ b = t.kid[e][1]
      OBVIOUS
    <3>2. e \in H /\ 0 \in Sides /\ 1 \in Sides /\ 1 - 0 = 1 /\ 1 - 1 = 0 /\ Key(e) \in Int
      BY <1>0, <1>6, <2>3 DEF Way, Sides
    <3>3. /\ a \in H \cup {Nil} /\ sp[a] \subseteq sp[e] /\ e \notin sp[a]
          /\ \A y \in sp[a] : y \in Entries /\ On(0, y, e)
          /\ b \in H \cup {Nil} /\ sp[b] \subseteq sp[e] /\ e \notin sp[b]
          /\ \A y \in sp[b] : y \in Entries /\ On(1, y, e)
          /\ \A y \in sp[e] : y = e \/ y \in sp[a] \/ y \in sp[b]
          /\ e \in sp[e]
      BY <3>1, <3>2, SpanFacts
    <3>4. /\ \A y \in sp[a] : Key(y) \in Int /\ Key(y) < Key(e)
          /\ \A y \in sp[b] : Key(y) \in Int /\ Key(y) > Key(e)
      BY <1>0, <3>3 DEF On
    <3>5. a \in Places /\ b \in Places /\ Size(a) < Size(e) /\ Size(b) < Size(e)
      <4>1. Size(e) = Cardinality(sp[e]) /\ Size(e) > 0
        BY <3>2, <2>3, SpanSizes DEF Size
      <4>2. \A c \in H : sp[c] \subseteq sp[e] /\ e \notin sp[c] => Size(c) < Size(e)
        BY <1>0, <3>2, <4>1, SpanSizes DEF Size
      <4>3. Size(Nil) = 0
        BY DEF Size
      <4> QED
        BY <1>0, <3>3, <4>1, <4>2, <4>3
    <3>6. /\ n \in H \cup {Nil}
          /\ n # Nil => Key(n) >= k /\ \A y \in sp[e] : Key(y) < Key(n)
          /\ \A y \in H : Key(y) >= k => y \in sp[e] \/ (n # Nil /\ Key(n) <= Key(y))
      BY <1>6 DEF Way
    <3>7. \A y \in H : Key(y) >= k => y \in sp[e] \/ Key(e) <= Key(y)
      BY <1>0, <3>2, <3>3, <3>6
    <3>8. CASE k = Key(e)
      <4>1. \A y \in H : Key(y) >= k => Key(e) <= Key(y)
        BY <3>8
      <4>2. Way(Nil, e)
        BY <2>3, <3>2, <3>8, <4>1 DEF Way, Spans
      <4>3. Size(Nil) = 0 /\ Size(Nil) < r
        BY <1>3, <1>6, <2>3, <3>2, SpanSizes DEF Size
      <4> QED
        BY <1>0, <1>6, <2>1, <2>3, <3>8, <4>2, <4>3
    <3>9. CASE k # Key(e) /\ k < Key(e)
      <4>1. \A y \in H : Key(y) >= k => y \in sp[a] \/ Key(e) <= Key(y)
        BY <3>2, <3>3, <3>4, <3>7
      <4>2. Way(a, e)
        BY <3>2, <3>3, <3>4, <3>9, <4>1, <2>3 DEF Way
      <4>3. f[<<e, n>>] = <<a, e>>
        BY <2>1, <2>3, <3>1, <3>9
      <4> QED
        BY <1>3, <1>6, <3>3, <3>5, <4>2, <4>3
    <3>10. CASE k # Key(e) /\ ~(k < Key(e))
      <4>1. \A y \in sp[e] : Key(y) >= k => y \in sp[b]
        BY <3>2, <3>3, <3>4, <3>10
      <4>2. Way(b, n)
        BY <3>3, <3>6, <4>1 DEF Way
      <4>3. f[<<e, n>>] = <<b, n>>
        BY <2>1, <2>3, <3>1, <3>10
      <4> QED
        BY <1>3, <1>6, <3>3, <3>5, <4>2, <4>3
    <3> QED
      BY <3>8, <3>9, <3>10
  <2> QED
    BY <2>2, <2>3
<1>7. ASSUME NEW c \in V, NEW r \in Nat, <<c, r>> \in G
      PROVE  f[c] = c \/ \E q \in Nat : q < r /\ <<f[c], q>> \in G
  <2>1. PICK e, n \in Places : c = <<e, n>>
    OBVIOUS
  <2>2. Way(e, n) /\ r = Size(e)
    BY <1>7, <2>1
  <2>3. \/ f[c] = c
        \/ \E d, m \in Places :
             f[c] = <<d, m>> /\ Way(d, m) /\ Size(d) \in Nat /\ Size(d) < r
    BY <1>6, <2>1, <2>2
  <2> QED
    BY <2>3
<1>8. PICK x : x = Loop(f, <<z, Nil>>)
  OBVIOUS
<1>9. f[x] = x /\ x \in V /\ \E r \in Nat : <<x, r>> \in G
  <2>1. PICK x0 : x0 = <<z, Nil>>
    OBVIOUS
  <2>2. G \subseteq V \X Nat /\ <<x0, r0>> \in G /\ x = Loop(f, x0)
    BY <1>5, <1>8, <2>1
  <2> HIDE DEF G, f, V
  <2> QED
    BY <1>4, <1>7, <2>2, LoopEnds
<1>10. PICK e, n \in Places : x = <<e, n>>
  BY <1>9
<1>11. Way(e, n)
  BY <1>9, <1>10
<1>12. e = Nil
  <2> SUFFICES ASSUME e # Nil PROVE FALSE
    OBVIOUS
  <2>1. e \in H
    BY <1>11 DEF Way
  <2>2. \A s \in Sides : t.kid[e][s] # e
    BY <2>1, KidOf
  <2>3. f[<<e, n>>] = IF k = Key(e) THEN <<Nil, e>>
                      ELSE IF k < Key(e) THEN <<t.kid[e][0], e>> ELSE <<t.kid[e][1], n>>
    BY DEF NFoundTurns
  <2>4. f[<<e, n>>] = <<e, n>>
    BY <1>9, <1>10
  <2> QED
    BY <2>2, <2>3, <2>4 DEF Sides
<1>13. NFound(t, k) = n
  BY <1>1, <1>8, <1>10 DEF NFound
<1> QED
  BY <1>11, <1>12, <1>13 DEF Way, Spans

LEMMA MinMaxIs ==
  ASSUME NEW t, NEW H, NEW sp, Linked(t, H), Spans(t, H, sp), NEW s \in Sides
  PROVE  LET n == MinMax(t, 1 - s) IN
         n \in H \cup {Nil} /\ \A y \in H : n # Nil /\ (y = n \/ On(s, y, n))
<1>1. CASE H = {}
  BY <1>1 DEF Linked, MinMax
<1>2. CASE H # {}
  <2>1. PICK z, n : z = t.root /\ n = Farthest(t, z, 1 - s)
    OBVIOUS
  <2>2. z \in H /\ z # Nil /\ sp[z] = H /\ 1 - s \in Sides /\ 1 - (1 - s) = s
    BY <1>2, <2>1, SpanFacts, OnFacts DEF Spans
  <2>3. n \in H /\ \A y \in sp[z] : y = n \/ On(s, y, n)
    BY <2>1, <2>2, FarthestIs
  <2>4. MinMax(t, 1 - s) = n /\ n # Nil
    BY <2>1, <2>2, <2>3, SpanFacts DEF MinMax
  <2> QED
    BY <2>2, <2>3, <2>4
<1> QED
  BY <1>1, <1>2

\* Going through the tree: the entries of H in order.
LEMMA WalkIs ==
  ASSUME NEW t, NEW H, NEW sp, Linked(t, H), Spans(t, H, sp), NEW s \in Sides
  PROVE  LET w == Walk(t, s) IN
         /\ w \in Seq(H) /\ {w[i] : i \in DOMAIN w} = H
         /\ \A i \in 1..Len(w) - 1 : On(s, w[i + 1], w[i])
<1> DEFINE Rest(n) == {y \in H : n # Nil /\ (y = n \/ On(s, y, n))}
           Size(n) == Cardinality(Rest(n))
           Way(w, n) ==
             /\ w \in Seq(H) /\ n \in H \cup {Nil}
             /\ \A i \in 1..Len(w) - 1 : On(s, w[i + 1], w[i])
             /\ n # Nil /\ Len(w) > 0 => On(s, n, w[Len(w)])
             /\ \A y \in H : y \in Rest(n) \/ \E i \in 1..Len(w) : w[i] = y
           V == Seq(Entries) \X Places
           G == {q \in V \X Nat : Way(q[1][1], q[1][2]) /\ q[2] = Size(q[1][2])}
           f == WalkTurns(t, s)
<1>0. /\ H \subseteq Entries /\ Nil \in Places /\ Nil \notin H /\ Nil \notin Entries
      /\ \A e \in Entries : e \in Places
  BY EntryFacts DEF Linked, Places
<1>1. PICK z, r0 : z = MinMax(t, 1 - s) /\ r0 = Size(z)
  OBVIOUS
<1>2. \A n : IsFiniteSet(Rest(n)) /\ Size(n) \in Nat /\ Size(n) \in 0..Cardinality(Entries)
  <2> SUFFICES ASSUME NEW n
               PROVE  IsFiniteSet(Rest(n)) /\ Size(n) \in 0..Cardinality(Entries)
    BY HowMany
  <2>1. Rest(n) \subseteq H /\ IsFiniteSet(H) /\ Cardinality(H) \in 0..Cardinality(Entries)
    BY SpanSizes
  <2>2. /\ IsFiniteSet(Rest(n)) /\ Cardinality(Rest(n)) <= Cardinality(H)
        /\ Cardinality(Rest(n)) \in Nat
    <3> HIDE DEF Rest
    <3> QED
      BY <2>1, FS_Subset, FS_CardinalityType
  <2> QED
    BY <2>1, <2>2, HowMany
<1>3. Way(<<>>, z)
  <2>1. z \in H \cup {Nil} /\ \A y \in H : z # Nil /\ (y = z \/ On(s, y, z))
    BY <1>1, MinMaxIs
  <2> QED
    BY <2>1
<1>4. r0 \in 0..Cardinality(Entries) /\ r0 \in Nat
  BY <1>1, <1>2
<1> HIDE DEF Size, Way, Rest
<1>5. <<<<<<>>, z>>, r0>> \in G
  <2>1. z \in Places
    BY <1>0, <1>3 DEF Way
  <2>2. <<>> \in Seq(Entries)
    OBVIOUS
  <2> QED
    BY <1>1, <1>3, <1>4, <2>1, <2>2
<1>6. ASSUME NEW w \in Seq(Entries), NEW n \in H, Way(w, n), NEW m, m = Beside(t, n, s)
      PROVE  Way(Append(w, n), m) /\ Size(m) < Size(n)
  <2>1. NextTo(H, n, s, m)
    BY <1>6, BesideIs
  <2>2. /\ m \in H \cup {Nil} /\ (m # Nil => On(s, m, n))
        /\ \A y \in H : On(s, y, n) => m # Nil /\ (y = m \/ On(s, y, m))
    BY <2>1 DEF NextTo
  <2>3. /\ w \in Seq(H)
        /\ \A i \in 1..Len(w) - 1 : On(s, w[i + 1], w[i])
        /\ Len(w) > 0 => On(s, n, w[Len(w)])
        /\ \A y \in H : y \in Rest(n) \/ \E i \in 1..Len(w) : w[i] = y
    BY <1>0, <1>6 DEF Way
  <2>4. PICK v : v = Append(w, n)
    OBVIOUS
  <2>5. /\ v \in Seq(H) /\ Len(v) = Len(w) + 1 /\ v[Len(w) + 1] = n /\ Len(w) \in Nat
        /\ \A i \in 1..Len(w) : v[i] = w[i]
    BY <2>3, <2>4
  <2>6. ASSUME NEW i \in 1..Len(v) - 1 PROVE On(s, v[i + 1], v[i])
    <3>1. CASE i = Len(w)
      <4>1. v[i] = w[Len(w)] /\ v[i + 1] = n /\ Len(w) > 0
        BY <2>5, <2>6, <3>1
      <4> QED
        BY <2>3, <4>1
    <3>2. CASE i # Len(w)
      <4>1. i \in 1..Len(w) - 1 /\ v[i] = w[i] /\ v[i + 1] = w[i + 1]
        BY <2>5, <3>2
      <4> QED
        BY <2>3, <4>1
    <3> QED
      BY <3>1, <3>2
  <2>7. m # Nil => On(s, m, v[Len(v)])
    BY <2>2, <2>5
  <2>8. \A y \in Rest(n) : y = n \/ y \in Rest(m)
    BY <2>2 DEF Rest
  <2>9. ASSUME NEW y \in H PROVE y \in Rest(m) \/ \E i \in 1..Len(v) : v[i] = y
    <3>1. CASE y = n
      BY <2>5, <3>1
    <3>2. CASE y # n /\ y \in Rest(n)
      BY <2>8, <3>2
    <3>3. CASE y \notin Rest(n)
      <4>1. PICK i \in 1..Len(w) : w[i] = y
        BY <2>3, <3>3
      <4> QED
        BY <2>5, <4>1
    <3> QED
      BY <3>1, <3>2, <3>3
  <2>10. Way(v, m)
    BY <2>2, <2>5, <2>6, <2>7, <2>9 DEF Way
  <2>11. Rest(m) \subseteq Rest(n) /\ n \in Rest(n) /\ n \notin Rest(m)
    <3>1. \A y \in Rest(m) : y \in H /\ On(s, y, n)
      BY <1>0, <2>2, OnFacts DEF Rest
    <3>2. ~On(s, n, n)
      BY <1>0, OnFacts
    <3> QED
      BY <1>0, <3>1, <3>2 DEF Rest
  <2>12. Size(m) < Size(n)
    <3>1. /\ IsFiniteSet(Rest(n)) /\ IsFiniteSet(Rest(m))
          /\ Cardinality(Rest(m)) \in Nat /\ Cardinality(Rest(n)) \in Nat
      BY <1>2 DEF Size
    <3>2. Cardinality(Rest(m)) <= Cardinality(Rest(n)) /\ Cardinality(Rest(m)) # Cardinality(Rest(n))
      BY <2>11, <3>1, FS_Subset
    <3> QED
      BY <3>1, <3>2 DEF Size
  <2> QED
    BY <2>4, <2>10, <2>12
<1>7. ASSUME NEW c \in V, NEW r \in Nat, <<c, r>> \in G
      PROVE  f[c] = c \/ \E q \in Nat : q < r /\ <<f[c], q>> \in G
  <2>1. PICK w \in Seq(Entries), n \in Places : c = <<w, n>>
    OBVIOUS
  <2>2. Way(w, n) /\ r = Size(n)
    BY <1>7, <2>1
  <2>3. CASE n = Nil
    BY <2>1, <2>3 DEF WalkTurns
  <2>4. CASE n # Nil
    <3>1. PICK m, v : m = Beside(t, n, s) /\ v = Append(w, n)
      OBVIOUS
    <3>2. n \in H /\ n \in Entries
      BY <1>0, <2>2, <2>4 DEF Way
    <3>3. Way(v, m) /\ Size(m) < r
      BY <1>6, <2>2, <3>1, <3>2
    <3>4. f[c] = <<v, m>>
      BY <2>1, <2>4, <3>1 DEF WalkTurns
    <3>5. v \in Seq(Entries) /\ m \in Places
      BY <1>0, <3>1, <3>2, <3>3 DEF Way
    <3>6. Size(m) \in Nat
      BY <1>2
    <3>7. <<<<v, m>>, Size(m)>> \in G
      BY <3>3, <3>5, <3>6
    <3> QED
      BY <3>3, <3>4, <3>6, <3>7
  <2> QED
    BY <2>3, <2>4
<1>8. PICK x : x = Loop(f, <<<<>>, z>>)
  OBVIOUS
<1>9. f[x] = x /\ x \in V /\ \E r \in Nat : <<x, r>> \in G
  <2>1. PICK x0 : x0 = <<<<>>, z>>
    OBVIOUS
  <2>2. G \subseteq V \X Nat /\ <<x0, r0>> \in G /\ x = Loop(f, x0)
    BY <1>5, <1>8, <2>1
  <2>3. \A c \in V, r \in Nat : <<c, r>> \in G =>
          f[c] = c \/ \E q \in Nat : q < r /\ <<f[c], q>> \in G
    BY <1>7
  <2> HIDE DEF G, f, V
  <2> QED
    BY <1>4, <2>2, <2>3, LoopEnds
<1>10. PICK w \in Seq(Entries), n \in Places : x = <<w, n>>
  BY <1>9
<1>11. Way(w, n)
  BY <1>9, <1>10
<1>12. n = Nil
  <2> SUFFICES ASSUME n # Nil PROVE FALSE
    OBVIOUS
  <2>1. f[x] = <<Append(w, n), Beside(t, n, s)>>
    BY <1>10 DEF WalkTurns
  <2>2. Append(w, n) = w
    BY <1>9, <1>10, <2>1
  <2>3. n \in Entries
    BY <1>0, <1>11 DEF Way
  <2>4. Len(Append(w, n)) = Len(w) + 1 /\ Len(w) \in Nat
    BY <2>3
  <2> QED
    BY <2>2, <2>4
<1>13. Walk(t, s) = w
  BY <1>1, <1>8, <1>10 DEF Walk
<1>14. w \in Seq(H) /\ \A i \in 1..Len(w) - 1 : On(s, w[i + 1], w[i])
  BY <1>11 DEF Way
<1>15. {w[i] : i \in DOMAIN w} = H
  <2>1. DOMAIN w = 1..Len(w) /\ \A i \in 1..Len(w) : w[i] \in H
    BY <1>14
  <2>2. \A y \in H : \E i \in 1..Len(w) : w[i] = y
    BY <1>11, <1>12 DEF Way, Rest
  <2> QED
    BY <2>1, <2>2
<1> QED
  BY <1>13, <1>14, <1>15

-----------------------------------------------------------------------------
(* Blacks and reds.                                                        *)

Weight(t, x) == IF x \in t.red THEN 0 ELSE 1

\* b says how many blacks are on a way down from an entry, itself included,
\* which is the same for all ways; side d of q, when q is an entry, is one
\* short.
Heights(t, H, b, q, d) ==
  /\ b \in [Places -> Nat] /\ b[Nil] = 0
  /\ \A x \in H, s \in Sides :
       b[x] = b[t.kid[x][s]] + Weight(t, x) + IF x = q /\ s = d THEN 1 ELSE 0

\* A red entry has a black parent, but for those of X and the kids of those
\* of Y.
RedsApart(t, H, X, Y) ==
  \A x \in H \cap t.red :
    x \in X \/ (t.parent[x] # Nil /\ (t.parent[x] \in t.red => t.parent[x] \in Y))

\* Entries not in K hold nothing.
Clear(t, K) == \A x \in Entries \ K : \A s \in Sides : t.kid[x][s] = Nil

\* What is counted on the way up from a free place.
LEMMA BlacksIs ==
  ASSUME NEW H, NEW sp, NEW b, Linked(tree, H), Spans(tree, H, sp),
         Heights(tree, H, b, Nil, 0),
         NEW e \in H, NEW s \in Sides, tree.kid[e][s] = Nil
  PROVE  Blacks(e) = b[tree.root]
<1> DEFINE N == Cardinality(H)
           Size(c) == IF c = Nil THEN 0 ELSE N + 1 - Cardinality(sp[c])
           Way(n, c) ==
             /\ n \in Nat /\ c \in H \cup {Nil}
             /\ c = Nil => n = b[tree.root]
             /\ c # Nil => \E d \in Sides : n = b[tree.kid[c][d]]
           V == Nat \X Places
           G == {q \in V \X Nat : Way(q[1][1], q[1][2]) /\ q[2] = Size(q[1][2])}
           f == BlackTurns
<1>0. /\ H \subseteq Entries /\ Nil \in Places /\ Nil \notin H
      /\ \A x \in Entries : x \in Places
  BY EntryFacts DEF Linked, Places
<1>1. N \in 0..Cardinality(Entries) /\ \A c \in H : Cardinality(sp[c]) \in 1..N
  BY SpanSizes
<1>2. \A c \in H \cup {Nil} : Size(c) \in Nat /\ Size(c) \in 0..Cardinality(Entries)
  BY <1>1, HowMany
<1>3. b \in [Places -> Nat] /\ b[Nil] = 0
  BY DEF Heights
<1>4. Way(0, e)
  BY <1>0, <1>3
<1>5. PICK r0 : r0 = Size(e)
  OBVIOUS
<1>6. r0 \in 0..Cardinality(Entries) /\ r0 \in Nat
  BY <1>2, <1>5
<1>7. ASSUME NEW n \in Nat, NEW c \in H, Way(n, c), NEW m, m = n + Weight(tree, c),
             NEW p, p = tree.parent[c]
      PROVE  Way(m, p) /\ Size(p) < Size(c)
  <2>1. PICK d \in Sides : n = b[tree.kid[c][d]]
    BY <1>0, <1>7
  <2>2. m = b[c] /\ m \in Nat
    <3>1. b[c] = b[tree.kid[c][d]] + Weight(tree, c) + IF c = Nil /\ d = 0 THEN 1 ELSE 0
      BY DEF Heights
    <3>2. Weight(tree, c) \in Nat
      BY DEF Weight
    <3> QED
      BY <1>0, <1>7, <2>1, <3>1, <3>2
  <2>3. CASE p = Nil
    <3>1. c = tree.root
      BY <1>7, <2>3 DEF Linked
    <3>2. Size(p) < Size(c)
      BY <1>0, <1>1, <2>3
    <3> QED
      BY <2>2, <2>3, <3>1, <3>2
  <2>4. CASE p # Nil
    <3>1. PICK a \in Sides : p \in H /\ tree.kid[p][a] = c
      BY <1>7, <2>4 DEF Linked
    <3>2. sp[c] \subseteq sp[p] /\ p \notin sp[c]
      BY <3>1, KidOf
    <3>3. Cardinality(sp[c]) < Cardinality(sp[p])
      BY <3>1, <3>2, SpanSizes
    <3>4. Size(p) < Size(c)
      BY <1>0, <1>1, <2>4, <3>1, <3>3
    <3> QED
      BY <2>2, <2>4, <3>1, <3>4
  <2> QED
    BY <2>3, <2>4
<1> HIDE DEF Size, Way
<1>8. ASSUME NEW c \in V, NEW r \in Nat, <<c, r>> \in G
      PROVE  f[c] = c \/ \E q \in Nat : q < r /\ <<f[c], q>> \in G
  <2>1. PICK n \in Nat, x \in Places : c = <<n, x>>
    OBVIOUS
  <2>2. Way(n, x) /\ r = Size(x)
    BY <1>8, <2>1
  <2>3. CASE x = Nil
    BY <2>1, <2>3 DEF BlackTurns
  <2>4. CASE x # Nil
    <3>1. PICK m, p : m = n + Weight(tree, x) /\ p = tree.parent[x]
      OBVIOUS
    <3>2. x \in H
      BY <2>2, <2>4 DEF Way
    <3>3. Way(m, p) /\ Size(p) < r
      BY <1>7, <2>2, <3>1, <3>2
    <3>4. f[c] = <<m, p>>
      BY <2>1, <2>4, <3>1 DEF BlackTurns, Weight, IsRed
    <3>5. m \in Nat /\ p \in Places /\ Size(p) \in Nat
      BY <1>0, <1>2, <3>3 DEF Way
    <3>6. <<<<m, p>>, Size(p)>> \in G
      BY <3>3, <3>5
    <3> QED
      BY <3>3, <3>4, <3>5, <3>6
  <2> QED
    BY <2>3, <2>4
<1>9. PICK x0, x : x0 = <<0, e>> /\ x = Loop(f, x0)
  OBVIOUS
<1>10. <<x0, r0>> \in G
  BY <1>0, <1>4, <1>5, <1>6, <1>9
<1>11. f[x] = x /\ x \in V /\ \E r \in Nat : <<x, r>> \in G
  <2>1. \A c \in V, r \in Nat : <<c, r>> \in G =>
          f[c] = c \/ \E q \in Nat : q < r /\ <<f[c], q>> \in G
    BY <1>8
  <2>2. G \subseteq V \X Nat
    OBVIOUS
  <2>3. x = Loop(f, x0)
    BY <1>9
  <2> HIDE DEF G, f, V
  <2> QED
    BY <1>6, <1>10, <2>1, <2>2, <2>3, LoopEnds
<1>12. PICK n \in Nat, c \in Places : x = <<n, c>>
  BY <1>11
<1>13. Way(n, c)
  BY <1>11, <1>12
<1>14. c = Nil
  <2> SUFFICES ASSUME c # Nil PROVE FALSE
    OBVIOUS
  <2>1. c \in H
    BY <1>13 DEF Way
  <2>2. f[x][2] = tree.parent[c]
    BY <1>12 DEF BlackTurns
  <2>3. tree.parent[c] = c
    BY <1>11, <1>12, <2>2
  <2> QED
    BY <2>1, <2>3, KidSides
<1>15. Blacks(e) = n
  BY <1>9, <1>12 DEF Blacks
<1> QED
  BY <1>13, <1>14, <1>15 DEF Way

-----------------------------------------------------------------------------
(* Rotations.                                                              *)

\* What a rotation is about, in a tree: e, up which comes in its place, and
\* what is around them.
Pivot(t, H, e, s, up, inner, g) ==
  /\ e \in H /\ up \in H /\ inner \in H \cup {Nil} /\ g \in H \cup {Nil}
  /\ up = t.kid[e][1 - s] /\ inner = t.kid[up][s] /\ g = t.parent[e]
  /\ t.parent[up] = e /\ (inner # Nil => t.parent[inner] = up)
  /\ up # e /\ g # e /\ g # up /\ inner # e /\ inner # up /\ e # Nil /\ up # Nil
  /\ g = Nil <=> e = t.root
  /\ up # t.root /\ inner # t.root
  /\ g # Nil => SideOf(t, g, e) \in Sides /\ t.kid[g][SideOf(t, g, e)] = e
  /\ inner # Nil => inner # g

LEMMA PivotIs ==
  ASSUME NEW t, NEW H, NEW sp, Linked(t, H), Spans(t, H, sp), NEW e \in H, NEW s \in Sides,
         NEW up \in H, up = t.kid[e][1 - s]
  PROVE  Pivot(t, H, e, s, up, t.kid[up][s], t.parent[e])
<1>1. PICK inner, g : inner = t.kid[up][s] /\ g = t.parent[e]
  OBVIOUS
<1>2. /\ H \subseteq Entries /\ Nil \notin H /\ 1 - s \in Sides
      /\ \A x \in H : x \in Entries
  BY EntryFacts, OnFacts DEF Linked
<1>3. t.parent[up] = e /\ up # e /\ up # t.root
  BY <1>2, KidOf
<1>4. inner \in H \cup {Nil} /\ g \in H \cup {Nil} /\ g # e /\ (g = Nil <=> e = t.root)
  BY <1>1, KidSides, SpanFacts
<1>5. inner # Nil => inner \in H /\ t.parent[inner] = up /\ inner # up /\ inner # t.root
  <2> SUFFICES ASSUME inner # Nil
               PROVE  inner \in H /\ t.parent[inner] = up /\ inner # up /\ inner # t.root
    OBVIOUS
  <2>1. inner \in H /\ t.kid[up][s] = inner
    BY <1>1, <1>4
  <2> QED
    BY <2>1, KidOf
<1>6. inner # Nil => inner # e /\ inner # g
  <2> SUFFICES ASSUME inner # Nil PROVE inner # e /\ inner # g
    OBVIOUS
  <2>1. inner \in H /\ sp[inner] \subseteq sp[up] /\ sp[up] \subseteq sp[e] /\ e \notin sp[up]
    <3>1. t.kid[up][s] = inner /\ inner \in H
      BY <1>1, <1>5
    <3>2. sp[inner] \subseteq sp[up]
      BY <3>1, KidOf
    <3>3. sp[up] \subseteq sp[e] /\ e \notin sp[up]
      BY <1>2, KidOf
    <3> QED
      BY <3>1, <3>2, <3>3
  <2>2. inner # e
    BY <2>1, SpanFacts
  <2>3. CASE g # Nil
    <3>1. g \notin sp[e] /\ inner \in sp[inner]
      BY <1>1, <2>1, <2>3, ParentOf, SpanFacts
    <3> QED
      BY <2>1, <2>2, <3>1
  <2> QED
    BY <2>2, <2>3
<1>7. g # up
  <2>1. ASSUME g = up PROVE FALSE
    <3>1. up = t.parent[e] /\ up # Nil
      BY <1>1, <1>2, <2>1
    <3>2. up \notin sp[e]
      BY <3>1, ParentOf
    <3>3. sp[up] \subseteq sp[e] /\ up \in sp[up]
      BY <1>2, KidOf, SpanFacts
    <3> QED
      BY <3>2, <3>3
  <2> QED
    BY <2>1
<1>8. ASSUME g # Nil PROVE SideOf(t, g, e) \in Sides /\ t.kid[g][SideOf(t, g, e)] = e
  BY <1>1, <1>8, ParentOf
<1>9. (inner = Nil => inner # t.root) /\ (inner = Nil => inner # e /\ inner # up)
  <2>1. t.root \in H
    BY SpanFacts
  <2> QED
    BY <1>2, <2>1
<1> QED
  BY <1>1, <1>2, <1>3, <1>4, <1>5, <1>6, <1>7, <1>8, <1>9 DEF Pivot

LEMMA RotatedLinks ==
  ASSUME NEW t, NEW H, NEW sp, Linked(t, H), Spans(t, H, sp), NEW e, NEW s \in Sides,
         NEW up, NEW inner, NEW g, Pivot(t, H, e, s, up, inner, g),
         NEW r, Rotated(t, r, e, s, up, inner, g)
  PROVE  Linked(r, H)
<1>1. /\ H \subseteq Entries /\ Nil \notin H /\ 1 - s \in Sides /\ 1 - s # s
      /\ t.root \in H \cup {Nil} /\ (t.root # Nil => t.parent[t.root] = Nil)
      /\ \A d \in Sides : d = s \/ d = 1 - s
  BY EntryFacts, OnFacts DEF Linked, Sides
<1>2. /\ e \in H /\ up \in H /\ inner \in H \cup {Nil} /\ g \in H \cup {Nil}
      /\ t.parent[up] = e /\ (inner # Nil => t.parent[inner] = up)
      /\ up # e /\ g # e /\ g # up /\ inner # e /\ inner # up
      /\ g = Nil <=> e = t.root
      /\ up # t.root /\ inner # t.root
      /\ g # Nil => SideOf(t, g, e) \in Sides /\ t.kid[g][SideOf(t, g, e)] = e
      /\ inner # Nil => inner # g
  BY DEF Pivot
<1>3. t.kid[e][1 - s] = up /\ t.kid[up][s] = inner /\ t.parent[e] = g
  BY DEF Pivot
<1>4. r \in Trees /\ r.root = IF g = Nil THEN up ELSE t.root
  BY DEF Rotated
<1>5. ASSUME NEW x \in H, NEW d \in Sides
      PROVE  r.kid[x][d] = IF x = e /\ d = 1 - s THEN inner
                           ELSE IF x = up /\ d = s THEN e
                           ELSE IF x = g /\ d = SideOf(t, g, e) THEN up
                           ELSE t.kid[x][d]
  BY <1>1 DEF Rotated
<1>6. ASSUME NEW x \in H
      PROVE  r.parent[x] = IF x = e THEN up ELSE IF x = up THEN g
                           ELSE IF x = inner THEN e ELSE t.parent[x]
  BY <1>1 DEF Rotated
<1>7. /\ r.root \in H \cup {Nil} /\ (r.root # Nil => r.parent[r.root] = Nil)
  <2>1. CASE g = Nil
    BY <1>2, <1>4, <1>6, <2>1
  <2>2. CASE g # Nil
    BY <1>1, <1>2, <1>4, <1>6, <2>2
  <2> QED
    BY <2>1, <2>2
<1>8. ASSUME NEW x \in H, r.parent[x] = Nil PROVE x = r.root
  <2>1. x # e /\ x # inner
    BY <1>1, <1>2, <1>6, <1>8
  <2>2. CASE x = up
    BY <1>2, <1>4, <1>6, <1>8, <2>2
  <2>3. CASE x # up
    <3>1. t.parent[x] = Nil
      BY <1>6, <1>8, <2>1, <2>3
    <3>2. x = t.root
      BY <3>1 DEF Linked
    <3> QED
      BY <1>2, <1>4, <2>1, <3>2
  <2> QED
    BY <2>2, <2>3
<1>9. ASSUME NEW x \in H, r.parent[x] # Nil
      PROVE  r.parent[x] \in H /\ \E d \in Sides : r.kid[r.parent[x]][d] = x
  <2>1. CASE x = e
    <3>1. r.parent[x] = up /\ r.kid[up][s] = e
      BY <1>2, <1>5, <1>6, <2>1
    <3> QED
      BY <1>2, <2>1, <3>1
  <2>2. CASE x = up
    <3>1. r.parent[x] = g /\ g # Nil /\ g \in H
      BY <1>2, <1>6, <1>9, <2>2
    <3>2. r.kid[g][SideOf(t, g, e)] = up
      BY <1>2, <1>5, <3>1
    <3> QED
      BY <1>2, <2>2, <3>1, <3>2
  <2>3. CASE x = inner
    <3>1. r.parent[x] = e /\ r.kid[e][1 - s] = inner
      BY <1>1, <1>2, <1>5, <1>6, <2>3
    <3> QED
      BY <1>1, <1>2, <2>3, <3>1
  <2>4. CASE x # e /\ x # up /\ x # inner
    <3>1. PICK p : p = t.parent[x]
      OBVIOUS
    <3>2. r.parent[x] = p /\ p # Nil
      BY <1>6, <1>9, <2>4, <3>1
    <3>3. PICK d \in Sides : p \in H /\ t.kid[p][d] = x
      BY <3>1, <3>2 DEF Linked
    <3>4. ~(p = e /\ d = 1 - s) /\ ~(p = up /\ d = s) /\ ~(p = g /\ d = SideOf(t, g, e))
      <4>1. g # Nil => t.kid[g][SideOf(t, g, e)] = e
        BY <1>2
      <4> QED
        BY <1>2, <1>3, <2>4, <3>2, <3>3, <4>1
    <3>5. r.kid[p][d] = x
      BY <1>5, <3>3, <3>4
    <3> QED
      BY <3>2, <3>3, <3>5
  <2> QED
    BY <2>1, <2>2, <2>3, <2>4
<1>10. ASSUME NEW x \in H, NEW d \in Sides, NEW k, k = r.kid[x][d], k # Nil
      PROVE  k \in H /\ r.parent[k] = x
  <2>1. CASE x = e /\ d = 1 - s
    <3>1. k = inner
      BY <1>5, <1>10, <2>1
    <3>2. k \in H /\ k # e /\ k # up
      BY <1>2, <1>10, <3>1
    <3> QED
      BY <1>6, <2>1, <3>1, <3>2
  <2>2. CASE x = up /\ d = s
    <3>1. k = e /\ e \in H
      BY <1>2, <1>5, <1>10, <2>2
    <3> QED
      BY <1>6, <2>2, <3>1
  <2>3. CASE x = g /\ d = SideOf(t, g, e)
    <3>1. g # e /\ g # up /\ up # e /\ up \in H
      BY <1>2
    <3>2. k = up
      BY <1>5, <1>10, <2>3, <3>1
    <3> QED
      BY <1>6, <2>3, <3>1, <3>2
  <2>4. CASE ~(x = e /\ d = 1 - s) /\ ~(x = up /\ d = s) /\ ~(x = g /\ d = SideOf(t, g, e))
    <3>1. k = t.kid[x][d]
      BY <1>5, <1>10, <2>4
    <3>2. k \in H
      BY <1>10, <3>1 DEF Linked
    <3>3. t.parent[k] = x /\ SideOf(t, x, k) = d
      BY <3>1, <3>2, KidOf
    <3>4. k # e
      BY <1>3, <2>4, <3>3
    <3>5. k # up
      <4>1. SideOf(t, e, up) = 1 - s
        <5>1. e \in H /\ up \in H /\ 1 - s \in Sides /\ t.kid[e][1 - s] = up
          BY <1>1, <1>2, <1>3
        <5> QED
          BY <5>1, KidOf
      <4>2. t.parent[up] = e
        BY <1>2
      <4> QED
        BY <2>4, <3>3, <4>1, <4>2
    <3>6. k # inner
      <4>1. k = inner => SideOf(t, up, inner) = s
        <5>1. up \in H /\ t.kid[up][s] = inner
          BY <1>2, <1>3
        <5> QED
          BY <3>2, <5>1, KidOf
      <4>2. inner # Nil => t.parent[inner] = up
        BY <1>2
      <4> QED
        BY <1>10, <2>4, <3>3, <4>1, <4>2
    <3> QED
      BY <1>6, <3>2, <3>3, <3>4, <3>5, <3>6
  <2> QED
    BY <2>1, <2>2, <2>3, <2>4
<1> QED
  BY <1>1, <1>4, <1>7, <1>8, <1>9, <1>10 DEF Linked

LEMMA RotatedSpans ==
  ASSUME NEW t, NEW H, NEW sp, Linked(t, H), Spans(t, H, sp), NEW e, NEW s \in Sides,
         NEW up, NEW inner, NEW g, Pivot(t, H, e, s, up, inner, g),
         NEW r, Rotated(t, r, e, s, up, inner, g)
  PROVE  \E sp2 : Spans(r, H, sp2)
<1>1. PICK low, outer : low = t.kid[e][s] /\ outer = t.kid[up][1 - s]
  OBVIOUS
<1>2. PICK below : below = {e} \cup sp[low] \cup sp[inner]
  OBVIOUS
<1> DEFINE sp2 == [x \in Places |-> IF x = up THEN sp[e] ELSE IF x = e THEN below ELSE sp[x]]
<1>3. /\ H \subseteq Entries /\ Nil \notin H /\ 1 - s \in Sides /\ 1 - s # s
      /\ 1 - (1 - s) = s /\ Nil \in Places
      /\ \A d \in Sides : d = s \/ d = 1 - s
      /\ \A x \in H \cup {Nil} : x \in Places
  BY EntryFacts, OnFacts DEF Linked, Sides, Places
<1>4. /\ e \in H /\ up \in H /\ inner \in H \cup {Nil} /\ g \in H \cup {Nil}
      /\ up = t.kid[e][1 - s] /\ inner = t.kid[up][s] /\ g = t.parent[e]
      /\ up # e /\ g # e /\ g # up /\ inner # e /\ inner # up
      /\ g = Nil <=> e = t.root
      /\ up # t.root /\ inner # t.root
      /\ g # Nil => SideOf(t, g, e) \in Sides /\ t.kid[g][SideOf(t, g, e)] = e
  BY DEF Pivot
<1>5. ASSUME NEW x \in H, NEW d \in Sides
      PROVE  r.kid[x][d] = IF x = e /\ d = 1 - s THEN inner
                           ELSE IF x = up /\ d = s THEN e
                           ELSE IF x = g /\ d = SideOf(t, g, e) THEN up
                           ELSE t.kid[x][d]
  BY <1>3 DEF Rotated
<1>6. /\ low \in H \cup {Nil} /\ outer \in H \cup {Nil}
      /\ low # e /\ low # up /\ outer # e /\ outer # up
  <2>1. low \in H \cup {Nil} /\ low # e
    BY <1>1, <1>4, SpanOfKids
  <2>4. outer \in H \cup {Nil} /\ outer # up
    BY <1>1, <1>3, <1>4, SpanOfKids
  <2>5. outer # e
    <3>1. outer = e => t.parent[e] = up
      BY <1>1, <1>3, <1>4, KidOf
    <3> QED
      BY <1>4, <3>1
  <2>2. t.kid[e][s] # up
    <3>1. t.kid[e][1 - (1 - s)] # up
      BY <1>3, <1>4, KidOf
    <3> QED
      BY <1>3, <3>1
  <2> QED
    BY <1>1, <2>1, <2>2, <2>4, <2>5
<1>7. /\ sp[e] = {e} \cup sp[low] \cup sp[up]
      /\ sp[up] = {up} \cup sp[inner] \cup sp[outer]
  <2>1. sp[e] = {e} \cup sp[t.kid[e][s]] \cup sp[t.kid[e][1 - s]]
    BY <1>4, SpanOfKids
  <2>2. sp[up] = {up} \cup sp[t.kid[up][s]] \cup sp[t.kid[up][1 - s]]
    <3>1. up \in H
      BY <1>4
    <3> QED
      BY <3>1, SpanOfKids
  <2> QED
    BY <1>1, <1>4, <2>1, <2>2
<1>8. sp \in [Places -> SUBSET H] /\ sp[Nil] = {} /\ sp[t.root] = H
  BY DEF Spans
<1>9. sp2 \in [Places -> SUBSET H] /\ below \subseteq H
  <2>1. sp[low] \subseteq H /\ sp[inner] \subseteq H /\ sp[e] \subseteq H
    BY <1>3, <1>4, <1>6, <1>8
  <2> QED
    BY <1>2, <1>4, <1>8, <2>1
<1>10. \A x \in H \cup {Nil} :
         sp2[x] = IF x = up THEN sp[e] ELSE IF x = e THEN below ELSE sp[x]
  BY <1>3
<1> HIDE DEF sp2
<1>11. sp2[Nil] = {} /\ sp2[r.root] = H
  <2>1. r.root = IF g = Nil THEN up ELSE t.root
    BY DEF Rotated
  <2>2. t.root \in H \cup {Nil}
    BY DEF Linked
  <2> QED
    BY <1>3, <1>4, <1>8, <1>10, <2>1, <2>2
<1>12. ASSUME NEW x \in H
       PROVE  sp2[x] = {x} \cup sp2[r.kid[x][0]] \cup sp2[r.kid[x][1]]
  <2> SUFFICES \E d \in Sides :
                 sp2[x] = {x} \cup sp2[r.kid[x][d]] \cup sp2[r.kid[x][1 - d]]
    BY EitherSide
  <2>1. CASE x = e
    <3>1. r.kid[x][s] = low /\ r.kid[x][1 - s] = inner
      BY <1>1, <1>3, <1>4, <1>5, <2>1
    <3>2. sp2[x] = {x} \cup sp2[low] \cup sp2[inner]
      BY <1>2, <1>4, <1>6, <1>10, <2>1
    <3> QED
      BY <3>1, <3>2
  <2>2. CASE x = up
    <3>1. r.kid[x][s] = e /\ r.kid[x][1 - s] = outer
      BY <1>1, <1>3, <1>4, <1>5, <2>2
    <3>2. sp2[x] = {x} \cup sp2[e] \cup sp2[outer]
      BY <1>2, <1>4, <1>6, <1>7, <1>10, <2>2
    <3> QED
      BY <3>1, <3>2
  <2>3. CASE x = g
    <3>1. PICK d : d = SideOf(t, g, e)
      OBVIOUS
    <3>2. d \in Sides /\ t.kid[g][d] = e /\ 1 - d \in Sides /\ 1 - d # d
      BY <1>3, <1>4, <2>3, <3>1, OnFacts
    <3>3. PICK k : k = t.kid[g][1 - d]
      OBVIOUS
    <3>4. r.kid[x][d] = up /\ r.kid[x][1 - d] = k
      BY <1>3, <1>4, <1>5, <2>3, <3>1, <3>2, <3>3
    <3>5. k \in H \cup {Nil} /\ k # e
      <4>1. k \in H \cup {Nil}
        BY <2>3, <3>2, <3>3, SpanOfKids
      <4>2. t.kid[g][1 - d] # e
        BY <1>4, <2>3, <3>2, KidOf
      <4> QED
        BY <3>3, <4>1, <4>2
    <3>6. k # up
      <4>1. g \in H /\ 1 - d \in Sides /\ t.kid[g][1 - d] = k
        BY <2>3, <3>2, <3>3
      <4>2. k \in H => t.parent[k] = g
        BY <4>1, KidOf
      <4>3. t.parent[up] = e /\ up \in H /\ g # e
        BY DEF Pivot
      <4> QED
        BY <4>2, <4>3
    <3>7. sp[x] = {x} \cup sp[t.kid[x][d]] \cup sp[t.kid[x][1 - d]]
      BY <3>2, SpanOfKids
    <3>8. sp2[x] = {x} \cup sp2[up] \cup sp2[k]
      BY <1>4, <1>10, <2>3, <3>2, <3>3, <3>5, <3>6, <3>7
    <3> QED
      BY <3>2, <3>4, <3>8
  <2>4. CASE x # e /\ x # up /\ x # g
    <3>1. PICK a, b : a = t.kid[x][s] /\ b = t.kid[x][1 - s]
      OBVIOUS
    <3>2. r.kid[x][s] = a /\ r.kid[x][1 - s] = b
      BY <1>3, <1>5, <2>4, <3>1
    <3>3. a \in H \cup {Nil} /\ b \in H \cup {Nil}
      BY <1>3, <3>1, SpanFacts
    <3>4. t.parent[up] = e /\ t.parent[e] = g
      BY DEF Pivot
    <3>5. a # e /\ a # up /\ b # e /\ b # up
      <4>1. a \in H => t.parent[a] = x
        BY <3>1, KidOf
      <4>2. b \in H => t.parent[b] = x
        BY <1>3, <3>1, KidOf
      <4> QED
        BY <1>4, <2>4, <3>4, <4>1, <4>2
    <3>6. sp[x] = {x} \cup sp[t.kid[x][s]] \cup sp[t.kid[x][1 - s]]
      BY SpanOfKids
    <3>7. sp2[x] = {x} \cup sp2[a] \cup sp2[b]
      BY <1>10, <2>4, <3>1, <3>3, <3>5, <3>6
    <3> QED
      BY <3>2, <3>7
  <2> QED
    BY <2>1, <2>2, <2>3, <2>4
<1>13. ASSUME NEW x \in H, NEW d \in Sides, NEW y \in sp2[r.kid[x][d]] PROVE On(d, y, x)
  <2>0. /\ \A z \in H : \A a \in Sides : \A v \in sp[t.kid[z][a]] : On(a, v, z) /\ v \in Entries
    BY SpanFacts
  <2>1. CASE x = e
    <3>1. d = s => r.kid[x][d] = low
      BY <1>1, <1>3, <1>4, <1>5, <2>1
    <3>2. d = 1 - s => r.kid[x][d] = inner
      BY <1>4, <1>5, <2>1
    <3>3. sp2[low] = sp[low] /\ sp2[inner] = sp[inner] /\ sp[inner] \subseteq sp[up]
      BY <1>4, <1>6, <1>7, <1>10
    <3> QED
      BY <1>1, <1>3, <1>4, <1>13, <2>0, <2>1, <3>1, <3>2, <3>3
  <2>2. CASE x = up
    <3>1. On(1 - s, up, e) /\ e \in Entries /\ up \in Entries
      BY <1>3, <1>4, KidOf
    <3>2. On(s, e, up)
      BY <1>3, <3>1, OnFacts
    <3>3. CASE d = s
      <4>1. r.kid[x][d] = e
        BY <1>3, <1>4, <1>5, <2>2, <3>3
      <4>2. y = e \/ y \in sp[low] \/ y \in sp[inner]
        BY <1>2, <1>4, <1>10, <1>13, <4>1
      <4>3. CASE y \in sp[low]
        <5>1. On(s, y, e) /\ y \in Entries
          BY <1>1, <1>4, <2>0, <4>3
        <5> QED
          BY <2>2, <3>1, <3>2, <3>3, <5>1, OnFacts
      <4>4. CASE y \in sp[inner]
        BY <1>4, <2>0, <2>2, <3>3, <4>4
      <4> QED
        BY <2>2, <3>2, <3>3, <4>2, <4>3, <4>4
    <3>4. CASE d = 1 - s
      <4>1. r.kid[x][d] = outer
        BY <1>1, <1>3, <1>4, <1>5, <2>2, <3>4
      <4>2. y \in sp[outer]
        BY <1>6, <1>10, <1>13, <4>1
      <4> QED
        BY <1>1, <1>4, <2>0, <2>2, <3>4, <4>2
    <3> QED
      BY <1>3, <3>3, <3>4
  <2>3. CASE x # e /\ x # up
    <3>1. PICK k : k = t.kid[x][d]
      OBVIOUS
    <3>2. k \in H \cup {Nil}
      BY <3>1, SpanFacts
    <3>3. CASE x = g /\ d = SideOf(t, g, e)
      <4>1. r.kid[x][d] = up /\ k = e
        BY <1>3, <1>4, <1>5, <2>3, <3>1, <3>3
      <4>2. y \in sp[k]
        BY <1>4, <1>10, <1>13, <4>1
      <4> QED
        BY <2>0, <3>1, <4>2
    <3>4. CASE ~(x = g /\ d = SideOf(t, g, e))
      <4>1. r.kid[x][d] = k
        BY <1>5, <2>3, <3>1, <3>4
      <4>2. k # e /\ k # up
        <5>1. k \in H => t.parent[k] = x /\ SideOf(t, x, k) = d
          BY <3>1, KidOf
        <5>2. t.parent[up] = e /\ t.parent[e] = g
          BY DEF Pivot
        <5> QED
          BY <1>4, <2>3, <3>4, <5>1, <5>2
      <4>3. y \in sp[k]
        BY <1>10, <1>13, <3>2, <4>1, <4>2
      <4> QED
        BY <2>0, <3>1, <4>3
    <3> QED
      BY <3>3, <3>4
  <2> QED
    BY <2>1, <2>2, <2>3
<1>14. Spans(r, H, sp2)
  BY <1>9, <1>11, <1>12, <1>13 DEF Spans
<1> QED
  BY <1>14

LEMMA RotateKeeps ==
  ASSUME NEW t, NEW H, NEW sp, Linked(t, H), Spans(t, H, sp),
         NEW K, H \subseteq K, Clear(t, K),
         NEW e \in H, NEW s \in Sides, NEW up \in H, up = t.kid[e][1 - s],
         NEW r, r = Rotate(t, e, s)
  PROVE  /\ Linked(r, H) /\ Clear(r, K) /\ \E sp2 : Spans(r, H, sp2)
         /\ Pivot(t, H, e, s, up, t.kid[up][s], t.parent[e])
         /\ Rotated(t, r, e, s, up, t.kid[up][s], t.parent[e])
<1>1. PICK inner, g : inner = t.kid[up][s] /\ g = t.parent[e]
  OBVIOUS
<1>2. Pivot(t, H, e, s, up, inner, g)
  BY <1>1, PivotIs
<1>3. /\ t \in Trees /\ H \subseteq Entries /\ e \in Entries /\ up \in Entries
      /\ inner \in Places /\ g \in Places /\ g # e /\ g # up /\ up # e
      /\ inner # e /\ inner # up
  BY <1>2 DEF Pivot, Linked, Places
<1>4. Rotated(t, r, e, s, up, inner, g)
  BY <1>1, <1>3, RotateIs
<1>5. Linked(r, H) /\ \E sp2 : Spans(r, H, sp2)
  BY <1>2, <1>4, RotatedLinks, RotatedSpans
<1>6. Clear(r, K)
  <2> SUFFICES ASSUME NEW x \in Entries \ K, NEW d \in Sides PROVE r.kid[x][d] = Nil
    BY DEF Clear
  <2>1. x # e /\ x # up /\ (x # Nil => x # g) /\ x # Nil
    BY <1>2, EntryFacts DEF Pivot
  <2>2. r.kid[x][d] = t.kid[x][d]
    BY <1>4, <2>1 DEF Rotated
  <2> QED
    BY <2>2 DEF Clear
<1> QED
  BY <1>1, <1>2, <1>4, <1>5, <1>6

LEMMA PaintKeeps ==
  ASSUME NEW t, NEW H, Linked(t, H), NEW blacks, NEW reds, reds \subseteq Entries,
         NEW r, r = Paint(t, blacks, reds)
  PROVE  /\ Linked(r, H) /\ r.kid = t.kid /\ r.parent = t.parent /\ r.root = t.root
         /\ r.red = (t.red \ blacks) \cup reds
         /\ \A sp : Spans(t, H, sp) => Spans(r, H, sp)
         /\ \A K : Clear(t, K) => Clear(r, K)
<1>1. t \in Trees
  BY DEF Linked
<1>2. Painted(t, r, blacks, reds)
  BY <1>1, PaintIs
<1>3. /\ r.kid = t.kid /\ r.parent = t.parent /\ r.root = t.root /\ r \in Trees
      /\ r.red = (t.red \ blacks) \cup reds
  BY <1>2 DEF Painted
<1>4. Linked(r, H)
  BY <1>3 DEF Linked
<1>5. ASSUME NEW sp, Spans(t, H, sp) PROVE Spans(r, H, sp)
  BY <1>3, <1>5 DEF Spans
<1>6. ASSUME NEW K, Clear(t, K) PROVE Clear(r, K)
  BY <1>3, <1>6 DEF Clear
<1> QED
  BY <1>3, <1>4, <1>5, <1>6

\* A rotation about a black and a red that are painted the other way keeps the
\* number of blacks on each way, when what is short hangs from neither or is
\* the side on which e goes down.
LEMMA RotatedHeights ==
  ASSUME NEW t, NEW H, NEW sp, Linked(t, H), Spans(t, H, sp), NEW e, NEW s \in Sides,
         NEW up, NEW inner, NEW g, Pivot(t, H, e, s, up, inner, g),
         NEW b, NEW q, NEW d \in Sides, Heights(t, H, b, q, d), q # up, q = e => d = s,
         NEW t2, t2.kid = t.kid, t2.parent = t.parent,
         NEW r, Rotated(t2, r, e, s, up, inner, g), up \in t.red,
         \A x \in H : x \in r.red <=>
           IF x = e THEN TRUE ELSE IF x = up THEN e \in t.red ELSE x \in t.red
  PROVE  \E b2 : Heights(r, H, b2, q, d)
<1> DEFINE b2 == [x \in Places |-> IF x = up THEN b[e] ELSE IF x = e THEN b[up] ELSE b[x]]
<1>1. PICK low, outer : low = t.kid[e][s] /\ outer = t.kid[up][1 - s]
  OBVIOUS
<1>2. /\ H \subseteq Entries /\ Nil \notin H /\ 1 - s \in Sides /\ 1 - s # s
      /\ 1 - (1 - s) = s /\ Nil \in Places
      /\ \A a \in Sides : a = s \/ a = 1 - s
      /\ \A x \in H \cup {Nil} : x \in Places
  BY EntryFacts, OnFacts DEF Linked, Sides, Places
<1>3. /\ e \in H /\ up \in H /\ inner \in H \cup {Nil} /\ g \in H \cup {Nil}
      /\ up = t.kid[e][1 - s] /\ inner = t.kid[up][s]
      /\ up # e /\ g # e /\ g # up /\ inner # e /\ inner # up
      /\ g # Nil => SideOf(t, g, e) \in Sides /\ t.kid[g][SideOf(t, g, e)] = e
      /\ t.parent[up] = e /\ t.parent[e] = g
  BY DEF Pivot
<1>4. ASSUME NEW x \in H, NEW a \in Sides
      PROVE  r.kid[x][a] = IF x = e /\ a = 1 - s THEN inner
                           ELSE IF x = up /\ a = s THEN e
                           ELSE IF x = g /\ a = SideOf(t, g, e) THEN up
                           ELSE t.kid[x][a]
  <2>1. SideOf(t2, g, e) = SideOf(t, g, e)
    BY DEF SideOf
  <2>2. x \in Entries
    BY <1>2
  <2> QED
    BY <2>1, <2>2 DEF Rotated
<1>5. b \in [Places -> Nat] /\ b[Nil] = 0 /\ \A x \in H \cup {Nil} : b[x] \in Nat
  BY <1>2 DEF Heights
<1>6. ASSUME NEW x \in H, NEW a \in Sides
      PROVE  b[x] = b[t.kid[x][a]] + Weight(t, x) + IF x = q /\ a = d THEN 1 ELSE 0
  BY DEF Heights
<1>7. /\ low \in H \cup {Nil} /\ low # e /\ low # up
      /\ outer \in H \cup {Nil} /\ outer # e /\ outer # up
  <2>1. low \in H \cup {Nil} /\ low # e
    BY <1>1, <1>3, SpanOfKids
  <2>2. t.kid[e][s] # up
    <3>1. t.kid[e][1 - (1 - s)] # up
      BY <1>2, <1>3, KidOf
    <3> QED
      BY <1>2, <3>1
  <2>3. outer \in H \cup {Nil} /\ outer # up
    <3>1. up \in H
      BY <1>3
    <3> QED
      BY <1>1, <1>2, <3>1, SpanOfKids
  <2>4. outer # e
    <3>1. outer = e => t.parent[e] = up
      BY <1>1, <1>2, <1>3, KidOf
    <3> QED
      BY <1>3, <3>1
  <2> QED
    BY <1>1, <2>1, <2>2, <2>3, <2>4
<1>8. PICK w, short : /\ w = Weight(t, e) /\ w \in {0, 1}
                      /\ short = IF e = q THEN 1 ELSE 0
  BY DEF Weight
<1>9. /\ b[e] = b[low] + w + short /\ b[e] = b[up] + w
      /\ b[up] = b[inner] /\ b[up] = b[outer]
  <2>1. b[e] = b[t.kid[e][s]] + Weight(t, e) + IF e = q /\ s = d THEN 1 ELSE 0
    BY <1>3, <1>6
  <2>2. b[e] = b[t.kid[e][1 - s]] + Weight(t, e) + IF e = q /\ 1 - s = d THEN 1 ELSE 0
    BY <1>2, <1>3, <1>6
  <2>3. b[up] = b[t.kid[up][s]] + Weight(t, up) + IF up = q /\ s = d THEN 1 ELSE 0
    BY <1>3, <1>6
  <2>4. b[up] = b[t.kid[up][1 - s]] + Weight(t, up) + IF up = q /\ 1 - s = d THEN 1 ELSE 0
    BY <1>2, <1>3, <1>6
  <2>5. Weight(t, up) = 0
    BY DEF Weight
  <2>6. (IF e = q /\ s = d THEN 1 ELSE 0) = short /\ (IF e = q /\ 1 - s = d THEN 1 ELSE 0) = 0
    BY <1>2, <1>8
  <2>7. b[low] \in Nat /\ b[up] \in Nat /\ b[inner] \in Nat /\ b[outer] \in Nat
    BY <1>3, <1>5, <1>7
  <2>8. b[e] = b[low] + w + short
    BY <1>1, <1>8, <2>1, <2>6
  <2>9. b[e] = b[up] + w
    <3>1. b[e] = b[up] + w + 0
      BY <1>3, <1>8, <2>2, <2>6
    <3> QED
      BY <1>8, <2>7, <3>1
  <2>10. b[up] = b[inner]
    <3>1. b[up] = b[inner] + 0 + 0
      BY <1>3, <2>3, <2>5
    <3> QED
      BY <2>7, <3>1
  <2>11. b[up] = b[outer]
    <3>1. b[up] = b[outer] + 0 + 0
      BY <1>1, <2>4, <2>5
    <3> QED
      BY <2>7, <3>1
  <2> QED
    BY <2>8, <2>9, <2>10, <2>11
<1>10. b2 \in [Places -> Nat] /\ b2[Nil] = 0
  BY <1>2, <1>3, <1>5
<1>11. \A x \in H \cup {Nil} :
         b2[x] = IF x = up THEN b[e] ELSE IF x = e THEN b[up] ELSE b[x]
  BY <1>2
<1> HIDE DEF b2
<1>12. ASSUME NEW x \in H, NEW a \in Sides
       PROVE  b2[x] = b2[r.kid[x][a]] + Weight(r, x) + IF x = q /\ a = d THEN 1 ELSE 0
  <2>1. CASE x = e
    <3>1. Weight(r, x) = 0 /\ b2[x] = b[up]
      BY <1>3, <1>11, <2>1 DEF Weight
    <3>2. b[up] \in Nat /\ b[low] \in Nat /\ short \in {0, 1}
      BY <1>3, <1>5, <1>7, <1>8
    <3>3. CASE a = s
      <4>1. r.kid[x][a] = low /\ b2[low] = b[low]
        BY <1>1, <1>2, <1>3, <1>4, <1>7, <1>11, <2>1, <3>3
      <4>2. (IF x = q /\ a = d THEN 1 ELSE 0) = short
        BY <1>8, <2>1, <3>3
      <4>3. b[up] = b[low] + short
        BY <1>8, <1>9, <3>2
      <4> QED
        BY <3>1, <3>2, <4>1, <4>2, <4>3
    <3>4. CASE a = 1 - s
      <4>1. r.kid[x][a] = inner /\ b2[inner] = b[inner]
        BY <1>3, <1>4, <1>11, <2>1, <3>4
      <4>2. (IF x = q /\ a = d THEN 1 ELSE 0) = 0
        BY <1>2, <2>1, <3>4
      <4>3. b2[x] = b2[r.kid[x][a]] /\ b2[x] \in Nat
        BY <1>9, <3>1, <3>2, <4>1
      <4> QED
        BY <3>1, <4>2, <4>3
    <3> QED
      BY <1>2, <3>3, <3>4
  <2>2. CASE x = up
    <3>1. Weight(r, x) = w /\ b2[x] = b[e]
      BY <1>3, <1>8, <1>11, <2>2 DEF Weight
    <3>2. (IF x = q /\ a = d THEN 1 ELSE 0) = 0 /\ b[up] \in Nat
      BY <1>3, <1>5, <2>2
    <3>3. b2[r.kid[x][a]] = b[up]
      <4>1. CASE a = s
        <5>1. r.kid[x][a] = e /\ b2[e] = b[up]
          BY <1>2, <1>3, <1>4, <1>11, <2>2, <4>1
        <5> QED
          BY <5>1
      <4>2. CASE a = 1 - s
        <5>1. r.kid[x][a] = outer /\ b2[outer] = b[outer]
          BY <1>1, <1>2, <1>3, <1>4, <1>7, <1>11, <2>2, <4>2
        <5> QED
          BY <1>9, <5>1
      <4> QED
        BY <1>2, <4>1, <4>2
    <3> QED
      BY <1>8, <1>9, <3>1, <3>2, <3>3
  <2>3. CASE x # e /\ x # up
    <3>1. Weight(r, x) = Weight(t, x) /\ b2[x] = b[x]
      BY <1>11, <2>3 DEF Weight
    <3>2. PICK k : k = t.kid[x][a]
      OBVIOUS
    <3>3. k \in H \cup {Nil}
      BY <3>2, SpanOfKids
    <3>4. b2[r.kid[x][a]] = b[k]
      <4>1. CASE x = g /\ a = SideOf(t, g, e)
        <5>1. r.kid[x][a] = up /\ k = e
          BY <1>2, <1>3, <1>4, <2>3, <3>2, <4>1
        <5> QED
          BY <1>3, <1>11, <5>1
      <4>2. CASE ~(x = g /\ a = SideOf(t, g, e))
        <5>1. r.kid[x][a] = k
          BY <1>4, <2>3, <3>2, <4>2
        <5>2. k \in H => t.parent[k] = x /\ SideOf(t, x, k) = a
          BY <3>2, KidOf
        <5>3. k # e /\ k # up
          BY <1>3, <2>3, <4>2, <5>2
        <5> QED
          BY <1>11, <3>3, <5>1, <5>3
      <4> QED
        BY <4>1, <4>2
    <3>5. b[x] = b[k] + Weight(t, x) + IF x = q /\ a = d THEN 1 ELSE 0
      BY <1>6, <3>2
    <3> QED
      BY <3>1, <3>4, <3>5
  <2> QED
    BY <2>1, <2>2, <2>3
<1>13. Heights(r, H, b2, q, d)
  BY <1>10, <1>12 DEF Heights
<1> QED
  BY <1>13

-----------------------------------------------------------------------------
(* RB_INSERT().                                                            *)

\* c hangs from x on side s.
Kid(t, H, x, s, c) == x \in H /\ c \in H /\ s \in Sides /\ t.kid[x][s] = c

\* A tree of H, with nothing held outside K.
Shaped(t, H, K) ==
  /\ Linked(t, H) /\ H \subseteq K /\ Clear(t, K)
  /\ \E sp : Spans(t, H, sp)

\* All its ways pass as many blacks, but for side d of q.
Sound(t, H, K, q, d) == Shaped(t, H, K) /\ \E b : Heights(t, H, b, q, d)

\* Only colours change.
Recolored(t, t2) ==
  t2 \in Trees /\ t2.kid = t.kid /\ t2.parent = t.parent /\ t2.root = t.root

\* up, red, has the colour of e, and e is red.
Swapped(t, t2, H, e, up) ==
  \A x \in H : x \in t2.red <=>
    IF x = e THEN TRUE ELSE IF x = up THEN e \in t.red ELSE x \in t.red

\* The parents after a rotation.
NewParents(t, r, H, e, up, inner, g) ==
  \A x \in H : r.parent[x] =
    IF x = e THEN up ELSE IF x = up THEN g ELSE IF x = inner THEN e ELSE t.parent[x]

\* e can go down on side s, below up.
Turning(t, H, e, s, up) == s \in Sides /\ Kid(t, H, e, 1 - s, up)

\* r is t2, t with other colours, turned about e and up.
Turned(t, t2, r, H, e, s, up) ==
  \E inner, g : /\ Pivot(t, H, e, s, up, inner, g)
                /\ Rotated(t2, r, e, s, up, inner, g)
                /\ NewParents(t, r, H, e, up, inner, g)

LEMMA ShapedFacts ==
  ASSUME NEW t, NEW H, NEW K, Shaped(t, H, K)
  PROVE  /\ Linked(t, H) /\ t \in Trees /\ H \subseteq Entries /\ Nil \notin H
         /\ t.red \subseteq Entries /\ Nil \notin t.red /\ IsFiniteSet(H)
         /\ \A x \in H : x \in Entries /\ x \in Places /\ x # Nil
<1>1. Linked(t, H) /\ t \in Trees /\ H \subseteq Entries
  BY DEF Shaped, Linked
<1>2. t.red \subseteq Entries
  BY <1>1 DEF Trees
<1> QED
  BY <1>1, <1>2, EntryFacts, FS_Subset DEF Places

LEMMA KidFacts ==
  ASSUME NEW t, NEW H, NEW K, Shaped(t, H, K),
         NEW x, NEW s, NEW c, Kid(t, H, x, s, c)
  PROVE  /\ x \in H /\ c \in H /\ s \in Sides /\ 1 - s \in Sides /\ 1 - s # s
         /\ 1 - (1 - s) = s /\ c # x /\ t.parent[c] = x /\ c # t.root
         /\ SideOf(t, x, c) = s /\ t.kid[x][s] = c /\ t.kid[x][1 - s] # c
         /\ x # Nil /\ c # Nil
<1>1. x \in H /\ c \in H /\ s \in Sides /\ t.kid[x][s] = c
  BY DEF Kid
<1>2. PICK sp : Linked(t, H) /\ Spans(t, H, sp)
  BY DEF Shaped
<1>3. /\ t.parent[c] = x /\ c # x /\ c # t.root
      /\ SideOf(t, x, c) = s /\ t.kid[x][1 - s] # c
  BY <1>1, <1>2, KidOf
<1> QED
  BY <1>1, <1>3, OnFacts, ShapedFacts

LEMMA KidIs ==
  ASSUME NEW t, NEW H, NEW K, Shaped(t, H, K), NEW x \in H, NEW s \in Sides,
         NEW k, k = t.kid[x][s]
  PROVE  k \in H \cup {Nil} /\ (k # Nil => Kid(t, H, x, s, k))
BY DEF Shaped, Linked, Kid

LEMMA RecoloredKeeps ==
  ASSUME NEW t, NEW H, NEW K, Shaped(t, H, K), NEW t2, Recolored(t, t2)
  PROVE  /\ Shaped(t2, H, K)
         /\ \A sp : Spans(t, H, sp) => Spans(t2, H, sp)
         /\ \A x, s, c : Kid(t, H, x, s, c) => Kid(t2, H, x, s, c)
<1>1. Linked(t2, H)
  BY DEF Recolored, Shaped, Linked
<1>2. \A sp : Spans(t, H, sp) => Spans(t2, H, sp)
  BY DEF Recolored, Spans
<1>3. Clear(t2, K)
  BY DEF Recolored, Shaped, Clear
<1>4. Shaped(t2, H, K)
  BY <1>1, <1>2, <1>3 DEF Shaped
<1>5. \A x, s, c : Kid(t, H, x, s, c) => Kid(t2, H, x, s, c)
  BY DEF Recolored, Kid
<1> QED
  BY <1>2, <1>4, <1>5

LEMMA PaintRecolors ==
  ASSUME NEW t, NEW H, NEW K, Shaped(t, H, K), NEW blacks, NEW reds, reds \subseteq Entries,
         NEW r, r = Paint(t, blacks, reds)
  PROVE  Recolored(t, r) /\ r.red = (t.red \ blacks) \cup reds
<1>1. t \in Trees
  BY DEF Shaped, Linked
<1>2. Painted(t, r, blacks, reds)
  BY <1>1, PaintIs
<1> QED
  BY <1>2 DEF Painted, Recolored

\* A rotation, with colours changed before.
LEMMA TurnShapes ==
  ASSUME NEW t, NEW H, NEW K, Shaped(t, H, K), NEW t2, Recolored(t, t2),
         NEW e, NEW s, NEW up, Turning(t, H, e, s, up),
         NEW r, r = Rotate(t2, e, s)
  PROVE  Shaped(r, H, K) /\ r.red = t2.red /\ Turned(t, t2, r, H, e, s, up)
<1>1. PICK sp : Linked(t, H) /\ Spans(t, H, sp)
  BY DEF Shaped
<1>2. PICK inner, g : inner = t.kid[up][s] /\ g = t.parent[e]
  OBVIOUS
<1>3. e \in H /\ up \in H /\ up = t.kid[e][1 - s] /\ s \in Sides
  BY DEF Kid, Turning
<1>4. Shaped(t2, H, K) /\ Spans(t2, H, sp) /\ Linked(t2, H)
  BY <1>1, RecoloredKeeps DEF Shaped
<1>5. /\ inner = t2.kid[up][s] /\ g = t2.parent[e] /\ up = t2.kid[e][1 - s]
      /\ H \subseteq K /\ Clear(t2, K)
  BY <1>2, <1>3, <1>4 DEF Recolored, Shaped
<1>6. /\ Linked(r, H) /\ Clear(r, K) /\ \E sp2 : Spans(r, H, sp2)
      /\ Rotated(t2, r, e, s, up, t2.kid[up][s], t2.parent[e])
  BY <1>3, <1>4, <1>5, RotateKeeps
<1>7. Rotated(t2, r, e, s, up, inner, g)
  BY <1>5, <1>6
<1>8. Pivot(t, H, e, s, up, inner, g)
  BY <1>1, <1>2, <1>3, PivotIs
<1>9. Shaped(r, H, K)
  BY <1>5, <1>6 DEF Shaped
<1>10. r.red = t2.red
  BY <1>7 DEF Rotated
<1>11. NewParents(t, r, H, e, up, inner, g)
  <2>1. H \subseteq Entries /\ t2.parent = t.parent
    BY <1>1 DEF Linked, Recolored
  <2> QED
    BY <1>7, <2>1 DEF NewParents, Rotated
<1> QED
  BY <1>7, <1>8, <1>9, <1>10, <1>11 DEF Turned

LEMMA TurnKeeps ==
  ASSUME NEW t, NEW H, NEW K, NEW q, NEW d \in Sides, Sound(t, H, K, q, d),
         NEW t2, Recolored(t, t2),
         NEW e, NEW s, NEW up, Turning(t, H, e, s, up),
         up \in t.red, q # up, q = e => d = s, Swapped(t, t2, H, e, up),
         NEW r, r = Rotate(t2, e, s)
  PROVE  Sound(r, H, K, q, d) /\ r.red = t2.red /\ Turned(t, t2, r, H, e, s, up)
<1>1. PICK b : Heights(t, H, b, q, d)
  BY DEF Sound
<1>2. PICK sp : Linked(t, H) /\ Spans(t, H, sp)
  BY DEF Sound, Shaped
<1>3. Shaped(r, H, K) /\ r.red = t2.red /\ Turned(t, t2, r, H, e, s, up)
  BY TurnShapes DEF Sound
<1>4. PICK inner, g : /\ Pivot(t, H, e, s, up, inner, g)
                      /\ Rotated(t2, r, e, s, up, inner, g)
                      /\ NewParents(t, r, H, e, up, inner, g)
  BY <1>3 DEF Turned
<1>5. t2.kid = t.kid /\ t2.parent = t.parent
  BY DEF Recolored
<1>6. \A x \in H : x \in r.red <=>
        IF x = e THEN TRUE ELSE IF x = up THEN e \in t.red ELSE x \in t.red
  BY <1>3 DEF Swapped
<1>9. s \in Sides
  BY DEF Turning
<1>7. \E b2 : Heights(r, H, b2, q, d)
  BY <1>1, <1>2, <1>4, <1>5, <1>6, <1>9, RotatedHeights
<1>8. Sound(r, H, K, q, d)
  BY <1>3, <1>7 DEF Sound
<1> QED
  BY <1>3, <1>4, <1>8

\* The uncle, when its parent and it are kids of g.
LEMMA KidsOfOne ==
  ASSUME NEW t, NEW H, NEW K, Shaped(t, H, K),
         NEW x, NEW s, NEW c, NEW w, Kid(t, H, x, s, c), Kid(t, H, x, 1 - s, w)
  PROVE  c # w /\ \A y \in H : t.parent[y] = x => y = c \/ y = w
<1>1. /\ x \in H /\ c \in H /\ w \in H /\ s \in Sides /\ 1 - s \in Sides /\ x # Nil
      /\ t.kid[x][s] = c /\ t.kid[x][1 - s] = w /\ c # w
  BY KidFacts
<1>2. ASSUME NEW y \in H, t.parent[y] = x PROVE y = c \/ y = w
  <2>1. PICK a \in Sides : t.kid[x][a] = y
    BY <1>1, <1>2 DEF Shaped, Linked
  <2>2. a = s \/ a = 1 - s
    BY <1>1 DEF Sides
  <2> QED
    BY <1>1, <2>1, <2>2
<1> QED
  BY <1>1, <1>2

\* Where a turn of RB_INSERT_COLOR() has work: e and its parent are red.
InsertCase(t, H, e, p, g, s, a) ==
  /\ Kid(t, H, g, s, p) /\ Kid(t, H, p, a, e)
  /\ e \in t.red /\ p \in t.red /\ g \notin t.red
  /\ RedsApart(t, H, {e}, {})

Blackened(t, u, p, g) == Paint(t, {u, p}, {g})
Lifted(t, top, g, s) == Rotate(Paint(t, {top}, {g}), g, 1 - s)
BlackUncle(t, g, s) == t.kid[g][1 - s] \notin t.red

\* Parent and uncle red: both become black and the grandparent red.
LEMMA InsertPaints ==
  ASSUME NEW t, NEW H, NEW K, Sound(t, H, K, Nil, 0),
         NEW e, NEW p, NEW g, NEW s, NEW a, InsertCase(t, H, e, p, g, s, a),
         NEW c, NEW u, Kid(t, H, g, c, u), c # s, u \in t.red,
         NEW r, r = Blackened(t, u, p, g)
  PROVE  /\ Sound(r, H, K, Nil, 0) /\ g \in r.red /\ RedsApart(r, H, {g}, {})
         /\ \A sp : Spans(t, H, sp) => Spans(r, H, sp)
<1>18. /\ Kid(t, H, g, s, p) /\ Kid(t, H, p, a, e) /\ p \in t.red /\ g \notin t.red
       /\ RedsApart(t, H, {e}, {})
  BY DEF InsertCase
<1>19. Kid(t, H, g, 1 - s, u)
  <2>1. s \in Sides /\ c \in Sides
    BY <1>18 DEF Kid
  <2>2. c = 1 - s
    BY <2>1 DEF Sides
  <2> QED
    BY <2>2
<1>1. PICK b : Heights(t, H, b, Nil, 0)
  BY DEF Sound
<1>2. Shaped(t, H, K)
  BY DEF Sound
<1>3. PICK sp : Linked(t, H) /\ Spans(t, H, sp)
  BY <1>2 DEF Shaped
<1>4. /\ p \in H /\ g \in H /\ u \in H /\ e \in H /\ p # g /\ u # g /\ u # p /\ p # Nil
      /\ t.parent[u] = g /\ t.parent[p] = g /\ t.parent[e] = p /\ s \in Sides
      /\ t.kid[g][s] = p /\ t.kid[g][1 - s] = u
  BY <1>2, <1>18, <1>19, KidFacts, KidsOfOne
<1>5. g \in Entries /\ Nil \notin H /\ \A x \in H : x \in Places
  BY <1>2, <1>4, ShapedFacts
<1>6. /\ Recolored(t, r) /\ r.red = (t.red \ {u, p}) \cup {g} /\ Shaped(r, H, K)
      /\ \A sp2 : Spans(t, H, sp2) => Spans(r, H, sp2)
  BY <1>2, <1>5, PaintRecolors, RecoloredKeeps DEF Blackened
<1>7. r.kid = t.kid /\ r.parent = t.parent
  BY <1>6 DEF Recolored
<1>8. \A x \in H : t.parent[x] = g => x = p \/ x = u
  BY <1>2, <1>18, <1>19, KidsOfOne
<1> DEFINE b2 == [x \in Places |-> IF x = p \/ x = u THEN b[x] + 1 ELSE b[x]]
<1>9. b \in [Places -> Nat] /\ b[Nil] = 0 /\ Nil \in Places
  BY <1>1 DEF Heights, Places
<1>10. b2 \in [Places -> Nat] /\ b2[Nil] = 0
  BY <1>4, <1>5, <1>9
<1>11. \A x \in H \cup {Nil} : /\ b2[x] = IF x = p \/ x = u THEN b[x] + 1 ELSE b[x]
                               /\ b[x] \in Nat
  BY <1>5, <1>9
<1> HIDE DEF b2
<1>12. ASSUME NEW x \in H, NEW d \in Sides
       PROVE  b2[x] = b2[r.kid[x][d]] + Weight(r, x) + IF x = Nil /\ d = 0 THEN 1 ELSE 0
  <2>1. PICK k : k = t.kid[x][d] /\ k = r.kid[x][d]
    BY <1>7
  <2>2. k \in H \cup {Nil} /\ (k # Nil => Kid(t, H, x, d, k))
    <3>1. k = t.kid[x][d]
      BY <2>1
    <3> QED
      BY <1>2, <3>1, KidIs
  <2>3. b[x] = b[k] + Weight(t, x) + IF x = Nil /\ d = 0 THEN 1 ELSE 0
    BY <1>1, <2>1 DEF Heights
  <2>4. PICK m, n, z : m = b[x] /\ n = b[k] /\ z = IF x = Nil /\ d = 0 THEN 1 ELSE 0
    OBVIOUS
  <2>5. m \in Nat /\ n \in Nat /\ z = 0
    BY <1>5, <1>11, <2>2, <2>4
  <2>6. b2[x] = Weight(r, x) + b2[k]
    <3>1. CASE x = g
      <4>1. k = p \/ k = u
        <5>1. d = s \/ d = 1 - s
          BY <1>4 DEF Sides
        <5> QED
          BY <1>4, <2>1, <3>1, <5>1
      <4>2. b2[k] = n + 1 /\ b2[x] = m
        BY <1>4, <1>11, <2>2, <2>4, <3>1, <4>1
      <4>3. Weight(t, x) = 1 /\ Weight(r, x) = 0
        BY <1>6, <1>18, <3>1 DEF Weight
      <4>4. m = n + 1
        BY <2>3, <2>4, <2>5, <4>3
      <4> QED
        BY <2>5, <4>2, <4>3, <4>4
    <3>2. CASE x # g
      <4>1. b2[k] = n
        <5>1. CASE k = Nil
          BY <1>4, <1>5, <1>11, <2>4, <5>1
        <5>2. CASE k # Nil
          <6>1. k \in H /\ t.parent[k] = x
            BY <1>2, <2>2, <5>2, KidFacts
          <6>2. k # p /\ k # u
            BY <1>4, <3>2, <6>1
          <6> QED
            BY <1>11, <2>4, <6>1, <6>2
        <5> QED
          BY <5>1, <5>2
      <4>2. CASE x = p \/ x = u
        <5>1. Weight(t, x) = 0 /\ Weight(r, x) = 1 /\ b2[x] = m + 1
          BY <1>4, <1>6, <1>11, <1>18, <2>4, <4>2 DEF Weight
        <5>2. m = n
          BY <2>3, <2>4, <2>5, <5>1
        <5> QED
          BY <2>5, <4>1, <5>1, <5>2
      <4>3. CASE ~(x = p \/ x = u)
        <5>1. Weight(r, x) = Weight(t, x) /\ Weight(t, x) \in Nat /\ b2[x] = m
          BY <1>6, <1>11, <2>4, <3>2, <4>3 DEF Weight
        <5> QED
          BY <2>3, <2>4, <2>5, <4>1, <5>1
      <4> QED
        BY <4>2, <4>3
    <3> QED
      BY <3>1, <3>2
  <2>7. b2[k] \in Nat /\ Weight(r, x) \in Nat
    BY <1>11, <2>2, <2>5 DEF Weight
  <2> QED
    BY <2>1, <2>4, <2>5, <2>6, <2>7
<1>13. Heights(r, H, b2, Nil, 0)
  BY <1>10, <1>12 DEF Heights
<1>14. ASSUME NEW x \in H \cap r.red, x # g
       PROVE  r.parent[x] # Nil /\ r.parent[x] \notin r.red
  <2>1. x \in t.red /\ x # p /\ x # u
    BY <1>6, <1>14
  <2>2. CASE x = e
    <3>1. r.parent[x] = p /\ p \notin r.red
      BY <1>4, <1>6, <1>7, <2>2
    <3> QED
      BY <1>4, <3>1
  <2>3. CASE x # e
    <3>1. t.parent[x] # Nil /\ t.parent[x] \notin t.red
      BY <1>18, <2>1, <2>3 DEF RedsApart
    <3>2. t.parent[x] # g
      BY <1>8, <2>1
    <3> QED
      BY <1>6, <1>7, <3>1, <3>2
  <2> QED
    BY <2>2, <2>3
<1>15. Sound(r, H, K, Nil, 0)
  BY <1>6, <1>13 DEF Sound
<1>16. RedsApart(r, H, {g}, {})
  BY <1>14 DEF RedsApart
<1>17. g \in r.red
  BY <1>6
<1> QED
  BY <1>6, <1>15, <1>16, <1>17

\* Inside: the entry goes above its parent.
LEMMA InsertBends ==
  ASSUME NEW t, NEW H, NEW K, Sound(t, H, K, Nil, 0),
         NEW e, NEW p, NEW g, NEW s, NEW a, InsertCase(t, H, e, p, g, s, a), a # s,
         BlackUncle(t, g, s), NEW r, r = Rotate(t, p, s)
  PROVE  /\ Sound(r, H, K, Nil, 0) /\ InsertCase(r, H, p, e, g, s, s)
         /\ BlackUncle(r, g, s)
<1>12. /\ Kid(t, H, g, s, p) /\ e \in t.red /\ p \in t.red /\ g \notin t.red
       /\ RedsApart(t, H, {e}, {})
  BY DEF InsertCase
<1>13. Kid(t, H, p, 1 - s, e)
  <2>1. s \in Sides /\ a \in Sides /\ Kid(t, H, p, a, e)
    BY DEF InsertCase, Kid
  <2>2. a = 1 - s
    BY <2>1 DEF Sides
  <2> QED
    BY <2>1, <2>2
<1>1. Shaped(t, H, K)
  BY DEF Sound
<1>2. /\ p \in H /\ g \in H /\ e \in H /\ s \in Sides /\ 1 - s \in Sides /\ 1 - s # s
      /\ SideOf(t, g, p) = s /\ t.parent[p] = g /\ t.parent[e] = p
      /\ g # Nil /\ e # Nil /\ p # Nil
  BY <1>1, <1>12, <1>13, KidFacts
<1>3. Recolored(t, t) /\ 0 \in Sides /\ Swapped(t, t, H, p, e) /\ Turning(t, H, p, s, e)
  BY <1>1, <1>2, <1>12, <1>13, ShapedFacts DEF Recolored, Swapped, Sides, Turning
<1>4. Sound(r, H, K, Nil, 0) /\ r.red = t.red /\ Turned(t, t, r, H, p, s, e)
  BY <1>2, <1>3, <1>12, TurnKeeps
<1>5. PICK inner, gg : /\ Pivot(t, H, p, s, e, inner, gg)
                       /\ Rotated(t, r, p, s, e, inner, gg)
                       /\ NewParents(t, r, H, p, e, inner, gg)
  BY <1>4 DEF Turned
<1>6. /\ gg = g /\ inner # p /\ inner # e /\ g # p /\ g # e /\ p # e
      /\ (inner # Nil => t.parent[inner] = e)
  BY <1>2, <1>5 DEF Pivot
<1>7. g \in Entries /\ e \in Entries /\ Nil \notin t.red
  BY <1>1, <1>2, ShapedFacts
<1>8. /\ r.kid[g][s] = e /\ r.kid[g][1 - s] = t.kid[g][1 - s] /\ r.kid[e][s] = p
  <2>1. \A x \in Entries, d \in Sides : r.kid[x][d] =
          IF x = p /\ d = 1 - s THEN inner
          ELSE IF x = e /\ d = s THEN p
          ELSE IF x = g /\ d = s THEN e
          ELSE t.kid[x][d]
    BY <1>2, <1>5, <1>6 DEF Rotated
  <2> QED
    BY <1>2, <1>6, <1>7, <2>1
<1>9. Kid(r, H, g, s, e) /\ Kid(r, H, e, s, p)
  BY <1>2, <1>8 DEF Kid
<1>10. ASSUME NEW x \in H \cap t.red, x # p
       PROVE  r.parent[x] # Nil /\ r.parent[x] \notin t.red
  <2>1. r.parent[x] = IF x = e THEN g ELSE IF x = inner THEN p ELSE t.parent[x]
    BY <1>5, <1>6, <1>10 DEF NewParents
  <2>2. CASE x = e
    BY <1>2, <1>12, <2>1, <2>2
  <2>3. CASE x # e
    <3>1. t.parent[x] # Nil /\ t.parent[x] \notin t.red
      BY <1>12, <2>3 DEF RedsApart
    <3>2. x # inner
      <4>1. x # Nil
        BY <1>7
      <4> QED
        BY <1>6, <1>12, <3>1, <4>1
    <3> QED
      BY <2>1, <2>3, <3>1, <3>2
  <2> QED
    BY <2>2, <2>3
<1>11. RedsApart(r, H, {p}, {})
  BY <1>4, <1>10 DEF RedsApart
<1>14. InsertCase(r, H, p, e, g, s, s)
  BY <1>4, <1>9, <1>11, <1>12 DEF InsertCase
<1>15. BlackUncle(r, g, s)
  BY <1>4, <1>8 DEF BlackUncle
<1> QED
  BY <1>4, <1>14, <1>15

\* Outside: the parent goes above the grandparent, and is black.
LEMMA InsertLasts ==
  ASSUME NEW t, NEW H, NEW K, Sound(t, H, K, Nil, 0),
         NEW low, NEW top, NEW g, NEW s, InsertCase(t, H, low, top, g, s, s),
         BlackUncle(t, g, s), NEW r, r = Lifted(t, top, g, s)
  PROVE  /\ Sound(r, H, K, Nil, 0) /\ RedsApart(r, H, {}, {}) /\ low \in r.red
         /\ r.parent[low] \notin r.red
<1>1. Shaped(t, H, K)
  BY DEF Sound
<1>18. /\ Kid(t, H, g, s, top) /\ Kid(t, H, top, s, low)
       /\ low \in t.red /\ top \in t.red /\ g \notin t.red /\ RedsApart(t, H, {low}, {})
  BY DEF InsertCase
<1>2. /\ top \in H /\ g \in H /\ low \in H /\ s \in Sides /\ 1 - s \in Sides /\ 1 - s # s
      /\ 1 - (1 - s) = s /\ t.parent[top] = g /\ t.parent[low] = top
      /\ g # Nil /\ top # Nil /\ top # g /\ low # top
  BY <1>1, <1>18, KidFacts
<1>3. g \in Entries /\ 0 \in Sides /\ Nil \notin t.red /\ low # Nil
  BY <1>1, <1>2, ShapedFacts DEF Sides
<1>4. PICK t2, d : t2 = Paint(t, {top}, {g}) /\ d = 1 - s
  OBVIOUS
<1>5. Recolored(t, t2) /\ t2.red = (t.red \ {top}) \cup {g}
  BY <1>1, <1>3, <1>4, PaintRecolors
<1>6. Swapped(t, t2, H, g, top)
  BY <1>2, <1>5, <1>18 DEF Swapped
<1>7. r = Rotate(t2, g, d) /\ Turning(t, H, g, d, top)
  BY <1>2, <1>4, <1>18 DEF Turning, Lifted
<1>17. Recolored(t, t2) /\ 0 \in Sides /\ Nil # top /\ (Nil = g => 0 = d)
       /\ top \in t.red
  BY <1>2, <1>3, <1>5, <1>18
<1>8. Sound(r, H, K, Nil, 0) /\ r.red = t2.red /\ Turned(t, t2, r, H, g, d, top)
  BY <1>6, <1>7, <1>17, TurnKeeps
<1>9. PICK inner, gg : /\ Pivot(t, H, g, d, top, inner, gg)
                       /\ NewParents(t, r, H, g, top, inner, gg)
  BY <1>8 DEF Turned
<1>10. /\ inner # g /\ inner # top /\ inner = t.kid[top][d]
       /\ (inner # Nil => t.parent[inner] = top)
  BY <1>9 DEF Pivot
<1>11. low # inner /\ low # g
  <2>1. low # inner
    BY <1>1, <1>4, <1>10, <1>18, KidFacts
  <2>2. t.parent[g] # top
    <3>1. gg = t.parent[g] /\ gg # top
      BY <1>9 DEF Pivot
    <3> QED
      BY <3>1
  <2> QED
    BY <1>2, <2>1, <2>2
<1>12. r.red = (t.red \ {top}) \cup {g}
  BY <1>5, <1>8
<1>13. \A x \in H : r.parent[x] = IF x = g THEN top ELSE IF x = top THEN gg
                                  ELSE IF x = inner THEN g ELSE t.parent[x]
  BY <1>9 DEF NewParents
<1>14. low \in r.red /\ r.parent[low] = top /\ top \notin r.red
  BY <1>2, <1>11, <1>12, <1>13, <1>18
<1>15. ASSUME NEW x \in H \cap r.red PROVE r.parent[x] # Nil /\ r.parent[x] \notin r.red
  <2>1. CASE x = g \/ x = low
    BY <1>2, <1>13, <1>14, <2>1
  <2>2. CASE x # g /\ x # low
    <3>1. x \in t.red /\ x # top
      BY <1>12, <1>15, <2>2
    <3>2. t.parent[x] # Nil /\ t.parent[x] \notin t.red
      BY <1>18, <2>2, <3>1 DEF RedsApart
    <3>3. x # inner
      <4>1. x # Nil
        BY <1>3, <3>1
      <4> QED
        BY <1>10, <1>18, <3>2, <4>1
    <3>4. t.parent[x] # g
      <4> SUFFICES ASSUME t.parent[x] = g PROVE FALSE
        OBVIOUS
      <4>1. PICK a \in Sides : t.kid[g][a] = x
        BY <1>1, <1>2 DEF Shaped, Linked
      <4>2. t.kid[g][s] = top /\ (a = s \/ a = 1 - s)
        BY <1>1, <1>2, <1>18, KidFacts DEF Sides
      <4>3. a = 1 - s
        BY <3>1, <4>1, <4>2
      <4> QED
        BY <3>1, <4>1, <4>3 DEF BlackUncle
    <3>5. r.parent[x] = t.parent[x]
      BY <1>13, <2>2, <3>1, <3>3
    <3> QED
      BY <1>12, <3>2, <3>4, <3>5
  <2> QED
    BY <2>1, <2>2
<1>16. RedsApart(r, H, {}, {})
  BY <1>15 DEF RedsApart
<1> QED
  BY <1>8, <1>14, <1>16

LEMMA ParentIs ==
  ASSUME NEW t, NEW H, NEW K, Shaped(t, H, K), NEW x \in H, NEW p, p = t.parent[x], p # Nil
  PROVE  p \in H /\ Kid(t, H, p, SideOf(t, p, x), x)
<1>1. PICK sp : Linked(t, H) /\ Spans(t, H, sp)
  BY DEF Shaped
<1>2. p \in H /\ SideOf(t, p, x) \in Sides /\ t.kid[p][SideOf(t, p, x)] = x
  BY <1>1, ParentOf
<1> QED
  BY <1>2 DEF Kid

\* Where RB_INSERT_COLOR() is: e is red and perhaps its parent too.
InsertWay(t, H, K, e) ==
  Sound(t, H, K, Nil, 0) /\ e \in H /\ e \in t.red /\ RedsApart(t, H, {e}, {})

\* More hangs from e2 than from e.
Climbed(t, t2, H, e, e2) ==
  /\ e2 # e
  /\ \A sp : Spans(t, H, sp) => /\ Spans(t2, H, sp)
                                /\ Cardinality(sp[e]) < Cardinality(sp[e2])

LEMMA GrandparentSpans ==
  ASSUME NEW t, NEW H, NEW K, Shaped(t, H, K),
         NEW e, NEW p, NEW g, NEW s, NEW a, Kid(t, H, g, s, p), Kid(t, H, p, a, e),
         NEW sp, Spans(t, H, sp)
  PROVE  Cardinality(sp[e]) < Cardinality(sp[g]) /\ e # g
<1>1. Linked(t, H)
  BY DEF Shaped
<1>2. g \in H /\ p \in H /\ s \in Sides /\ t.kid[g][s] = p
  BY DEF Kid
<1>3. p \in H /\ e \in H /\ a \in Sides /\ t.kid[p][a] = e
  BY DEF Kid
<1>4. sp[p] \subseteq sp[g] /\ g \notin sp[p]
  BY <1>1, <1>2, KidOf
<1>5. sp[e] \subseteq sp[p]
  BY <1>1, <1>3, KidOf
<1>6. sp[e] \subseteq sp[g] /\ g \notin sp[e] /\ e \in sp[e]
  BY <1>1, <1>3, <1>4, <1>5, SpanFacts
<1>7. Cardinality(sp[e]) < Cardinality(sp[g])
  BY <1>1, <1>2, <1>3, <1>6, SpanSizes
<1> QED
  BY <1>6, <1>7

LEMMA InsertTurnIs ==
  ASSUME NEW t, NEW H, NEW K, NEW e, InsertWay(t, H, K, e), t.parent[e] \in t.red
  PROVE  \E t2, e2 : /\ InsertTurn(t, e) = <<t2, e2>> /\ InsertWay(t2, H, K, e2)
                     /\ Climbed(t, t2, H, e, e2) \/ t2.parent[e2] \notin t2.red
<1>1. /\ Sound(t, H, K, Nil, 0) /\ Shaped(t, H, K) /\ e \in H /\ e \in t.red
      /\ RedsApart(t, H, {e}, {}) /\ Nil \notin t.red /\ t.red \subseteq Entries
  BY ShapedFacts DEF InsertWay, Sound
<1>2. PICK p : p = t.parent[e]
  OBVIOUS
<1>3. p \in t.red /\ p # Nil
  BY <1>1, <1>2
<1>4. PICK a : p \in H /\ Kid(t, H, p, a, e)
  BY <1>1, <1>2, <1>3, ParentIs
<1>5. e # p
  BY <1>1, <1>4, KidFacts
<1>6. PICK g : g = t.parent[p]
  OBVIOUS
<1>7. g # Nil /\ g \notin t.red
  <2>1. p \in H \cap t.red /\ p \notin {e}
    BY <1>3, <1>4, <1>5
  <2> QED
    BY <1>1, <1>6, <2>1 DEF RedsApart
<1>8. PICK s : s = SideOf(t, g, p)
  OBVIOUS
<1>9. Kid(t, H, g, s, p)
  BY <1>1, <1>4, <1>6, <1>7, <1>8, ParentIs
<1>10. PICK u : u = t.kid[g][1 - s]
  OBVIOUS
<1>11. g \in H /\ s \in Sides /\ 1 - s \in Sides
  BY <1>1, <1>9, KidFacts
<1>16. InsertCase(t, H, e, p, g, s, a)
  BY <1>1, <1>3, <1>4, <1>7, <1>9 DEF InsertCase
<1>17. Sound(t, H, K, Nil, 0)
  BY <1>1
<1>12. InsertTurn(t, e) =
         IF u \in t.red THEN <<Blackened(t, u, p, g), g>>
         ELSE IF t.kid[p][1 - s] = e THEN <<Lifted(Rotate(t, p, s), e, g, s), p>>
         ELSE <<Lifted(t, p, g, s), e>>
  BY <1>2, <1>3, <1>6, <1>8, <1>10 DEF InsertTurn, IsRed, Blackened, Lifted
<1>13. CASE u \in t.red
  <2>1. PICK r : r = Blackened(t, u, p, g)
    OBVIOUS
  <2>2. InsertTurn(t, e) = <<r, g>>
    BY <1>12, <1>13, <2>1
  <2>3. PICK c : Kid(t, H, g, c, u) /\ c # s
    <3>1. u # Nil
      BY <1>1, <1>13
    <3>2. Kid(t, H, g, 1 - s, u) /\ 1 - s # s
      BY <1>1, <1>9, <1>10, <1>11, <3>1, KidIs, KidFacts
    <3> QED
      BY <3>2
  <2>4. /\ Sound(r, H, K, Nil, 0) /\ g \in r.red /\ RedsApart(r, H, {g}, {})
        /\ \A sp : Spans(t, H, sp) => Spans(r, H, sp)
    BY <1>13, <1>16, <1>17, <2>1, <2>3, InsertPaints
  <2>5. InsertWay(r, H, K, g)
    BY <1>11, <2>4 DEF InsertWay
  <2>6. PICK sp : Spans(t, H, sp)
    BY <1>1 DEF Shaped
  <2>7. g # e
    BY <1>1, <1>4, <1>9, <2>6, GrandparentSpans
  <2>8. \A sp2 : Spans(t, H, sp2) => Cardinality(sp2[e]) < Cardinality(sp2[g])
    BY <1>1, <1>4, <1>9, GrandparentSpans
  <2>9. Climbed(t, r, H, e, g)
    BY <2>4, <2>7, <2>8 DEF Climbed
  <2> QED
    BY <2>2, <2>5, <2>9
<1>14. CASE u \notin t.red /\ t.kid[p][1 - s] = e
  <2>1. PICK t1 : t1 = Rotate(t, p, s)
    OBVIOUS
  <2>2. PICK r : r = Lifted(t1, e, g, s)
    OBVIOUS
  <2>3. InsertTurn(t, e) = <<r, p>>
    BY <1>12, <1>14, <2>1, <2>2
  <2>4. BlackUncle(t, g, s)
    BY <1>10, <1>14 DEF BlackUncle
  <2>5. a # s
    <3>1. t.kid[p][1 - a] # e
      BY <1>1, <1>4, KidFacts
    <3> QED
      BY <1>14, <3>1
  <2>6. /\ Sound(t1, H, K, Nil, 0) /\ InsertCase(t1, H, p, e, g, s, s)
        /\ BlackUncle(t1, g, s)
    BY <1>16, <1>17, <2>1, <2>4, <2>5, InsertBends
  <2>7. /\ Sound(r, H, K, Nil, 0) /\ RedsApart(r, H, {}, {}) /\ p \in r.red
        /\ r.parent[p] \notin r.red
    BY <2>2, <2>6, InsertLasts
  <2>8. InsertWay(r, H, K, p)
    BY <1>4, <2>7 DEF InsertWay, RedsApart
  <2> QED
    BY <2>3, <2>7, <2>8
<1>15. CASE u \notin t.red /\ t.kid[p][1 - s] # e
  <2>1. PICK r : r = Lifted(t, p, g, s)
    OBVIOUS
  <2>2. InsertTurn(t, e) = <<r, e>>
    BY <1>12, <1>15, <2>1
  <2>3. InsertCase(t, H, e, p, g, s, s)
    <3>1. a \in Sides /\ t.kid[p][a] = e
      BY <1>4 DEF Kid
    <3>2. a = s \/ a = 1 - s
      BY <1>11, <3>1 DEF Sides
    <3>3. a = s
      BY <1>15, <3>1, <3>2
    <3> QED
      BY <1>16, <3>3
  <2>4. BlackUncle(t, g, s)
    BY <1>10, <1>15 DEF BlackUncle
  <2>5. /\ Sound(r, H, K, Nil, 0) /\ RedsApart(r, H, {}, {}) /\ e \in r.red
        /\ r.parent[e] \notin r.red
    BY <1>17, <2>1, <2>3, <2>4, InsertLasts
  <2>6. InsertWay(r, H, K, e)
    BY <1>1, <2>5 DEF InsertWay, RedsApart
  <2> QED
    BY <2>2, <2>5, <2>6
<1> QED
  BY <1>13, <1>14, <1>15

\* The root can always be painted black.
LEMMA RootBlackens ==
  ASSUME NEW t, NEW H, NEW K, Sound(t, H, K, Nil, 0), NEW r, r = Paint(t, {t.root}, {})
  PROVE  /\ Sound(r, H, K, Nil, 0) /\ r.parent = t.parent /\ r.root = t.root
         /\ r.red = t.red \ {t.root}
<1>1. Shaped(t, H, K)
  BY DEF Sound
<1>2. PICK root : root = t.root
  OBVIOUS
<1>3. Recolored(t, r) /\ r.red = t.red \ {root}
  <2>1. PICK none : none = {} /\ none \subseteq Entries
    OBVIOUS
  <2>2. r = Paint(t, {root}, none)
    BY <1>2, <2>1
  <2>3. Recolored(t, r) /\ r.red = (t.red \ {root}) \cup none
    BY <1>1, <2>1, <2>2, PaintRecolors
  <2> QED
    BY <2>1, <2>3
<1>4. Shaped(r, H, K)
  BY <1>1, <1>3, RecoloredKeeps
<1>5. r.kid = t.kid /\ r.parent = t.parent /\ r.root = t.root
  BY <1>3 DEF Recolored
<1>6. PICK b : Heights(t, H, b, Nil, 0)
  BY DEF Sound
<1>7. Nil \notin H /\ \A x \in H : x \in Places
  BY <1>1, ShapedFacts
<1>8. b \in [Places -> Nat] /\ b[Nil] = 0 /\ Nil \in Places
  BY <1>6 DEF Heights, Places
<1>9. \E b2 : Heights(r, H, b2, Nil, 0)
  <2>1. CASE root \notin t.red
    <3>1. \A x \in H : Weight(r, x) = Weight(t, x)
      BY <1>3, <2>1 DEF Weight
    <3>2. Heights(r, H, b, Nil, 0)
      BY <1>5, <1>6, <3>1 DEF Heights
    <3> QED
      BY <3>2
  <2>2. CASE root \in t.red
    <3> DEFINE b2 == [x \in Places |-> IF x = root THEN b[x] + 1 ELSE b[x]]
    <3>1. root # Nil
      BY <1>1, <2>2, ShapedFacts
    <3>2. b2 \in [Places -> Nat] /\ b2[Nil] = 0
      BY <1>8, <3>1
    <3>3. \A x \in H \cup {Nil} : /\ b2[x] = IF x = root THEN b[x] + 1 ELSE b[x]
                                  /\ b[x] \in Nat
      BY <1>7, <1>8
    <3> HIDE DEF b2
    <3>4. ASSUME NEW x \in H, NEW c \in Sides
          PROVE  b2[x] = b2[r.kid[x][c]] + Weight(r, x) + IF x = Nil /\ c = 0 THEN 1 ELSE 0
      <4>1. PICK k : k = t.kid[x][c]
        OBVIOUS
      <4>2. k \in H \cup {Nil} /\ (k # Nil => Kid(t, H, x, c, k))
        BY <1>1, <4>1, KidIs
      <4>3. k # root
        BY <1>1, <1>2, <3>1, <4>2, KidFacts
      <4>4. b2[k] = b[k] /\ b[k] \in Nat /\ b[x] \in Nat
        BY <3>3, <4>2, <4>3
      <4>5. b[x] = b[k] + Weight(t, x) + IF x = Nil /\ c = 0 THEN 1 ELSE 0
        BY <1>6, <4>1 DEF Heights
      <4>6. PICK m, n : m = b[x] /\ n = b[k]
        OBVIOUS
      <4>7. m \in Nat /\ n \in Nat /\ b2[k] = n
        BY <4>4, <4>6
      <4>8. m = n + Weight(t, x) + 0
        BY <1>7, <4>5, <4>6
      <4>9. b2[x] = n + Weight(r, x) + 0
        <5>1. CASE x = root
          <6>1. Weight(t, x) = 0 /\ Weight(r, x) = 1 /\ b2[x] = m + 1
            BY <1>3, <2>2, <3>3, <4>6, <5>1 DEF Weight
          <6> QED
            BY <4>7, <4>8, <6>1
        <5>2. CASE x # root
          <6>1. Weight(r, x) = Weight(t, x) /\ b2[x] = m
            BY <1>3, <3>3, <4>6, <5>2 DEF Weight
          <6> QED
            BY <4>8, <6>1
        <5> QED
          BY <5>1, <5>2
      <4>10. r.kid[x][c] = k
        BY <1>5, <4>1
      <4> QED
        BY <1>7, <4>7, <4>9, <4>10
    <3>5. Heights(r, H, b2, Nil, 0)
      BY <3>2, <3>4 DEF Heights
    <3> QED
      BY <3>5
  <2> QED
    BY <2>1, <2>2
<1> QED
  BY <1>2, <1>3, <1>4, <1>5, <1>9 DEF Sound

\* The root does not hang from another.
LEMMA RootAbove ==
  ASSUME NEW t, NEW H, NEW sp, Linked(t, H), Spans(t, H, sp), NEW x \in H, x # t.root
  PROVE  t.root \notin sp[x]
<1> SUFFICES ASSUME t.root \in sp[x] PROVE FALSE
  OBVIOUS
<1>1. t.root \in H /\ t.parent[t.root] = Nil /\ Nil \notin H
  BY SpanFacts DEF Linked
<1>2. t.parent[t.root] \in sp[x] /\ sp[x] \subseteq H
  BY Within, SpanFacts
<1> QED
  BY <1>1, <1>2

LEMMA InsertColorIs ==
  ASSUME NEW t0, NEW H, NEW K, NEW e0, InsertWay(t0, H, K, e0), NEW r, r = InsertColor(t0, e0)
  PROVE  Sound(r, H, K, Nil, 0) /\ RedsApart(r, H, {}, {})
<1> DEFINE Size(t, e, n) ==
             t.parent[e] \in t.red =>
               \E sp : Spans(t, H, sp) /\ n = Cardinality(H) - Cardinality(sp[e])
           V == Trees \X Entries
           G == {q \in V \X Nat : /\ InsertWay(q[1][1], H, K, q[1][2])
                                  /\ Size(q[1][1], q[1][2], q[2])}
           f == InsertTurns
<1>1. ASSUME NEW t, NEW e, InsertWay(t, H, K, e)
      PROVE  /\ t \in Trees /\ e \in Entries /\ <<t, e>> \in V /\ e \in H
             /\ \E sp : Spans(t, H, sp)
             /\ \A sp : Spans(t, H, sp) =>
                  Cardinality(H) - Cardinality(sp[e]) \in 0..Cardinality(Entries)
  <2>1. Shaped(t, H, K) /\ e \in H
    BY <1>1 DEF InsertWay, Sound
  <2>2. t \in Trees /\ e \in Entries /\ Linked(t, H) /\ \E sp : Spans(t, H, sp)
    BY <2>1, ShapedFacts DEF Shaped
  <2>3. ASSUME NEW sp, Spans(t, H, sp)
        PROVE  Cardinality(H) - Cardinality(sp[e]) \in 0..Cardinality(Entries)
    <3>1. Cardinality(H) \in 0..Cardinality(Entries) /\ Cardinality(sp[e]) \in 1..Cardinality(H)
      BY <2>1, <2>2, <2>3, SpanSizes
    <3> QED
      BY <3>1, HowMany
  <2> QED
    BY <2>1, <2>2, <2>3
<1>2. PICK sp0 : Spans(t0, H, sp0)
  BY <1>1
<1>3. PICK r0 : r0 = Cardinality(H) - Cardinality(sp0[e0])
  OBVIOUS
<1>4. r0 \in 0..Cardinality(Entries) /\ r0 \in Nat
  <2>1. r0 \in 0..Cardinality(Entries)
    BY <1>1, <1>2, <1>3
  <2> QED
    BY <2>1, HowMany
<1>5. PICK x0 : x0 = <<t0, e0>>
  OBVIOUS
<1>6. <<x0, r0>> \in G
  BY <1>1, <1>2, <1>3, <1>4, <1>5
<1>7. G \subseteq V \X Nat
  OBVIOUS
<1>8. ASSUME NEW c \in V, NEW n \in Nat, <<c, n>> \in G
      PROVE  f[c] = c \/ \E q \in Nat : q < n /\ <<f[c], q>> \in G
  <2>1. PICK t, e : t = c[1] /\ e = c[2]
    OBVIOUS
  <2>2. c = <<t, e>> /\ InsertWay(t, H, K, e) /\ Size(t, e, n)
    BY <1>8, <2>1
  <2>3. f[c] = InsertTurn(t, e)
    BY <2>1 DEF InsertTurns
  <2>4. CASE t.parent[e] \notin t.red
    <3>1. InsertTurn(t, e) = <<t, e>>
      BY <2>4 DEF InsertTurn, IsRed
    <3> QED
      BY <2>2, <2>3, <3>1
  <2>5. CASE t.parent[e] \in t.red
    <3>1. PICK t2, e2 : /\ InsertTurn(t, e) = <<t2, e2>> /\ InsertWay(t2, H, K, e2)
                        /\ Climbed(t, t2, H, e, e2) \/ t2.parent[e2] \notin t2.red
      BY <2>2, <2>5, InsertTurnIs
    <3>2. PICK sp : Spans(t, H, sp) /\ n = Cardinality(H) - Cardinality(sp[e])
      BY <2>2, <2>5
    <3>3. PICK y : y = <<t2, e2>>
      OBVIOUS
    <3>4. f[c] = y /\ y \in V /\ y[1] = t2 /\ y[2] = e2
      BY <1>1, <2>3, <3>1, <3>3
    <3>5. CASE Climbed(t, t2, H, e, e2)
      <4>1. Spans(t2, H, sp) /\ Cardinality(sp[e]) < Cardinality(sp[e2])
        BY <3>2, <3>5 DEF Climbed
      <4>2. PICK q : q = Cardinality(H) - Cardinality(sp[e2])
        OBVIOUS
      <4>3. Size(t2, e2, q)
        BY <4>1, <4>2
      <4>4. q \in Nat /\ q < n
        <5>1. e \in H /\ e2 \in H /\ Linked(t, H)
          BY <1>1, <2>2, <3>1 DEF InsertWay, Sound, Shaped
        <5>2. /\ Cardinality(sp[e]) \in 1..Cardinality(H) /\ Cardinality(H) \in Int
              /\ Cardinality(sp[e2]) \in 1..Cardinality(H)
          BY <3>2, <5>1, SpanSizes
        <5> QED
          BY <3>2, <4>1, <4>2, <5>2
      <4>5. <<y, q>> \in G
        BY <3>1, <3>4, <4>3, <4>4
      <4> QED
        BY <3>4, <4>4, <4>5
    <3>6. CASE t2.parent[e2] \notin t2.red
      <4>1. Size(t2, e2, 0)
        BY <3>6
      <4>2. <<y, 0>> \in G
        BY <3>1, <3>4, <4>1
      <4>3. 0 < n
        <5>1. e \in H /\ Linked(t, H) /\ e # t.root /\ t.root \in H
          <6>1. Shaped(t, H, K) /\ e \in H
            BY <2>2 DEF InsertWay, Sound
          <6>2. Linked(t, H) /\ Nil \notin t.red
            BY <6>1, ShapedFacts
          <6>3. Spans(t, H, sp) /\ t.parent[e] # Nil
            BY <2>5, <3>2, <6>2
          <6>4. e # t.root
            BY <6>1, <6>2, <6>3, KidSides
          <6>5. t.root \in H
            BY <6>1, <6>2, <6>3, SpanFacts
          <6> QED
            BY <6>1, <6>2, <6>4, <6>5
        <5>2. sp[e] \subseteq sp[t.root] /\ t.root \notin sp[e] /\ sp[t.root] = H
          <6>1. sp[t.root] = H /\ sp[e] \subseteq H
            <7>1. Spans(t, H, sp)
              BY <3>2
            <7>2. sp[e] \subseteq H
              BY <5>1, <7>1, SpanFacts
            <7> QED
              BY <7>1, <7>2 DEF Spans
          <6>2. t.root \notin sp[e]
            BY <3>2, <5>1, RootAbove
          <6> QED
            BY <6>1, <6>2
        <5>3. Cardinality(sp[e]) < Cardinality(sp[t.root])
          BY <3>2, <5>1, <5>2, SpanSizes
        <5>4. /\ Cardinality(sp[e]) \in Int /\ Cardinality(H) \in Int
              /\ Cardinality(sp[e]) < Cardinality(H)
          BY <3>2, <5>1, <5>2, <5>3, SpanSizes
        <5> QED
          BY <3>2, <5>4
      <4> QED
        BY <3>4, <4>2, <4>3
    <3> QED
      BY <3>1, <3>5, <3>6
  <2> QED
    BY <2>4, <2>5
<1>9. PICK d : d = Loop(f, x0)
  OBVIOUS
<1>10. f[d] = d /\ d \in V /\ \E n \in Nat : <<d, n>> \in G
  <2>1. \A c \in V, n \in Nat : <<c, n>> \in G =>
          f[c] = c \/ \E q \in Nat : q < n /\ <<f[c], q>> \in G
    BY <1>8
  <2> HIDE DEF G, f, V
  <2> QED
    BY <1>4, <1>6, <1>7, <1>9, <2>1, LoopEnds
<1>11. PICK t, e : t = d[1] /\ e = d[2]
  OBVIOUS
<1>12. d = <<t, e>> /\ InsertWay(t, H, K, e) /\ InsertTurn(t, e) = <<t, e>>
  <2>1. InsertWay(d[1], H, K, d[2])
    BY <1>10
  <2>2. f[d] = InsertTurn(d[1], d[2])
    BY <1>10 DEF InsertTurns
  <2> QED
    BY <1>10, <1>11, <2>1, <2>2
<1>13. t.parent[e] \notin t.red
  <2> SUFFICES ASSUME t.parent[e] \in t.red PROVE FALSE
    OBVIOUS
  <2>1. PICK t2, e2 : /\ InsertTurn(t, e) = <<t2, e2>>
                      /\ Climbed(t, t2, H, e, e2) \/ t2.parent[e2] \notin t2.red
    BY <1>12, InsertTurnIs
  <2>2. t2 = t /\ e2 = e
    BY <1>12, <2>1
  <2> QED
    BY <2>1, <2>2 DEF Climbed
<1>14. r = Paint(t, {t.root}, {})
  <2>1. InsertColor(t0, e0) = Paint(d[1], {d[1].root}, {})
    BY <1>5, <1>9 DEF InsertColor
  <2> QED
    BY <1>11, <2>1
<1>15. Sound(t, H, K, Nil, 0) /\ RedsApart(t, H, {e}, {}) /\ Linked(t, H) /\ e \in H
  BY <1>12 DEF InsertWay, Sound, Shaped
<1>16. /\ Sound(r, H, K, Nil, 0) /\ r.parent = t.parent /\ r.red = t.red \ {t.root}
  BY <1>14, <1>15, RootBlackens
<1>17. ASSUME NEW x \in H \cap r.red PROVE r.parent[x] # Nil /\ r.parent[x] \notin r.red
  <2>1. x \in t.red /\ x # t.root
    BY <1>16, <1>17
  <2>2. t.parent[x] # Nil
    BY <1>15, <2>1 DEF Linked
  <2>3. t.parent[x] \notin t.red
    BY <1>13, <1>15, <2>1 DEF RedsApart
  <2> QED
    BY <1>16, <2>2, <2>3
<1>18. RedsApart(r, H, {}, {})
  BY <1>17 DEF RedsApart
<1> QED
  BY <1>16, <1>18

\* e is put below p on side d, or at the root.
WithLeaf(t, r, p, d, e) ==
  /\ r \in Trees /\ r.red = t.red \cup {e}
  /\ r.root = IF p = Nil THEN e ELSE t.root
  /\ \A x \in Entries : r.parent[x] = IF x = e THEN p ELSE t.parent[x]
  /\ \A x \in Entries, s \in Sides :
       r.kid[x][s] = IF x = p /\ s = d THEN e ELSE t.kid[x][s]

\* It is free, and e belongs there.
LeafPlace(t, H, sp, p, d, e) ==
  /\ e \in Entries \ H /\ d \in Sides
  /\ p = Nil => H = {}
  /\ p # Nil => p \in H /\ t.kid[p][d] = Nil /\ On(d, e, p)
  /\ \A x \in H, s \in Sides : p \in sp[t.kid[x][s]] => On(s, e, x)

LEMMA LeafKids ==
  ASSUME NEW t, NEW H, Shaped(t, H, H), NEW sp, NEW p, NEW d, NEW e, LeafPlace(t, H, sp, p, d, e),
         NEW r, WithLeaf(t, r, p, d, e)
  PROVE  /\ e \in Entries /\ e # Nil /\ e \notin H /\ e # p /\ H \cup {e} \subseteq Entries
         /\ Nil \notin H \cup {e}
         /\ \A s \in Sides : r.kid[e][s] = Nil
         /\ \A x \in H, s \in Sides : /\ r.kid[x][s] = IF x = p /\ s = d THEN e ELSE t.kid[x][s]
                                      /\ t.kid[x][s] \in H \cup {Nil}
<1>1. e \in Entries /\ e \notin H /\ (p # Nil => p \in H)
  BY DEF LeafPlace
<1>2. e # Nil /\ e # p /\ H \subseteq Entries /\ Nil \notin H
  BY <1>1, ShapedFacts, EntryFacts
<1>3. \A s \in Sides : t.kid[e][s] = Nil
  BY <1>1 DEF Shaped, Clear
<1>4. \A x \in Entries, s \in Sides :
        r.kid[x][s] = IF x = p /\ s = d THEN e ELSE t.kid[x][s]
  BY DEF WithLeaf
<1>5. \A x \in H, s \in Sides : t.kid[x][s] \in H \cup {Nil}
  BY DEF Shaped, Linked
<1> QED
  BY <1>1, <1>2, <1>3, <1>4, <1>5

LEMMA LeafLinked ==
  ASSUME NEW t, NEW H, Shaped(t, H, H), NEW sp, NEW p, NEW d, NEW e, LeafPlace(t, H, sp, p, d, e),
         NEW r, WithLeaf(t, r, p, d, e)
  PROVE  Linked(r, H \cup {e}) /\ Clear(r, H \cup {e})
<1>1. /\ e \in Entries /\ e # Nil /\ e \notin H /\ e # p /\ H \cup {e} \subseteq Entries
      /\ Nil \notin H \cup {e}
      /\ \A s \in Sides : r.kid[e][s] = Nil
      /\ \A x \in H, s \in Sides : /\ r.kid[x][s] = IF x = p /\ s = d THEN e ELSE t.kid[x][s]
                                   /\ t.kid[x][s] \in H \cup {Nil}
  BY LeafKids
<1>2. /\ d \in Sides /\ (p = Nil => H = {})
      /\ p # Nil => p \in H /\ t.kid[p][d] = Nil
  BY DEF LeafPlace
<1>3. /\ r \in Trees /\ r.root = IF p = Nil THEN e ELSE t.root
      /\ \A x \in H \cup {e} : r.parent[x] = IF x = e THEN p ELSE t.parent[x]
  BY <1>1 DEF WithLeaf
<1>4. /\ t.root \in H \cup {Nil} /\ (t.root # Nil => t.parent[t.root] = Nil)
      /\ \A x \in H : t.parent[x] = Nil => x = t.root
      /\ \A x \in H : t.parent[x] # Nil =>
           t.parent[x] \in H /\ \E s \in Sides : t.kid[t.parent[x]][s] = x
      /\ \A x \in H, s \in Sides : t.kid[x][s] # Nil => t.parent[t.kid[x][s]] = x
  BY DEF Shaped, Linked
<1>5. r.root \in H \cup {e} /\ r.parent[r.root] = Nil
  <2>1. CASE p = Nil
    BY <1>3, <2>1
  <2>2. CASE p # Nil
    <3>1. t.root \in H
      <4>1. PICK sp2 : Spans(t, H, sp2) /\ Linked(t, H)
        BY DEF Shaped
      <4> QED
        BY <1>2, <2>2, <4>1, SpanFacts
    <3> QED
      BY <1>1, <1>3, <1>4, <2>2, <3>1
  <2> QED
    BY <2>1, <2>2
<1>6. ASSUME NEW x \in H \cup {e}, r.parent[x] = Nil PROVE x = r.root
  BY <1>2, <1>3, <1>4, <1>6
<1>7. ASSUME NEW x \in H \cup {e}, r.parent[x] # Nil
      PROVE  r.parent[x] \in H \cup {e} /\ \E s \in Sides : r.kid[r.parent[x]][s] = x
  <2>1. CASE x = e
    BY <1>1, <1>2, <1>3, <1>7, <2>1
  <2>2. CASE x # e
    <3>1. PICK y : y = t.parent[x] /\ y = r.parent[x] /\ x \in H
      BY <1>3, <2>2
    <3>2. PICK s \in Sides : y \in H /\ t.kid[y][s] = x
      BY <1>4, <1>7, <3>1
    <3>3. r.kid[y][s] = x
      BY <1>1, <1>2, <3>1, <3>2
    <3> QED
      BY <3>1, <3>2, <3>3
  <2> QED
    BY <2>1, <2>2
<1>8. ASSUME NEW x \in H \cup {e}, NEW s \in Sides, r.kid[x][s] # Nil
      PROVE  r.kid[x][s] \in H \cup {e} /\ r.parent[r.kid[x][s]] = x
  <2>1. PICK k : k = r.kid[x][s]
    OBVIOUS
  <2>2. x \in H
    BY <1>1, <1>8
  <2>3. CASE x = p /\ s = d
    BY <1>1, <1>3, <2>2, <2>3
  <2>4. CASE ~(x = p /\ s = d)
    <3>1. k = t.kid[x][s] /\ k \in H
      BY <1>1, <1>8, <2>1, <2>2, <2>4
    <3>2. t.parent[k] = x /\ k # e
      BY <1>1, <1>4, <2>2, <3>1
    <3> QED
      BY <1>3, <2>1, <3>1, <3>2
  <2> QED
    BY <2>3, <2>4
<1>9. Linked(r, H \cup {e})
  BY <1>1, <1>3, <1>5, <1>6, <1>7, <1>8 DEF Linked
<1>10. ASSUME NEW x \in Entries \ (H \cup {e}), NEW s \in Sides PROVE r.kid[x][s] = Nil
  <2>1. r.kid[x][s] = IF x = p /\ s = d THEN e ELSE t.kid[x][s]
    BY DEF WithLeaf
  <2>2. x # p
    BY <1>2, EntryFacts
  <2> QED
    BY <2>1, <2>2 DEF Shaped, Clear
<1> QED
  BY <1>9, <1>10 DEF Clear

LEMMA LeafSpans ==
  ASSUME NEW t, NEW H, Shaped(t, H, H), NEW sp, Spans(t, H, sp),
         NEW p, NEW d, NEW e, LeafPlace(t, H, sp, p, d, e), NEW r, WithLeaf(t, r, p, d, e)
  PROVE  \E sp2 : Spans(r, H \cup {e}, sp2)
<1>1. /\ e \in Entries /\ e # Nil /\ e \notin H /\ e # p /\ H \cup {e} \subseteq Entries
      /\ Nil \notin H \cup {e}
      /\ \A s \in Sides : r.kid[e][s] = Nil
      /\ \A x \in H, s \in Sides : /\ r.kid[x][s] = IF x = p /\ s = d THEN e ELSE t.kid[x][s]
                                   /\ t.kid[x][s] \in H \cup {Nil}
  BY LeafKids
<1>2. /\ d \in Sides /\ (p = Nil => H = {}) /\ 1 - d \in Sides /\ 1 - d # d
      /\ \A s \in Sides : s = d \/ s = 1 - d
      /\ p # Nil => p \in H /\ t.kid[p][d] = Nil /\ On(d, e, p)
      /\ \A x \in H, s \in Sides : p \in sp[t.kid[x][s]] => On(s, e, x)
  BY OnFacts DEF LeafPlace, Sides
<1>3. Linked(t, H)
  BY DEF Shaped
<1>4. /\ sp \in [Places -> SUBSET H] /\ sp[Nil] = {} /\ sp[t.root] = H
      /\ \A x \in H \cup {e, Nil} : x \in Places
  BY <1>1 DEF Spans, Places
<1> DEFINE sp2 == [x \in Places |-> IF x = e THEN {e}
                                    ELSE IF p \in sp[x] THEN sp[x] \cup {e} ELSE sp[x]]
<1>5. sp2 \in [Places -> SUBSET (H \cup {e})]
  BY <1>4
<1>6. /\ sp2[e] = {e} /\ sp2[Nil] = {}
      /\ \A x \in H \cup {Nil} : sp2[x] = sp[x] \cup IF p \in sp[x] THEN {e} ELSE {}
  BY <1>1, <1>4
<1> HIDE DEF sp2
<1>7. sp2[r.root] = H \cup {e}
  <2>1. r.root = IF p = Nil THEN e ELSE t.root
    BY DEF WithLeaf
  <2>2. CASE p = Nil
    BY <1>2, <1>6, <2>1, <2>2
  <2>3. CASE p # Nil
    <3>1. t.root \in H /\ p \in sp[t.root]
      BY <1>2, <1>3, <1>4, <2>3, SpanFacts
    <3> QED
      BY <1>4, <1>6, <2>1, <2>3, <3>1
  <2> QED
    BY <2>2, <2>3
<1>8. ASSUME NEW x \in H
      PROVE  sp2[x] = {x} \cup sp2[r.kid[x][0]] \cup sp2[r.kid[x][1]]
  <2>1. PICK k, o : k = t.kid[x][d] /\ o = t.kid[x][1 - d]
    OBVIOUS
  <2>2. /\ k \in H \cup {Nil} /\ o \in H \cup {Nil}
        /\ sp[x] = {x} \cup sp[k] \cup sp[o]
    BY <1>2, <1>3, <2>1, SpanOfKids
  <2>3. CASE x = p
    <3>1. r.kid[x][d] = e /\ r.kid[x][1 - d] = o
      BY <1>1, <1>2, <2>1, <2>3
    <3>2. k = Nil /\ p \notin sp[o] /\ p \in sp[x]
      BY <1>1, <1>2, <1>3, <2>1, <2>3, SpanOfKids, SpanFacts
    <3>3. sp2[x] = sp[x] \cup {e} /\ sp2[o] = sp[o]
      BY <1>6, <2>2, <3>2
    <3>4. sp2[x] = {x} \cup sp2[r.kid[x][d]] \cup sp2[r.kid[x][1 - d]]
      BY <1>4, <1>6, <2>2, <3>1, <3>2, <3>3
    <3> QED
      BY <1>2, <3>4, EitherSide
  <2>4. CASE x # p
    <3>1. r.kid[x][d] = k /\ r.kid[x][1 - d] = o
      BY <1>1, <1>2, <2>1, <2>4
    <3>2. p \in sp[x] <=> p \in sp[k] \/ p \in sp[o]
      BY <2>2, <2>4
    <3>3. sp2[x] = {x} \cup sp2[k] \cup sp2[o]
      BY <1>6, <2>2, <3>2
    <3>4. sp2[x] = {x} \cup sp2[r.kid[x][d]] \cup sp2[r.kid[x][1 - d]]
      BY <3>1, <3>3
    <3> QED
      BY <1>2, <3>4, EitherSide
  <2> QED
    BY <2>3, <2>4
<1>9. ASSUME NEW x \in H, NEW s \in Sides, NEW y \in sp2[r.kid[x][s]] PROVE On(s, y, x)
  <2>1. PICK k : k = t.kid[x][s]
    OBVIOUS
  <2>2. k \in H \cup {Nil} /\ \A z \in sp[k] : On(s, z, x)
    BY <1>1, <2>1 DEF Spans
  <2>3. CASE x = p /\ s = d
    <3>1. y = e
      BY <1>1, <1>6, <1>9, <2>3
    <3>2. p # Nil
      BY <1>1, <2>3
    <3> QED
      BY <1>2, <2>3, <3>1, <3>2
  <2>4. CASE ~(x = p /\ s = d)
    <3>1. y \in sp2[k]
      BY <1>1, <1>9, <2>1, <2>4
    <3>2. y \in sp[k] \/ (y = e /\ p \in sp[k])
      BY <1>6, <2>2, <3>1
    <3> QED
      BY <1>2, <2>1, <2>2, <3>2
  <2> QED
    BY <2>3, <2>4
<1>10. ASSUME NEW x \in H \cup {e}
       PROVE  /\ sp2[x] = {x} \cup sp2[r.kid[x][0]] \cup sp2[r.kid[x][1]]
              /\ \A s \in Sides : \A y \in sp2[r.kid[x][s]] : On(s, y, x)
  <2>1. CASE x = e
    BY <1>1, <1>6, <2>1 DEF Sides
  <2>2. CASE x # e
    BY <1>8, <1>9, <2>2
  <2> QED
    BY <2>1, <2>2
<1>11. Spans(r, H \cup {e}, sp2)
  BY <1>5, <1>6, <1>7, <1>10 DEF Spans
<1> QED
  BY <1>11

LEMMA LeafHeights ==
  ASSUME NEW t, NEW H, Shaped(t, H, H), NEW sp, NEW b, Heights(t, H, b, Nil, 0),
         NEW p, NEW d, NEW e, LeafPlace(t, H, sp, p, d, e), NEW r, WithLeaf(t, r, p, d, e)
  PROVE  \E b2 : Heights(r, H \cup {e}, b2, Nil, 0)
<1>1. /\ e \in Entries /\ e # Nil /\ e \notin H /\ e # p /\ H \cup {e} \subseteq Entries
      /\ Nil \notin H \cup {e}
      /\ \A s \in Sides : r.kid[e][s] = Nil
      /\ \A x \in H, s \in Sides : /\ r.kid[x][s] = IF x = p /\ s = d THEN e ELSE t.kid[x][s]
                                   /\ t.kid[x][s] \in H \cup {Nil}
  BY LeafKids
<1>2. d \in Sides /\ (p # Nil => p \in H /\ t.kid[p][d] = Nil)
  BY DEF LeafPlace
<1>3. b \in [Places -> Nat] /\ b[Nil] = 0 /\ \A x \in H \cup {e, Nil} : x \in Places
  BY <1>1 DEF Heights, Places
<1> DEFINE b2 == [x \in Places |-> IF x = e THEN 0 ELSE b[x]]
<1>4. b2 \in [Places -> Nat] /\ b2[e] = 0 /\ b2[Nil] = 0 /\ \A x \in H \cup {Nil} : b2[x] = b[x]
  BY <1>1, <1>3
<1> HIDE DEF b2
<1>5. ASSUME NEW x \in H, NEW s \in Sides
      PROVE  b2[x] = b2[r.kid[x][s]] + Weight(r, x) + IF x = Nil /\ s = 0 THEN 1 ELSE 0
  <2>1. PICK k : k = t.kid[x][s] /\ k \in H \cup {Nil}
    BY <1>1
  <2>2. b[x] = b[k] + Weight(t, x) + IF x = Nil /\ s = 0 THEN 1 ELSE 0
    BY <2>1 DEF Heights
  <2>3. Weight(r, x) = Weight(t, x)
    BY <1>1 DEF Weight, WithLeaf
  <2>4. b2[r.kid[x][s]] = b[k]
    <3>1. CASE x = p /\ s = d
      <4>1. r.kid[x][s] = e /\ k = Nil
        BY <1>1, <1>2, <2>1, <3>1
      <4> QED
        BY <1>3, <1>4, <4>1
    <3>2. CASE ~(x = p /\ s = d)
      <4>1. r.kid[x][s] = k
        BY <1>1, <2>1, <3>2
      <4> QED
        BY <1>4, <2>1, <4>1
    <3> QED
      BY <3>1, <3>2
  <2>5. b2[x] = b[x]
    BY <1>4
  <2> QED
    BY <2>2, <2>3, <2>4, <2>5
<1>6. ASSUME NEW s \in Sides
      PROVE  b2[e] = b2[r.kid[e][s]] + Weight(r, e) + IF e = Nil /\ s = 0 THEN 1 ELSE 0
  <2>1. Weight(r, e) = 0
    BY DEF Weight, WithLeaf
  <2> QED
    BY <1>1, <1>4, <2>1
<1>7. Heights(r, H \cup {e}, b2, Nil, 0)
  BY <1>4, <1>5, <1>6 DEF Heights
<1> QED
  BY <1>7

\* What the tree is between operations.
Good(t, H) == Sound(t, H, H, Nil, 0) /\ RedsApart(t, H, {}, {})

LeafOf(t, p, d, e) ==
  LET in == Paint(WithParent(t, e, p), {}, {e}) IN
  IF p = Nil THEN [in EXCEPT !.root = e] ELSE WithKid(in, p, d, e)

LEMMA LeafIs ==
  ASSUME NEW t \in Trees, NEW p \in Places, NEW d \in Sides, NEW e \in Entries,
         NEW r, r = LeafOf(t, p, d, e)
  PROVE  WithLeaf(t, r, p, d, e)
<1>1. PICK a, in : a = WithParent(t, e, p) /\ in = Paint(a, {}, {e})
  OBVIOUS
<1>2. e \in Places /\ e # Nil /\ {e} \in SUBSET Entries
  BY EntryFacts DEF Places
<1>3. ParentSet(t, a, e, p)
  BY <1>1, <1>2, WithParentIs
<1>4. Painted(a, in, {}, {e})
  BY <1>1, <1>2, <1>3, PaintIs DEF ParentSet
<1>5. /\ in \in Trees /\ in.kid = t.kid /\ in.root = t.root /\ in.red = t.red \cup {e}
      /\ \A x \in Entries : in.parent[x] = IF x = e THEN p ELSE t.parent[x]
  BY <1>3, <1>4 DEF Painted, ParentSet
<1>6. CASE p = Nil
  <2>1. r = [in EXCEPT !.root = e]
    BY <1>1, <1>6 DEF LeafOf
  <2>2. /\ r \in Trees /\ r.kid = in.kid /\ r.red = in.red /\ r.parent = in.parent
        /\ r.root = e
    BY <1>2, <1>5, <2>1 DEF Trees
  <2>3. \A x \in Entries : x # p
    BY <1>6, EntryFacts
  <2>4. \A x \in Entries, s \in Sides : r.kid[x][s] = IF x = p /\ s = d THEN e ELSE t.kid[x][s]
    BY <1>5, <2>2, <2>3
  <2>5. \A x \in Entries : r.parent[x] = IF x = e THEN p ELSE t.parent[x]
    BY <1>5, <2>2
  <2> QED
    BY <1>5, <1>6, <2>2, <2>4, <2>5 DEF WithLeaf
<1>7. CASE p # Nil
  <2>1. r = WithKid(in, p, d, e) /\ p \in Entries
    BY <1>1, <1>7 DEF Places, LeafOf
  <2>2. KidSet(in, r, p, d, e)
    BY <1>2, <1>5, <2>1, WithKidIs
  <2> QED
    BY <1>5, <1>7, <2>2 DEF WithLeaf, KidSet
<1> QED
  BY <1>6, <1>7

LEMMA LeafGrows ==
  ASSUME NEW t, NEW H, Good(t, H), NEW sp, Spans(t, H, sp),
         NEW p, NEW d, NEW e, LeafPlace(t, H, sp, p, d, e),
         NEW r, WithLeaf(t, r, p, d, e)
  PROVE  InsertWay(r, H \cup {e}, H \cup {e}, e)
<1>1. Shaped(t, H, H) /\ RedsApart(t, H, {}, {})
  BY DEF Good, Sound
<1>2. PICK b : Heights(t, H, b, Nil, 0)
  BY DEF Good, Sound
<1>3. Linked(r, H \cup {e}) /\ Clear(r, H \cup {e})
  BY <1>1, LeafLinked
<1>4. \E sp2 : Spans(r, H \cup {e}, sp2)
  BY <1>1, LeafSpans
<1>5. \E b2 : Heights(r, H \cup {e}, b2, Nil, 0)
  BY <1>1, <1>2, LeafHeights
<1>6. Sound(r, H \cup {e}, H \cup {e}, Nil, 0)
  BY <1>3, <1>4, <1>5 DEF Sound, Shaped
<1>7. /\ r.red = t.red \cup {e} /\ e \notin H /\ e \in Entries /\ H \subseteq Entries
      /\ \A x \in H : r.parent[x] = t.parent[x]
  BY <1>1, ShapedFacts DEF WithLeaf, LeafPlace
<1>8. ASSUME NEW x \in H, x \in r.red PROVE r.parent[x] # Nil /\ r.parent[x] \notin r.red
  <2>1. x \in t.red
    BY <1>7, <1>8
  <2>2. t.parent[x] # Nil /\ t.parent[x] \notin t.red
    BY <1>1, <2>1 DEF RedsApart
  <2>3. t.parent[x] \in H
    BY <1>1, <2>2 DEF Shaped, Linked
  <2> QED
    BY <1>7, <2>2, <2>3
<1>9. RedsApart(r, H \cup {e}, {e}, {})
  BY <1>8 DEF RedsApart
<1> QED
  BY <1>6, <1>7, <1>9 DEF InsertWay

LEMMA LeafPlaceIs ==
  ASSUME NEW t, NEW H, Shaped(t, H, H), NEW sp, Spans(t, H, sp), NEW e \in Entries \ H,
         NEW p, p = Nearest(t, Key(e)), NEW d, d = IF Key(e) < Key(p) THEN 0 ELSE 1
  PROVE  /\ p \in Places /\ d \in Sides
         /\ p = Nil => LeafPlace(t, H, sp, p, d, e)
         /\ p # Nil /\ Key(p) # Key(e) => LeafPlace(t, H, sp, p, d, e)
         /\ (\E h \in H : Key(h) = Key(e)) <=> (p # Nil /\ Key(p) = Key(e))
<1>1. /\ Linked(t, H) /\ H \subseteq Entries /\ Nil \notin H /\ d \in Sides
      /\ \A x \in Entries : Key(x) \in Int
  BY ShapedFacts, EntryFacts DEF Sides
<1>2. CASE H = {}
  <2>1. p = Nil
    BY <1>1, <1>2 DEF Nearest, Linked
  <2>2. LeafPlace(t, H, sp, p, d, e)
    BY <1>1, <1>2, <2>1 DEF LeafPlace
  <2> QED
    BY <1>1, <1>2, <2>1, <2>2 DEF Places
<1>3. CASE H # {}
  <2>1. PICK k : k = Key(e) /\ k \in Int
    BY <1>1
  <2>2. /\ p \in H
        /\ \A a \in H, s \in Sides : p \in sp[t.kid[a][s]] => KeyOn(s, k, a)
        /\ \A y \in H : Key(y) = k => y = p
        /\ Key(p) # k => t.kid[p][IF k < Key(p) THEN 0 ELSE 1] = Nil
    BY <1>1, <1>3, <2>1, NearestIs
  <2>3. \A a \in H, s \in Sides : p \in sp[t.kid[a][s]] => On(s, e, a)
    BY <2>1, <2>2 DEF KeyOn, On
  <2>4. p # Nil /\ p \in Places /\ p \in Entries
    BY <1>1, <2>2 DEF Places
  <2>5. ASSUME Key(p) # Key(e) PROVE LeafPlace(t, H, sp, p, d, e)
    <3>1. t.kid[p][d] = Nil
      BY <2>1, <2>2, <2>5
    <3>2. On(d, e, p)
      BY <1>1, <2>4, <2>5 DEF On
    <3> QED
      BY <1>1, <2>2, <2>3, <2>4, <3>1, <3>2 DEF LeafPlace
  <2>6. (\E h \in H : Key(h) = Key(e)) <=> Key(p) = Key(e)
    BY <2>1, <2>2
  <2> QED
    BY <1>1, <2>4, <2>5, <2>6
<1> QED
  BY <1>2, <1>3

LEMMA InsertedIs ==
  ASSUME NEW t, NEW H, Good(t, H), NEW e \in Entries \ H, NEW r, r = Inserted(t, e)
  PROVE  Good(r, IF \E h \in H : Key(h) = Key(e) THEN H ELSE H \cup {e})
<1>1. Shaped(t, H, H)
  BY DEF Good, Sound
<1>2. PICK sp : Spans(t, H, sp)
  BY <1>1 DEF Shaped
<1>3. PICK p : p = Nearest(t, Key(e))
  OBVIOUS
<1>4. PICK d : d = IF Key(e) < Key(p) THEN 0 ELSE 1
  OBVIOUS
<1>5. /\ p \in Places /\ d \in Sides
      /\ p = Nil => LeafPlace(t, H, sp, p, d, e)
      /\ p # Nil /\ Key(p) # Key(e) => LeafPlace(t, H, sp, p, d, e)
      /\ (\E h \in H : Key(h) = Key(e)) <=> (p # Nil /\ Key(p) = Key(e))
  BY <1>1, <1>2, <1>3, <1>4, LeafPlaceIs
<1>6. PICK r0 : r0 = LeafOf(t, p, d, e)
  OBVIOUS
<1>7. r = IF p = Nil THEN InsertColor(r0, e) ELSE IF Key(p) = Key(e) THEN t
          ELSE InsertColor(r0, e)
  BY <1>3, <1>4, <1>6 DEF Inserted, LeafOf
<1>8. CASE p # Nil /\ Key(p) = Key(e)
  BY <1>5, <1>7, <1>8
<1>9. CASE ~(p # Nil /\ Key(p) = Key(e))
  <2>1. LeafPlace(t, H, sp, p, d, e) /\ r = InsertColor(r0, e)
    BY <1>5, <1>7, <1>9
  <2>2. t \in Trees
    BY <1>1, ShapedFacts
  <2>3. WithLeaf(t, r0, p, d, e)
    BY <1>5, <1>6, <2>2, LeafIs
  <2>4. InsertWay(r0, H \cup {e}, H \cup {e}, e)
    BY <1>2, <2>1, <2>3, LeafGrows
  <2>5. Good(r, H \cup {e})
    BY <2>1, <2>4, InsertColorIs DEF Good
  <2> QED
    BY <1>5, <1>9, <2>5
<1> QED
  BY <1>8, <1>9

-----------------------------------------------------------------------------
(* RB_REMOVE_COLOR().                                                      *)

\* The numbers of blacks at an entry and at a kid.
LEMMA HeightAt ==
  ASSUME NEW t, NEW H, NEW K, Shaped(t, H, K), NEW b, NEW q, NEW d, Heights(t, H, b, q, d),
         NEW x \in H, NEW s \in Sides, NEW k, k = t.kid[x][s]
  PROVE  /\ b[x] \in Nat /\ b[k] \in Nat /\ Weight(t, x) \in {0, 1}
         /\ x = q /\ s = d => b[x] = b[k] + Weight(t, x) + 1
         /\ ~(x = q /\ s = d) => b[x] = b[k] + Weight(t, x)
<1>1. k \in H \cup {Nil}
  BY KidIs
<1>2. k \in Places /\ x \in Places
  BY <1>1, ShapedFacts DEF Places
<1>3. b[x] \in Nat /\ b[k] \in Nat /\ Weight(t, x) \in {0, 1}
  BY <1>2 DEF Heights, Weight
<1>4. b[x] = b[k] + Weight(t, x) + IF x = q /\ s = d THEN 1 ELSE 0
  BY DEF Heights
<1>5. CASE x = q /\ s = d
  BY <1>3, <1>4, <1>5
<1>6. CASE ~(x = q /\ s = d)
  <2>1. b[x] = b[k] + Weight(t, x) + 0
    BY <1>4, <1>6
  <2> QED
    BY <1>3, <1>6, <2>1
<1> QED
  BY <1>3, <1>5, <1>6

\* Side d of p, where e is, is one short, and e is black.
Short(t, H, K, p, d, e) ==
  /\ Sound(t, H, K, p, d) /\ p \in H /\ d \in Sides /\ t.kid[p][d] = e
  /\ e \notin t.red /\ RedsApart(t, H, {}, {})

\* There is something beside e.
LEMMA ShortIs ==
  ASSUME NEW t, NEW H, NEW K, NEW p, NEW d, NEW e, Short(t, H, K, p, d, e)
  PROVE  /\ Shaped(t, H, K) /\ e # t.root /\ SideOf(t, p, e) = d /\ d \in Sides
         /\ \E w, o : Kid(t, H, p, o, w) /\ o = 1 - d /\ w # e
<1>1. /\ Shaped(t, H, K) /\ p \in H /\ d \in Sides /\ t.kid[p][d] = e
  BY DEF Short, Sound
<1>2. PICK b : Heights(t, H, b, p, d)
  BY DEF Short, Sound
<1>3. PICK w, o : w = t.kid[p][o] /\ o = 1 - d
  OBVIOUS
<1>4. o \in Sides /\ o # d
  BY <1>1, <1>3, OnFacts
<1>5. b[p] = b[e] + Weight(t, p) + 1 /\ b[e] \in Nat /\ Weight(t, p) \in {0, 1}
  BY <1>1, <1>2, HeightAt
<1>6. b[p] = b[w] + Weight(t, p) /\ b[w] \in Nat
  BY <1>1, <1>2, <1>3, <1>4, HeightAt
<1>7. b[w] = b[e] + 1 /\ b[w] # b[e] /\ b[w] # 0
  BY <1>5, <1>6
<1>8. w # Nil /\ w # e
  BY <1>2, <1>7 DEF Heights
<1>9. Kid(t, H, p, o, w)
  BY <1>1, <1>3, <1>4, <1>8, KidIs
<1>10. SideOf(t, p, e) = d
  BY <1>1, <1>3, <1>8 DEF SideOf, Sides
<1>11. e # t.root
  <2>1. CASE e = Nil
    <3>1. PICK sp : Spans(t, H, sp) /\ Linked(t, H)
      BY <1>1 DEF Shaped
    <3> QED
      BY <1>1, <2>1, <3>1, ShapedFacts, SpanFacts
  <2>2. CASE e # Nil
    <3>1. Kid(t, H, p, d, e)
      BY <1>1, <2>2, KidIs
    <3> QED
      BY <1>1, <3>1, KidFacts
  <2> QED
    BY <2>1, <2>2
<1> QED
  BY <1>1, <1>3, <1>8, <1>9, <1>10, <1>11

\* And what is there, w on side o, is black.
Sibling(t, H, K, p, d, e, o, w) ==
  /\ Short(t, H, K, p, d, e) /\ Kid(t, H, p, o, w) /\ o = 1 - d
  /\ w \notin t.red /\ w # e

\* The kids of a red one are black.
LEMMA RedKids ==
  ASSUME NEW t, NEW H, NEW K, Shaped(t, H, K), RedsApart(t, H, {}, {}),
         NEW x \in H, x \in t.red, NEW s \in Sides
  PROVE  t.kid[x][s] \notin t.red
<1>1. PICK k : k = t.kid[x][s]
  OBVIOUS
<1>2. CASE k = Nil
  BY <1>1, <1>2, ShapedFacts
<1>3. CASE k # Nil
  <2>1. Kid(t, H, x, s, k)
    BY <1>1, <1>3, KidIs
  <2>2. k \in H /\ t.parent[k] = x
    BY <2>1, KidFacts
  <2> QED
    BY <1>1, <2>2 DEF RedsApart
<1> QED
  BY <1>2, <1>3

\* A red one beside goes up, black, and leaves a black one beside.
LEMMA BlackBesideIs ==
  ASSUME NEW t, NEW H, NEW K, NEW p, NEW d, NEW e, Short(t, H, K, p, d, e),
         NEW r, r = BlackBeside(t, p, d)
  PROVE  /\ \E w, o : Sibling(r, H, K, p, d, e, o, w)
         /\ r = t \/ p \in r.red
<1>1. /\ Shaped(t, H, K) /\ d \in Sides /\ p \in H /\ t.kid[p][d] = e /\ e \notin t.red
      /\ RedsApart(t, H, {}, {}) /\ Sound(t, H, K, p, d)
  BY ShortIs DEF Short
<1>2. PICK w, o : Kid(t, H, p, o, w) /\ o = 1 - d /\ w # e
  BY ShortIs
<1>3. w = t.kid[p][1 - d]
  BY <1>2 DEF Kid
<1>4. CASE w \notin t.red
  <2>1. r = t
    BY <1>3, <1>4 DEF BlackBeside, IsRed
  <2>2. Sibling(t, H, K, p, d, e, o, w)
    BY <1>2, <1>4 DEF Sibling
  <2> QED
    BY <2>1, <2>2
<1>5. CASE w \in t.red
  <2>1. PICK t2 : t2 = Paint(t, {w}, {p})
    OBVIOUS
  <2>2. r = Rotate(t2, p, d)
    BY <1>3, <1>5, <2>1 DEF BlackBeside, IsRed
  <2>3. Recolored(t, t2) /\ t2.red = (t.red \ {w}) \cup {p}
    <3>1. {p} \subseteq Entries
      BY <1>1, ShapedFacts
    <3> QED
      BY <1>1, <2>1, <3>1, PaintRecolors
  <2>4. /\ w \in H /\ w # p /\ o \in Sides /\ t.parent[w] = p /\ w # Nil /\ p # Nil
        /\ o # d
    BY <1>1, <1>2, KidFacts
  <2>5. p \notin t.red
    BY <1>1, <1>5, <2>4 DEF RedsApart
  <2>6. Swapped(t, t2, H, p, w)
    BY <2>3, <2>5 DEF Swapped
  <2>7. Turning(t, H, p, d, w) /\ Recolored(t, t2) /\ p # w
    BY <1>1, <1>2, <2>3, <2>4 DEF Turning
  <2>8. Sound(r, H, K, p, d) /\ r.red = t2.red /\ Turned(t, t2, r, H, p, d, w)
    BY <1>1, <1>5, <2>2, <2>6, <2>7, TurnKeeps
  <2>9. r.red = (t.red \ {w}) \cup {p}
    BY <2>3, <2>8
  <2>10. PICK inner, g : /\ Pivot(t, H, p, d, w, inner, g)
                         /\ Rotated(t2, r, p, d, w, inner, g)
                         /\ NewParents(t, r, H, p, w, inner, g)
    BY <2>8 DEF Turned
  <2>11. /\ inner \in H \cup {Nil} /\ inner = t.kid[w][d] /\ inner # w /\ inner # p
         /\ g # p /\ g # w /\ g = t.parent[p] /\ (inner # Nil => t.parent[inner] = w)
    BY <2>10 DEF Pivot
  <2>12. r.kid[p][d] = e /\ r.kid[p][1 - d] = inner
    <3>1. \A x \in Entries, a \in Sides : r.kid[x][a] =
            IF x = p /\ a = 1 - d THEN inner
            ELSE IF x = w /\ a = d THEN p
            ELSE IF x = g /\ a = SideOf(t2, g, p) THEN w
            ELSE t.kid[x][a]
      BY <2>3, <2>10 DEF Rotated, Recolored
    <3>2. p \in Entries /\ 1 - d \in Sides /\ 1 - d # d
      BY <1>1, ShapedFacts, OnFacts
    <3>3. r.kid[p][1 - d] = inner
      BY <3>1, <3>2
    <3>4. r.kid[p][d] = t.kid[p][d]
      BY <1>1, <2>4, <2>11, <3>1, <3>2
    <3> QED
      BY <1>1, <3>3, <3>4
  <2>13. inner \notin t.red
    BY <1>1, <1>5, <2>4, <2>11, RedKids
  <2>14. e \notin r.red /\ inner \notin r.red /\ p \in r.red
    <3>1. e # p
      BY <1>1, ShapedFacts, KidIs, KidFacts
    <3> QED
      BY <1>1, <2>9, <2>11, <2>13, <3>1
  <2>15. ASSUME NEW x \in H \cap r.red PROVE r.parent[x] # Nil /\ r.parent[x] \notin r.red
    <3>1. r.parent[x] = IF x = p THEN w ELSE IF x = w THEN g ELSE IF x = inner THEN p
                        ELSE t.parent[x]
      BY <2>10 DEF NewParents
    <3>2. x # w /\ x # inner
      BY <2>4, <2>9, <2>14, <2>15
    <3>3. CASE x = p
      BY <2>4, <2>9, <3>1, <3>3
    <3>4. CASE x # p
      <4>1. x \in t.red /\ r.parent[x] = t.parent[x]
        BY <2>9, <2>15, <3>1, <3>2, <3>4
      <4>2. t.parent[x] # Nil /\ t.parent[x] \notin t.red
        BY <1>1, <4>1 DEF RedsApart
      <4>3. t.parent[x] # p
        <5> SUFFICES ASSUME t.parent[x] = p PROVE FALSE
          OBVIOUS
        <5>1. Kid(t, H, p, SideOf(t, p, x), x)
          BY <1>1, <2>4, ParentIs
        <5>2. SideOf(t, p, x) = d \/ SideOf(t, p, x) = o
          BY <1>1, <1>2, <5>1 DEF Kid, Sides
        <5>3. x = e \/ x = w
          BY <1>1, <1>2, <5>1, <5>2 DEF Kid
        <5> QED
          BY <1>1, <3>2, <4>1, <5>3
      <4> QED
        BY <2>9, <4>1, <4>2, <4>3
    <3> QED
      BY <3>3, <3>4
  <2>16. Short(r, H, K, p, d, e)
    BY <1>1, <2>8, <2>12, <2>14, <2>15 DEF Short, RedsApart
  <2>17. PICK w2, o2 : Kid(r, H, p, o2, w2) /\ o2 = 1 - d /\ w2 # e
    BY <2>16, ShortIs
  <2>18. w2 = inner
    BY <2>12, <2>17 DEF Kid
  <2>19. Sibling(r, H, K, p, d, e, o2, w2)
    BY <2>14, <2>16, <2>17, <2>18 DEF Sibling
  <2> QED
    BY <2>14, <2>19
<1> QED
  BY <1>4, <1>5

\* What RB_REMOVE_COLOR() has after a turn that goes on: p may be red, and so
\* may kids of it; one more black is missing above it.
Shorter(t, H, K, p2, p) ==
  /\ RedsApart(t, H, {p}, {p})
  /\ \/ p2 = Nil /\ p = t.root /\ Sound(t, H, K, Nil, 0)
     \/ p2 # Nil /\ \E d \in Sides : Kid(t, H, p2, d, p) /\ Sound(t, H, K, p2, d)

\* With black kids, w becomes red: p is one short on both sides.
BlackKids(t, w) == \A s \in Sides : t.kid[w][s] \notin t.red
Reddened(t, w) == Paint(t, {}, {w})
LEMMA RecolorIs ==
  ASSUME NEW t, NEW H, NEW K, NEW p, NEW d, NEW e, NEW o, NEW w,
         Sibling(t, H, K, p, d, e, o, w), BlackKids(t, w), NEW r, r = Reddened(t, w)
  PROVE  Shorter(r, H, K, r.parent[p], p) /\ Recolored(t, r) /\ r.red = t.red \cup {w}
<1>1. /\ Shaped(t, H, K) /\ d \in Sides /\ p \in H /\ t.kid[p][d] = e /\ e \notin t.red
      /\ RedsApart(t, H, {}, {}) /\ Sound(t, H, K, p, d) /\ p # Nil
  BY ShortIs, ShapedFacts DEF Short, Sibling
<1>2. /\ Kid(t, H, p, o, w) /\ o = 1 - d /\ w # e /\ w \notin t.red
  BY DEF Sibling
<1>3. /\ w \in H /\ w # p /\ o \in Sides /\ t.parent[w] = p /\ w # Nil /\ o # d
      /\ t.kid[p][o] = w
  BY <1>1, <1>2, KidFacts
<1>4. PICK b : Heights(t, H, b, p, d)
  BY <1>1 DEF Sound
<1>5. Recolored(t, r) /\ r.red = t.red \cup {w}
  <2>1. {w} \subseteq Entries
    BY <1>1, <1>3, ShapedFacts
  <2>2. Recolored(t, r) /\ r.red = (t.red \ {}) \cup {w}
    <3>1. r = Paint(t, {}, {w})
      BY DEF Reddened
    <3> QED
      BY <1>1, <2>1, <3>1, PaintRecolors
  <2> QED
    BY <2>2
<1>6. Shaped(r, H, K) /\ r.kid = t.kid /\ r.parent = t.parent /\ r.root = t.root
  BY <1>1, <1>5, RecoloredKeeps DEF Recolored
<1>7. PICK g, a : g = t.parent[p] /\ a = SideOf(t, g, p)
  OBVIOUS
<1>8. g = Nil <=> p = t.root
  <2>1. PICK sp : Linked(t, H) /\ Spans(t, H, sp)
    BY <1>1 DEF Shaped
  <2> QED
    BY <1>1, <1>7, <2>1, KidSides
<1>9. g # Nil => g \in H /\ Kid(t, H, g, a, p)
  BY <1>1, <1>7, ParentIs
<1>10. \A x \in H \cup {Nil} : x \in Places /\ b[x] \in Nat
  <2>1. \A x \in H \cup {Nil} : x \in Places
    BY <1>1, ShapedFacts DEF Places
  <2> QED
    BY <1>4, <2>1 DEF Heights
<1>11. /\ b[w] = b[t.kid[w][0]] + 1 /\ b[p] = b[w] + Weight(t, p)
       /\ b[p] = b[e] + Weight(t, p) + 1 /\ Weight(t, p) \in {0, 1} /\ 0 \in Sides
  <2>1. Weight(t, w) = 1 /\ 0 \in Sides
    BY <1>2 DEF Weight, Sides
  <2>2. b[w] = b[t.kid[w][0]] + Weight(t, w)
    BY <1>1, <1>3, <1>4, <2>1, HeightAt
  <2>3. b[p] = b[w] + Weight(t, p)
    BY <1>1, <1>3, <1>4, HeightAt
  <2>4. b[p] = b[e] + Weight(t, p) + 1 /\ Weight(t, p) \in {0, 1}
    BY <1>1, <1>4, HeightAt
  <2> QED
    BY <2>1, <2>2, <2>3, <2>4
<1>12. b[w] - 1 \in Nat /\ b[p] - 1 \in Nat /\ b[w] = b[e] + 1
  <2>1. b[w] \in Nat /\ b[p] \in Nat /\ b[e] \in Nat
    BY <1>1, <1>3, <1>4, <1>10, HeightAt
  <2> QED
    BY <1>11, <2>1
<1> DEFINE b2 == [x \in Places |-> IF x = p \/ x = w THEN b[x] - 1 ELSE b[x]]
<1>13. b2 \in [Places -> Nat] /\ b2[Nil] = 0
  BY <1>1, <1>3, <1>4, <1>10, <1>12 DEF Heights
<1>14. \A x \in H \cup {Nil} : b2[x] = IF x = p \/ x = w THEN b[x] - 1 ELSE b[x]
  BY <1>10
<1> HIDE DEF b2
<1>15. ASSUME NEW x \in H, NEW s \in Sides
       PROVE  b2[x] = b2[r.kid[x][s]] + Weight(r, x) + IF x = g /\ s = a THEN 1 ELSE 0
  <2>1. PICK k : k = t.kid[x][s] /\ k = r.kid[x][s]
    BY <1>6
  <2>2. k \in H \cup {Nil} /\ (k # Nil => Kid(t, H, x, s, k))
    <3>1. k = t.kid[x][s]
      BY <2>1
    <3> QED
      BY <1>1, <3>1, KidIs
  <2>3. /\ b[x] \in Nat /\ b[k] \in Nat /\ Weight(t, x) \in {0, 1}
        /\ x = p /\ s = d => b[x] = b[k] + Weight(t, x) + 1
        /\ ~(x = p /\ s = d) => b[x] = b[k] + Weight(t, x)
    <3>1. k = t.kid[x][s]
      BY <2>1
    <3> QED
      BY <1>1, <1>4, <3>1, HeightAt
  <2>4. k # Nil => t.parent[k] = x /\ SideOf(t, x, k) = s /\ k # x
    BY <1>1, <2>2, KidFacts
  <2>5. PICK z : z = IF x = g /\ s = a THEN 1 ELSE 0
    OBVIOUS
  <2>6. b2[x] = b2[k] + Weight(r, x) + z
    <3>1. CASE x = p
      <4>1. x # g /\ z = 0
        <5>1. g # Nil => g # p
          BY <1>1, <1>9, KidFacts
        <5> QED
          BY <1>1, <2>5, <3>1, <5>1
      <4>2. Weight(r, x) = Weight(t, x) /\ b2[x] = b[x] - 1
        BY <1>3, <1>5, <1>14, <3>1 DEF Weight
      <4>3. CASE s = d
        <5>1. k = e /\ k # p /\ k # w
          BY <1>1, <1>2, <2>1, <2>4, <3>1, <4>3
        <5>2. b2[k] = b[k]
          BY <1>14, <2>2, <5>1
        <5>3. b[x] = b[k] + Weight(t, x) + 1
          BY <2>3, <3>1, <4>3
        <5> QED
          BY <2>3, <4>1, <4>2, <5>2, <5>3
      <4>4. CASE s # d
        <5>1. k = w
          BY <1>1, <1>3, <2>1, <3>1, <4>4 DEF Sides
        <5>2. b2[k] = b[k] - 1
          BY <1>3, <1>14, <5>1
        <5>3. b[x] = b[k] + Weight(t, x)
          BY <2>3, <4>4
        <5> QED
          BY <2>3, <4>1, <4>2, <5>2, <5>3
      <4> QED
        BY <4>3, <4>4
    <3>2. CASE x = w
      <4>1. z = 0
        <5>1. g # w
          <6> SUFFICES ASSUME g = w PROVE FALSE
            OBVIOUS
          <6>1. Kid(t, H, w, a, p)
            BY <1>3, <1>9
          <6>2. PICK sp : Spans(t, H, sp)
            BY <1>1 DEF Shaped
          <6> QED
            BY <1>1, <1>2, <6>1, <6>2, GrandparentSpans
        <5> QED
          BY <2>5, <3>2, <5>1
      <4>2. Weight(r, x) = 0 /\ Weight(t, x) = 1 /\ b2[x] = b[x] - 1
        BY <1>2, <1>3, <1>5, <1>14, <3>2 DEF Weight
      <4>3. k # w /\ k # p
        <5>1. k = p => t.parent[p] = w /\ Kid(t, H, w, s, p)
          BY <1>1, <2>2, <2>4, <3>2
        <5>2. PICK sp : Spans(t, H, sp)
          BY <1>1 DEF Shaped
        <5>3. ~Kid(t, H, w, s, p)
          BY <1>1, <1>2, <5>2, GrandparentSpans
        <5> QED
          BY <1>3, <2>4, <3>2, <5>1, <5>3
      <4>4. b2[k] = b[k] /\ b[x] = b[k] + Weight(t, x)
        BY <1>3, <1>14, <2>2, <2>3, <3>2, <4>3
      <4> QED
        BY <2>3, <4>1, <4>2, <4>4
    <3>3. CASE x # p /\ x # w
      <4>1. Weight(r, x) = Weight(t, x) /\ b2[x] = b[x] /\ b[x] = b[k] + Weight(t, x)
        BY <1>5, <1>14, <2>3, <3>3 DEF Weight
      <4>2. k # w
        BY <1>3, <2>4, <3>3
      <4>3. CASE k = p
        <5>1. x = g /\ s = a
          BY <1>1, <1>7, <2>4, <4>3
        <5>2. z = 1 /\ b2[k] = b[k] - 1
          BY <1>1, <1>14, <2>5, <4>3, <5>1
        <5> QED
          BY <2>3, <4>1, <5>2
      <4>4. CASE k # p
        <5>1. z = 0
          <6>1. x = g /\ s = a => t.kid[g][a] = p
            BY <1>1, <1>9, ShapedFacts DEF Kid
          <6> QED
            BY <2>1, <2>5, <4>4, <6>1
        <5>2. b2[k] = b[k]
          BY <1>14, <2>2, <4>2, <4>4
        <5> QED
          BY <2>3, <4>1, <5>1, <5>2
      <4> QED
        BY <4>3, <4>4
    <3> QED
      BY <3>1, <3>2, <3>3
  <2> QED
    BY <2>1, <2>5, <2>6
<1>16. Heights(r, H, b2, g, a)
  BY <1>13, <1>15 DEF Heights
<1>17. RedsApart(r, H, {p}, {p})
  <2> SUFFICES ASSUME NEW x \in H, x \in r.red, x # p
               PROVE  t.parent[x] # Nil /\ (t.parent[x] \in r.red => t.parent[x] = p)
    BY <1>6 DEF RedsApart
  <2>1. CASE x = w
    BY <1>1, <1>3, <2>1
  <2>2. CASE x # w
    <3>1. x \in t.red
      BY <1>5, <2>2
    <3>2. t.parent[x] # Nil /\ t.parent[x] \notin t.red
      BY <1>1, <3>1 DEF RedsApart
    <3>3. t.parent[x] # w
      <4> SUFFICES ASSUME t.parent[x] = w PROVE FALSE
        OBVIOUS
      <4>1. Kid(t, H, w, SideOf(t, w, x), x)
        BY <1>1, <1>3, ParentIs
      <4> QED
        BY <3>1, <4>1 DEF Kid, BlackKids
    <3> QED
      BY <1>5, <3>2, <3>3
  <2> QED
    BY <2>1, <2>2
<1>18. CASE g = Nil
  <2>1. Heights(r, H, b2, Nil, 0)
    <3>1. \A x \in H : x # Nil
      BY <1>1, ShapedFacts
    <3> QED
      BY <1>16, <1>18, <3>1 DEF Heights
  <2>2. Sound(r, H, K, Nil, 0) /\ p = r.root /\ r.parent[p] = Nil
    BY <1>6, <1>7, <1>8, <1>18, <2>1 DEF Sound
  <2> QED
    BY <1>5, <1>17, <2>2 DEF Shorter
<1>19. CASE g # Nil
  <2>1. Sound(r, H, K, g, a) /\ r.parent[p] = g
    BY <1>6, <1>7, <1>16 DEF Sound
  <2>2. Kid(r, H, g, a, p) /\ a \in Sides
    BY <1>1, <1>5, <1>9, <1>19, RecoloredKeeps, KidFacts
  <2> QED
    BY <1>5, <1>17, <1>19, <2>1, <2>2 DEF Shorter
<1> QED
  BY <1>18, <1>19

\* The outer kid of the one beside is red.
OuterRed(t, H, K, p, d, e, o, w) ==
  Sibling(t, H, K, p, d, e, o, w) /\ t.kid[w][o] \in t.red

\* When only the inner kid is, that goes up, black, and w is red outside it.
LEMMA RedOutsideIs ==
  ASSUME NEW t, NEW H, NEW K, NEW p, NEW d, NEW e, NEW o, NEW w,
         Sibling(t, H, K, p, d, e, o, w), \E s \in Sides : t.kid[w][s] \in t.red,
         NEW r, r = RedOutside(t, w, d)
  PROVE  \E w2 : OuterRed(r, H, K, p, d, e, o, w2)
<1>1. /\ Shaped(t, H, K) /\ d \in Sides /\ p \in H /\ t.kid[p][d] = e /\ e \notin t.red
      /\ RedsApart(t, H, {}, {}) /\ Sound(t, H, K, p, d) /\ p # Nil
  BY ShortIs, ShapedFacts DEF Short, Sibling
<1>2. /\ Kid(t, H, p, o, w) /\ o = 1 - d /\ w # e /\ w \notin t.red
  BY DEF Sibling
<1>3. /\ w \in H /\ w # p /\ o \in Sides /\ t.parent[w] = p /\ w # Nil /\ o # d
      /\ t.kid[p][o] = w /\ SideOf(t, p, w) = o
  BY <1>1, <1>2, KidFacts
<1>4. CASE t.kid[w][o] \in t.red
  <2>1. r = t
    BY <1>2, <1>4 DEF RedOutside, IsRed
  <2> QED
    BY <1>4, <2>1 DEF OuterRed
<1>5. CASE t.kid[w][o] \notin t.red
  <2>1. PICK near : near = t.kid[w][d]
    OBVIOUS
  <2>2. near \in t.red
    BY <1>1, <1>3, <1>5, <2>1 DEF Sides
  <2>3. Kid(t, H, w, d, near)
    <3>1. near # Nil
      BY <1>1, <2>2, ShapedFacts
    <3> QED
      BY <1>1, <1>3, <2>1, <3>1, KidIs
  <2>4. near \in H /\ t.parent[near] = w /\ near # w /\ near # Nil
    BY <1>1, <2>3, KidFacts
  <2>5. PICK t2 : t2 = Paint(t, {near}, {w})
    OBVIOUS
  <2>6. r = Rotate(t2, w, o)
    BY <1>2, <1>5, <2>1, <2>5 DEF RedOutside, IsRed
  <2>7. Recolored(t, t2) /\ t2.red = (t.red \ {near}) \cup {w}
    <3>1. {w} \subseteq Entries
      BY <1>1, <1>3, ShapedFacts
    <3> QED
      BY <1>1, <2>5, <3>1, PaintRecolors
  <2>8. Swapped(t, t2, H, w, near)
    BY <1>2, <2>4, <2>7 DEF Swapped
  <2>9. d = 1 - o
    BY <1>1, <1>2, OnFacts
  <2>10. Turning(t, H, w, o, near) /\ Recolored(t, t2) /\ p # near
    <3>1. p # near
      <4> SUFFICES ASSUME p = near PROVE FALSE
        OBVIOUS
      <4>1. Kid(t, H, w, d, p)
        BY <2>3
      <4>2. PICK sp : Spans(t, H, sp)
        BY <1>1 DEF Shaped
      <4> QED
        BY <1>1, <1>2, <4>1, <4>2, GrandparentSpans
    <3> QED
      BY <1>3, <2>3, <2>7, <2>9, <3>1 DEF Turning
  <2>11. Sound(r, H, K, p, d) /\ r.red = t2.red /\ Turned(t, t2, r, H, w, o, near)
    <3>1. p = w => d = o
      BY <1>3
    <3>2. Sound(t, H, K, p, d) /\ d \in Sides
      BY <1>1
    <3> QED
      BY <2>2, <2>6, <2>8, <2>10, <3>1, <3>2, TurnKeeps
  <2>12. r.red = (t.red \ {near}) \cup {w}
    BY <2>7, <2>11
  <2>13. PICK inner, g : /\ Pivot(t, H, w, o, near, inner, g)
                         /\ Rotated(t2, r, w, o, near, inner, g)
                         /\ NewParents(t, r, H, w, near, inner, g)
    BY <2>11 DEF Turned
  <2>14. /\ inner \in H \cup {Nil} /\ inner = t.kid[near][o] /\ inner # near /\ inner # w
         /\ g # near /\ g # w /\ g = p /\ (inner # Nil => t.parent[inner] = near)
    BY <1>3, <2>13 DEF Pivot
  <2>15. r.kid[p][d] = e /\ r.kid[p][o] = near /\ r.kid[near][o] = w
    <3>1. \A x \in Entries, a \in Sides : r.kid[x][a] =
            IF x = w /\ a = 1 - o THEN inner
            ELSE IF x = near /\ a = o THEN w
            ELSE IF x = p /\ a = o THEN near
            ELSE t.kid[x][a]
      <4>1. SideOf(t2, g, w) = o
        BY <1>3, <2>7, <2>14 DEF Recolored, SideOf
      <4> QED
        BY <2>7, <2>13, <2>14, <4>1 DEF Rotated, Recolored
    <3>2. p \in Entries /\ near \in Entries
      BY <1>1, <2>4, ShapedFacts
    <3>3. r.kid[near][o] = w
      BY <1>3, <2>4, <3>1, <3>2
    <3>4. r.kid[p][o] = near
      BY <1>3, <2>10, <3>1, <3>2
    <3>5. r.kid[p][d] = t.kid[p][d]
      BY <1>1, <1>3, <2>10, <3>1, <3>2
    <3> QED
      BY <1>1, <3>3, <3>4, <3>5
  <2>16. inner \notin t.red
    BY <1>1, <1>3, <2>2, <2>4, <2>14, RedKids
  <2>17. e \notin r.red /\ inner \notin r.red /\ near \notin r.red /\ w \in r.red
    BY <1>1, <1>2, <2>4, <2>12, <2>14, <2>16
  <2>18. ASSUME NEW x \in H \cap r.red PROVE r.parent[x] # Nil /\ r.parent[x] \notin r.red
    <3>1. r.parent[x] = IF x = w THEN near ELSE IF x = near THEN p ELSE IF x = inner THEN w
                        ELSE t.parent[x]
      BY <2>13, <2>14 DEF NewParents
    <3>2. x # near /\ x # inner
      BY <2>17, <2>18
    <3>3. CASE x = w
      BY <2>4, <2>17, <3>1, <3>3
    <3>4. CASE x # w
      <4>1. x \in t.red /\ r.parent[x] = t.parent[x]
        BY <2>12, <2>18, <3>1, <3>2, <3>4
      <4>2. t.parent[x] # Nil /\ t.parent[x] \notin t.red
        BY <1>1, <4>1 DEF RedsApart
      <4>3. t.parent[x] # w
        <5> SUFFICES ASSUME t.parent[x] = w PROVE FALSE
          OBVIOUS
        <5>1. Kid(t, H, w, SideOf(t, w, x), x)
          BY <1>1, <1>3, ParentIs
        <5>2. SideOf(t, w, x) = d \/ SideOf(t, w, x) = o
          BY <1>1, <1>3, <5>1 DEF Kid, Sides
        <5>3. x = near \/ x = t.kid[w][o]
          BY <2>1, <5>1, <5>2 DEF Kid
        <5> QED
          BY <1>5, <3>2, <4>1, <5>3
      <4> QED
        BY <2>12, <4>1, <4>2, <4>3
    <3> QED
      BY <3>3, <3>4
  <2>19. Short(r, H, K, p, d, e)
    BY <1>1, <2>11, <2>15, <2>17, <2>18 DEF Short, RedsApart
  <2>20. Kid(r, H, p, o, near) /\ near # e
    BY <1>1, <1>3, <2>2, <2>4, <2>15 DEF Kid
  <2>21. Sibling(r, H, K, p, d, e, o, near)
    BY <1>2, <2>17, <2>19, <2>20 DEF Sibling
  <2>22. OuterRed(r, H, K, p, d, e, o, near)
    BY <2>15, <2>17, <2>21 DEF OuterRed
  <2> QED
    BY <2>22
<1> QED
  BY <1>4, <1>5

\* The one beside goes up with the colour of p, which with the outer kid is
\* black: what was short is filled.
LEMMA FilledIs ==
  ASSUME NEW t, NEW H, NEW K, NEW p, NEW d, NEW e, NEW o, NEW w,
         OuterRed(t, H, K, p, d, e, o, w), NEW r, r = Filled(t, p, d, w)
  PROVE  Sound(r, H, K, Nil, 0) /\ RedsApart(r, H, {}, {})
<1>1. /\ Shaped(t, H, K) /\ d \in Sides /\ p \in H /\ t.kid[p][d] = e /\ e \notin t.red
      /\ RedsApart(t, H, {}, {}) /\ p # Nil
  BY ShortIs, ShapedFacts DEF Short, Sibling, OuterRed
<1>2. Kid(t, H, p, o, w) /\ o = 1 - d /\ w # e /\ w \notin t.red
  BY DEF Sibling, OuterRed
<1>3. /\ w \in H /\ w # p /\ o \in Sides /\ t.parent[w] = p /\ w # Nil /\ o # d
      /\ t.kid[p][o] = w
  BY <1>1, <1>2, KidFacts
<1>4. PICK outer : outer = t.kid[w][o] /\ outer \in t.red
  BY DEF OuterRed
<1>5. Kid(t, H, w, o, outer)
  <2>1. outer # Nil
    BY <1>1, <1>4, ShapedFacts
  <2> QED
    BY <1>1, <1>3, <1>4, <2>1, KidIs
<1>6. outer \in H /\ t.parent[outer] = w /\ outer # w /\ outer # Nil
  BY <1>1, <1>5, KidFacts
<1>7. outer # p
  <2>1. PICK sp : Spans(t, H, sp)
    BY <1>1 DEF Shaped
  <2> QED
    BY <1>1, <1>2, <1>5, <2>1, GrandparentSpans
<1>8. PICK t2 : t2 = IF p \in t.red THEN Paint(t, {p, outer}, {w})
                     ELSE Paint(t, {p, outer, w}, {})
  OBVIOUS
<1>9. r = Rotate(t2, p, d)
  BY <1>2, <1>4, <1>8 DEF Filled, IsRed
<1>10. /\ Recolored(t, t2)
       /\ \A x \in H : x \in t2.red <=>
            IF x = w THEN p \in t.red ELSE x \in t.red /\ x # p /\ x # outer
  <2>1. CASE p \in t.red
    <3>1. {w} \subseteq Entries
      BY <1>1, <1>3, ShapedFacts
    <3>2. Recolored(t, t2) /\ t2.red = (t.red \ {p, outer}) \cup {w}
      BY <1>1, <1>8, <2>1, <3>1, PaintRecolors
    <3> QED
      BY <2>1, <3>2
  <2>2. CASE p \notin t.red
    <3>4. PICK none : none = {}
      OBVIOUS
    <3>1. none = {} /\ none \subseteq Entries
      BY <3>4
    <3>2. t2 = Paint(t, {p, outer, w}, none)
      BY <1>8, <2>2, <3>1
    <3>3. Recolored(t, t2) /\ t2.red = (t.red \ {p, outer, w}) \cup none
      BY <1>1, <3>1, <3>2, PaintRecolors
    <3> QED
      BY <2>2, <3>1, <3>3
  <2> QED
    BY <2>1, <2>2
<1>11. Recolored(t, t2) /\ Turning(t, H, p, d, w)
  BY <1>1, <1>2, <1>10 DEF Turning
<1>12. Shaped(r, H, K) /\ r.red = t2.red /\ Turned(t, t2, r, H, p, d, w)
  BY <1>1, <1>9, <1>11, TurnShapes
<1>13. \A x \in H : x \in r.red <=>
         IF x = w THEN p \in t.red ELSE x \in t.red /\ x # p /\ x # outer
  BY <1>10, <1>12
<1>14. PICK inner, g : /\ Pivot(t, H, p, d, w, inner, g)
                       /\ Rotated(t2, r, p, d, w, inner, g)
                       /\ NewParents(t, r, H, p, w, inner, g)
  BY <1>12 DEF Turned
<1>15. /\ inner \in H \cup {Nil} /\ inner = t.kid[w][d] /\ inner # w /\ inner # p
       /\ g # w /\ g # p /\ g = t.parent[p] /\ (inner # Nil => t.parent[inner] = w)
       /\ g \in H \cup {Nil} /\ (g # Nil => t.kid[g][SideOf(t, g, p)] = p)
  BY <1>14 DEF Pivot
<1>16. ASSUME NEW x \in H, NEW a \in Sides
       PROVE  r.kid[x][a] = IF x = p /\ a = o THEN inner
                            ELSE IF x = w /\ a = d THEN p
                            ELSE IF x = g /\ a = SideOf(t, g, p) THEN w
                            ELSE t.kid[x][a]
  <2>1. SideOf(t2, g, p) = SideOf(t, g, p) /\ t2.kid = t.kid
    BY <1>11 DEF Recolored, SideOf
  <2>2. x \in Entries
    BY <1>1, ShapedFacts
  <2> QED
    BY <1>2, <1>14, <2>1, <2>2 DEF Rotated
<1>17. PICK b : Heights(t, H, b, p, d)
  BY DEF OuterRed, Sibling, Short, Sound
<1>18. \A x \in H \cup {Nil} : x \in Places /\ b[x] \in Nat
  <2>1. \A x \in H \cup {Nil} : x \in Places
    BY <1>1, ShapedFacts DEF Places
  <2> QED
    BY <1>17, <2>1 DEF Heights
<1>19. PICK v : v = Weight(t, p) /\ v \in {0, 1}
  BY DEF Weight
<1>20. PICK h : h = b[e] /\ h \in Nat
  BY <1>1, <1>17, HeightAt
<1>21. b[p] = h + v + 1 /\ b[w] = h + 1 /\ b[inner] = h /\ b[outer] = h
  <2>1. b[p] = b[e] + Weight(t, p) + 1
    BY <1>1, <1>17, HeightAt
  <2>2. b[p] = b[w] + Weight(t, p)
    BY <1>1, <1>3, <1>17, HeightAt
  <2>3. b[w] = b[inner] + Weight(t, w)
    BY <1>1, <1>3, <1>15, <1>17, HeightAt
  <2>4. b[w] = b[outer] + Weight(t, w)
    BY <1>1, <1>3, <1>4, <1>17, HeightAt
  <2>5. Weight(t, w) = 1
    BY <1>2 DEF Weight
  <2>6. b[p] \in Nat /\ b[w] \in Nat /\ b[inner] \in Nat /\ b[outer] \in Nat
    BY <1>1, <1>3, <1>6, <1>15, <1>18
  <2>7. b[p] = h + v + 1
    BY <1>19, <1>20, <2>1
  <2>8. b[p] = b[w] + v
    BY <1>19, <2>2
  <2>9. b[w] = h + 1
    BY <1>19, <1>20, <2>6, <2>7, <2>8
  <2>10. b[w] = b[inner] + 1 /\ b[w] = b[outer] + 1
    BY <2>3, <2>4, <2>5
  <2> QED
    BY <1>20, <2>6, <2>7, <2>9, <2>10
<1> DEFINE b2 == [x \in Places |-> IF x = w THEN h + v + 1
                                   ELSE IF x = p \/ x = outer THEN h + 1 ELSE b[x]]
<1>22. b2 \in [Places -> Nat] /\ b2[Nil] = 0
  BY <1>1, <1>3, <1>6, <1>17, <1>18, <1>19, <1>20 DEF Heights
<1>23. \A x \in H \cup {Nil} : b2[x] = IF x = w THEN h + v + 1
                                       ELSE IF x = p \/ x = outer THEN h + 1 ELSE b[x]
  BY <1>18
<1> HIDE DEF b2
<1>24. ASSUME NEW x \in H, NEW s \in Sides
       PROVE  b2[x] = b2[r.kid[x][s]] + Weight(r, x) + IF x = Nil /\ s = 0 THEN 1 ELSE 0
  <2>1. PICK k : k = t.kid[x][s]
    OBVIOUS
  <2>2. PICK m : m = r.kid[x][s]
    OBVIOUS
  <2>3. /\ b[x] \in Nat /\ b[k] \in Nat /\ Weight(t, x) \in {0, 1}
        /\ x = p /\ s = d => b[x] = b[k] + Weight(t, x) + 1
        /\ ~(x = p /\ s = d) => b[x] = b[k] + Weight(t, x)
    BY <1>1, <1>17, <2>1, HeightAt
  <2>4. k \in H \cup {Nil} /\ (k # Nil => Kid(t, H, x, s, k))
    BY <1>1, <2>1, KidIs
  <2>5. k # Nil => t.parent[k] = x /\ SideOf(t, x, k) = s /\ k # x
    BY <1>1, <2>4, KidFacts
  <2>6. (IF x = Nil /\ s = 0 THEN 1 ELSE 0) = 0
    BY <1>1, ShapedFacts
  <2>7. b2[m] \in Nat /\ b2[x] = b2[m] + Weight(r, x)
    <3>1. CASE x = p
      <4>1. Weight(r, x) = 1 /\ b2[x] = h + 1
        BY <1>3, <1>13, <1>23, <3>1 DEF Weight
      <4>2. CASE s = d
        <5>1. m = e
          BY <1>1, <1>3, <1>15, <1>16, <2>2, <3>1, <4>2
        <5>2. e # w /\ e # p /\ e # outer /\ e \in H \cup {Nil}
          BY <1>1, <1>2, <1>4, <2>1, <2>4, <2>5, <3>1, <4>2
        <5>3. b2[m] = h
          BY <1>20, <1>23, <5>1, <5>2
        <5> QED
          BY <1>20, <4>1, <5>3
      <4>3. CASE s # d
        <5>1. s = o
          BY <1>1, <1>3, <4>3 DEF Sides
        <5>2. m = inner
          BY <1>16, <2>2, <3>1, <5>1
        <5>3. inner # outer
          <6>1. t.kid[w][1 - o] # outer
            BY <1>1, <1>5, KidFacts
          <6> QED
            BY <1>1, <1>2, <1>15, <6>1, OnFacts
        <5>4. b2[m] = h
          BY <1>15, <1>21, <1>23, <5>2, <5>3
        <5> QED
          BY <1>20, <4>1, <5>4
      <4> QED
        BY <4>2, <4>3
    <3>2. CASE x = w
      <4>1. Weight(r, x) = v /\ b2[x] = h + v + 1
        BY <1>13, <1>19, <1>23, <3>2 DEF Weight
      <4>2. CASE s = d
        <5>1. m = p
          BY <1>3, <1>16, <2>2, <3>2, <4>2
        <5>2. b2[m] = h + 1
          BY <1>1, <1>3, <1>23, <5>1
        <5> QED
          BY <1>19, <1>20, <4>1, <5>2
      <4>3. CASE s # d
        <5>1. s = o
          BY <1>1, <1>3, <4>3 DEF Sides
        <5>2. m = outer
          BY <1>3, <1>4, <1>15, <1>16, <2>2, <3>2, <4>3, <5>1
        <5>3. b2[m] = h + 1
          BY <1>6, <1>23, <5>2
        <5> QED
          BY <1>19, <1>20, <4>1, <5>3
      <4> QED
        BY <4>2, <4>3
    <3>3. CASE x # p /\ x # w
      <4>1. CASE x = outer
        <5>1. Weight(r, x) = 1 /\ b2[x] = h + 1 /\ Weight(t, x) = 0
          BY <1>4, <1>6, <1>7, <1>13, <1>23, <4>1 DEF Weight
        <5>2. x # g
          <6> SUFFICES ASSUME x = g PROVE FALSE
            OBVIOUS
          <6>1. Kid(t, H, outer, SideOf(t, outer, p), p)
            BY <1>1, <1>6, <1>15, <4>1, ParentIs
          <6>2. Kid(t, H, w, o, outer) /\ Kid(t, H, p, o, w)
            BY <1>2, <1>5
          <6>3. PICK sp : Spans(t, H, sp)
            BY <1>1 DEF Shaped
          <6>4. Cardinality(sp[outer]) < Cardinality(sp[p])
            BY <1>1, <6>2, <6>3, GrandparentSpans
          <6>5. sp[p] \subseteq sp[outer] /\ Linked(t, H)
            BY <1>1, <6>1, <6>3, KidOf DEF Kid, Shaped
          <6>6. /\ Cardinality(sp[p]) <= Cardinality(sp[outer])
                /\ Cardinality(sp[p]) \in Int /\ Cardinality(sp[outer]) \in Int
            BY <1>1, <1>6, <6>3, <6>5, SpanSizes
          <6> QED
            BY <6>4, <6>6
        <5>3. m = k
          BY <1>16, <2>1, <2>2, <3>3, <5>2
        <5>4. k # w /\ k # p /\ k # outer
          BY <1>1, <1>3, <1>6, <1>15, <2>5, <3>3, <4>1, <5>2
        <5>5. b2[m] = b[k]
          BY <1>23, <2>4, <5>3, <5>4
        <5>6. b[x] = b[k]
          BY <2>3, <3>3, <5>1
        <5> QED
          BY <1>21, <2>3, <4>1, <5>1, <5>5, <5>6
      <4>2. CASE x # outer
        <5>1. Weight(r, x) = Weight(t, x) /\ b2[x] = b[x]
          BY <1>13, <1>23, <3>3, <4>2 DEF Weight
        <5>2. b[x] = b[k] + Weight(t, x)
          BY <2>3, <3>3
        <5>3. b2[m] = b[k]
          <6>1. CASE x = g /\ s = SideOf(t, g, p)
            <7>1. m = w /\ k = p
              <8>1. g # Nil
                BY <1>1, <6>1, ShapedFacts
              <8>2. t.kid[g][s] = p
                BY <1>15, <6>1, <8>1
              <8>3. k = p
                BY <2>1, <6>1, <8>2
              <8>4. m = w
                BY <1>16, <2>2, <3>3, <6>1
              <8> QED
                BY <8>3, <8>4
            <7> QED
              BY <1>3, <1>21, <1>23, <7>1
          <6>2. CASE ~(x = g /\ s = SideOf(t, g, p))
            <7>1. m = k
              BY <1>16, <2>1, <2>2, <3>3, <6>2
            <7>2. k # p /\ k # w /\ k # outer
              BY <1>1, <1>3, <1>6, <1>15, <2>5, <3>3, <6>2
            <7> QED
              BY <1>23, <2>4, <7>1, <7>2
          <6> QED
            BY <6>1, <6>2
        <5> QED
          BY <2>3, <5>1, <5>2, <5>3
      <4> QED
        BY <4>1, <4>2
    <3> QED
      BY <3>1, <3>2, <3>3
  <2>8. Weight(r, x) \in Nat
    BY DEF Weight
  <2> QED
    BY <2>2, <2>6, <2>7, <2>8
<1>25. Heights(r, H, b2, Nil, 0)
  BY <1>22, <1>24 DEF Heights
<1>26. ASSUME NEW x \in H \cap r.red PROVE r.parent[x] # Nil /\ r.parent[x] \notin r.red
  <2>1. r.parent[x] = IF x = p THEN w ELSE IF x = w THEN g ELSE IF x = inner THEN p
                      ELSE t.parent[x]
    BY <1>14 DEF NewParents
  <2>2. x # p /\ x # outer /\ p \notin r.red
    BY <1>1, <1>3, <1>6, <1>13, <1>26
  <2>3. CASE x = w
    <3>1. p \in t.red
      BY <1>13, <1>26, <2>3
    <3>2. g # Nil /\ g \notin t.red
      BY <1>1, <1>15, <3>1 DEF RedsApart
    <3>3. g \notin r.red
      BY <1>13, <1>15, <3>2
    <3> QED
      BY <1>3, <2>1, <2>3, <3>2, <3>3
  <2>4. CASE x = inner
    BY <1>1, <1>15, <2>1, <2>2, <2>4
  <2>5. CASE x # w /\ x # inner
    <3>1. x \in t.red /\ r.parent[x] = t.parent[x]
      BY <1>13, <1>26, <2>1, <2>2, <2>5
    <3>2. t.parent[x] # Nil /\ t.parent[x] \notin t.red
      BY <1>1, <3>1 DEF RedsApart
    <3>3. t.parent[x] \in H
      BY <1>1, <3>2, ParentIs
    <3>4. t.parent[x] # w
      <4> SUFFICES ASSUME t.parent[x] = w PROVE FALSE
        OBVIOUS
      <4>1. Kid(t, H, w, SideOf(t, w, x), x)
        BY <1>1, <1>3, ParentIs
      <4>2. SideOf(t, w, x) = d \/ SideOf(t, w, x) = o
        BY <1>1, <1>3, <4>1 DEF Kid, Sides
      <4>3. x = inner \/ x = outer
        BY <1>4, <1>15, <4>1, <4>2 DEF Kid
      <4> QED
        BY <2>2, <2>5, <4>3
    <3> QED
      BY <1>13, <3>1, <3>2, <3>3, <3>4
  <2> QED
    BY <2>3, <2>4, <2>5
<1>27. Sound(r, H, K, Nil, 0)
  BY <1>12, <1>25 DEF Sound
<1>28. RedsApart(r, H, {}, {})
  BY <1>26 DEF RedsApart
<1> QED
  BY <1>27, <1>28

\* What a turn makes of a tree that is short beside black e: the same above
\* it, or what is short is filled.
LEMMA RemoveTurnIs ==
  ASSUME NEW t, NEW H, NEW K, NEW p, NEW d, NEW e, Short(t, H, K, p, d, e)
  PROVE  \E t2, p2, e2 :
           /\ RemoveTurn(t, p, e) = <<t2, p2, e2>>
           /\ \/ /\ e2 = p /\ Shorter(t2, H, K, p2, p)
                 /\ Recolored(t, t2) \/ p \in t2.red
              \/ /\ p2 = p /\ e2 = t2.root
                 /\ Sound(t2, H, K, Nil, 0) /\ RedsApart(t2, H, {}, {})
<1>1. /\ Shaped(t, H, K) /\ d \in Sides /\ p \in H /\ e \notin t.red /\ e # t.root
      /\ SideOf(t, p, e) = d
  BY ShortIs DEF Short
<1>2. PICK t1 : t1 = BlackBeside(t, p, d)
  OBVIOUS
<1>3. PICK w, o : Sibling(t1, H, K, p, d, e, o, w)
  BY <1>2, BlackBesideIs
<1>4. t1 = t \/ p \in t1.red
  BY <1>2, BlackBesideIs
<1>5. /\ o = 1 - d /\ o \in Sides /\ t1.kid[p][1 - d] = w
      /\ Shaped(t1, H, K) /\ w \in H
  BY <1>3 DEF Sibling, Kid, Short, Sound
<1>6. PICK u : u = RedOutside(t1, w, d)
  OBVIOUS
<1>7. PICK done : done = Filled(u, p, d, u.kid[p][1 - d])
  OBVIOUS
<1>8. RemoveTurn(t, p, e) =
        IF t1.kid[w][d] \notin t1.red /\ t1.kid[w][1 - d] \notin t1.red
        THEN <<Paint(t1, {}, {w}), t1.parent[p], p>>
        ELSE <<done, p, done.root>>
  BY <1>1, <1>2, <1>5, <1>6, <1>7 DEF RemoveTurn, IsRed
<1>9. CASE t1.kid[w][d] \notin t1.red /\ t1.kid[w][1 - d] \notin t1.red
  <2>1. PICK r : r = Reddened(t1, w)
    OBVIOUS
  <2>2. BlackKids(t1, w)
    <3>1. \A s \in Sides : s = d \/ s = 1 - d
      BY <1>1 DEF Sides
    <3> QED
      BY <1>9, <3>1 DEF BlackKids
  <2>3. Shorter(r, H, K, r.parent[p], p) /\ Recolored(t1, r) /\ r.red = t1.red \cup {w}
    BY <1>3, <2>1, <2>2, RecolorIs
  <2>4. RemoveTurn(t, p, e) = <<r, r.parent[p], p>>
    BY <1>8, <1>9, <2>1, <2>3 DEF Recolored, Reddened
  <2>5. Recolored(t, r) \/ p \in r.red
    BY <1>4, <2>3
  <2> QED
    BY <2>3, <2>4, <2>5
<1>10. CASE ~(t1.kid[w][d] \notin t1.red /\ t1.kid[w][1 - d] \notin t1.red)
  <2>1. \E s \in Sides : t1.kid[w][s] \in t1.red
    BY <1>1, <1>5, <1>10
  <2>2. PICK w2 : OuterRed(u, H, K, p, d, e, o, w2)
    BY <1>3, <1>6, <2>1, RedOutsideIs
  <2>3. u.kid[p][1 - d] = w2
    BY <1>5, <2>2 DEF OuterRed, Sibling, Kid
  <2>4. done = Filled(u, p, d, w2)
    BY <1>7, <2>3
  <2>5. Sound(done, H, K, Nil, 0) /\ RedsApart(done, H, {}, {})
    BY <2>2, <2>4, FilledIs
  <2>6. RemoveTurn(t, p, e) = <<done, p, done.root>>
    BY <1>8, <1>10
  <2> QED
    BY <2>5, <2>6
<1> QED
  BY <1>9, <1>10

\* A red one becomes black: what is short above it is filled.
LEMMA RedBlackens ==
  ASSUME NEW t, NEW H, NEW K, NEW p, NEW d, NEW e, Sound(t, H, K, p, d),
         Kid(t, H, p, d, e), e \in t.red, NEW r, r = Paint(t, {e}, {})
  PROVE  Sound(r, H, K, Nil, 0) /\ r.parent = t.parent /\ r.red = t.red \ {e}
<1>1. Shaped(t, H, K)
  BY DEF Sound
<1>2. p \in H /\ e \in H /\ d \in Sides /\ e # p /\ t.parent[e] = p /\ t.kid[p][d] = e /\ e # Nil
  BY <1>1, KidFacts
<1>3. Recolored(t, r) /\ r.red = t.red \ {e}
  <2>1. PICK none : none = {}
    OBVIOUS
  <2>2. r = Paint(t, {e}, none) /\ none \subseteq Entries
    BY <2>1
  <2>3. Recolored(t, r) /\ r.red = (t.red \ {e}) \cup none
    BY <1>1, <2>2, PaintRecolors
  <2> QED
    BY <2>1, <2>3
<1>4. Shaped(r, H, K) /\ r.kid = t.kid /\ r.parent = t.parent
  BY <1>1, <1>3, RecoloredKeeps DEF Recolored
<1>5. PICK b : Heights(t, H, b, p, d)
  BY DEF Sound
<1>6. \A x \in H \cup {Nil} : x \in Places /\ b[x] \in Nat
  <2>1. \A x \in H \cup {Nil} : x \in Places
    BY <1>1, ShapedFacts DEF Places
  <2> QED
    BY <1>5, <2>1 DEF Heights
<1> DEFINE b2 == [x \in Places |-> IF x = e THEN b[x] + 1 ELSE b[x]]
<1>7. b2 \in [Places -> Nat] /\ b2[Nil] = 0
  BY <1>2, <1>5, <1>6 DEF Heights
<1>8. \A x \in H \cup {Nil} : b2[x] = IF x = e THEN b[x] + 1 ELSE b[x]
  BY <1>6
<1> HIDE DEF b2
<1>9. ASSUME NEW x \in H, NEW s \in Sides
      PROVE  b2[x] = b2[r.kid[x][s]] + Weight(r, x) + IF x = Nil /\ s = 0 THEN 1 ELSE 0
  <2>1. PICK k : k = t.kid[x][s]
    OBVIOUS
  <2>2. /\ b[x] \in Nat /\ b[k] \in Nat /\ Weight(t, x) \in {0, 1}
        /\ x = p /\ s = d => b[x] = b[k] + Weight(t, x) + 1
        /\ ~(x = p /\ s = d) => b[x] = b[k] + Weight(t, x)
    BY <1>1, <1>5, <2>1, HeightAt
  <2>3. k \in H \cup {Nil} /\ (k # Nil => Kid(t, H, x, s, k))
    BY <1>1, <2>1, KidIs
  <2>4. k # Nil => t.parent[k] = x /\ SideOf(t, x, k) = s /\ k # x
    BY <1>1, <2>3, KidFacts
  <2>5. (IF x = Nil /\ s = 0 THEN 1 ELSE 0) = 0
    BY <1>1, ShapedFacts
  <2>6. b2[x] = b2[k] + Weight(r, x) /\ b2[k] \in Nat /\ Weight(r, x) \in Nat
    <3>1. CASE x = e
      <4>1. Weight(r, x) = 1 /\ b2[x] = b[x] + 1 /\ Weight(t, x) = 0
        BY <1>2, <1>3, <1>8, <3>1 DEF Weight
      <4>2. b2[k] = b[k]
        BY <1>8, <2>3, <2>4, <1>2, <3>1
      <4>3. b[x] = b[k] + Weight(t, x)
        BY <1>2, <2>2, <3>1
      <4> QED
        BY <2>2, <4>1, <4>2, <4>3
    <3>2. CASE x # e
      <4>1. Weight(r, x) = Weight(t, x) /\ b2[x] = b[x]
        BY <1>3, <1>8, <3>2 DEF Weight
      <4>2. CASE x = p /\ s = d
        <5>1. k = e /\ b2[k] = b[k] + 1
          BY <1>2, <1>8, <2>1, <4>2
        <5>2. b[x] = b[k] + Weight(t, x) + 1
          BY <2>2, <4>2
        <5> QED
          BY <2>2, <4>1, <5>1, <5>2
      <4>3. CASE ~(x = p /\ s = d)
        <5>1. k # e
          <6>1. k = e => x = p /\ SideOf(t, p, e) = s
            BY <1>2, <2>4
          <6>2. SideOf(t, p, e) = d
            BY <1>1, KidFacts
          <6> QED
            BY <4>3, <6>1, <6>2
        <5>2. b2[k] = b[k] /\ b[x] = b[k] + Weight(t, x)
          BY <1>8, <2>2, <2>3, <4>3, <5>1
        <5> QED
          BY <2>2, <4>1, <5>2
      <4> QED
        BY <4>2, <4>3
    <3> QED
      BY <3>1, <3>2
  <2>7. r.kid[x][s] = k
    BY <1>4, <2>1
  <2> QED
    BY <2>5, <2>6, <2>7
<1>10. Heights(r, H, b2, Nil, 0)
  BY <1>7, <1>9 DEF Heights
<1> QED
  BY <1>3, <1>4, <1>10 DEF Sound

\* Where RB_REMOVE_COLOR() is: at the root, at a red one, which it makes
\* black, or at a black one.
RemoveEnds(t, H, K, p, e) ==
  /\ RedsApart(t, H, {e}, {e})
  /\ \/ e = t.root /\ Sound(t, H, K, Nil, 0)
     \/ e \in t.red /\ \E d \in Sides : Kid(t, H, p, d, e) /\ Sound(t, H, K, p, d)
RemoveWay(t, H, K, p, e) ==
  /\ Shaped(t, H, K) /\ p \in Places /\ e \in Places
  /\ RemoveEnds(t, H, K, p, e) \/ \E d \in Sides : Short(t, H, K, p, d, e)

LEMMA ShorterGoesOn ==
  ASSUME NEW t, NEW H, NEW K, NEW p, NEW e, e \in H, Shorter(t, H, K, p, e)
  PROVE  RemoveWay(t, H, K, p, e)
<1>1. Shaped(t, H, K) /\ p \in Places /\ e \in Places
  <2>1. Shaped(t, H, K) /\ (p = Nil \/ p \in H)
    BY DEF Shorter, Sound, Kid
  <2> QED
    BY <2>1, ShapedFacts DEF Places
<1>2. CASE p = Nil
  <2>1. RemoveEnds(t, H, K, p, e)
    BY <1>2 DEF Shorter, RemoveEnds
  <2> QED
    BY <1>1, <2>1 DEF RemoveWay
<1>3. CASE p # Nil
  <2>1. PICK d \in Sides : Kid(t, H, p, d, e) /\ Sound(t, H, K, p, d)
    BY <1>3 DEF Shorter
  <2>2. CASE e \in t.red
    <3>1. RemoveEnds(t, H, K, p, e)
      BY <2>1, <2>2 DEF Shorter, RemoveEnds
    <3> QED
      BY <1>1, <3>1 DEF RemoveWay
  <2>3. CASE e \notin t.red
    <3>1. RedsApart(t, H, {}, {})
      BY <2>3 DEF Shorter, RedsApart
    <3>2. Short(t, H, K, p, d, e)
      BY <2>1, <2>3, <3>1 DEF Short, Kid
    <3> QED
      BY <1>1, <3>2 DEF RemoveWay
  <2> QED
    BY <2>2, <2>3
<1> QED
  BY <1>2, <1>3

LEMMA RemoveBlackens ==
  ASSUME NEW t, NEW H, NEW K, NEW p, NEW e, RemoveEnds(t, H, K, p, e),
         NEW r, r = Paint(t, {e}, {})
  PROVE  Sound(r, H, K, Nil, 0) /\ RedsApart(r, H, {}, {})
<1>1. Sound(r, H, K, Nil, 0) /\ r.parent = t.parent /\ r.red = t.red \ {e}
  <2>1. CASE e = t.root /\ Sound(t, H, K, Nil, 0)
    <3>1. r = Paint(t, {t.root}, {})
      BY <2>1
    <3> QED
      BY <2>1, <3>1, RootBlackens
  <2>2. CASE e \in t.red /\ \E d \in Sides : Kid(t, H, p, d, e) /\ Sound(t, H, K, p, d)
    BY <2>2, RedBlackens
  <2> QED
    BY <2>1, <2>2 DEF RemoveEnds
<1>2. RedsApart(t, H, {e}, {e})
  BY DEF RemoveEnds
<1>3. RedsApart(r, H, {}, {})
  BY <1>1, <1>2 DEF RedsApart
<1> QED
  BY <1>1, <1>3

\* RB_REMOVE_COLOR() goes on, and higher up.
Going(t, e) == e \notin t.red /\ e # t.root
Raises(t, t2, H, p, p2) ==
  \A sp : Spans(t, H, sp) => Spans(t2, H, sp) /\ Cardinality(sp[p]) < Cardinality(sp[p2])

LEMMA RemoveStepIs ==
  ASSUME NEW t, NEW H, NEW K, NEW p, NEW d, NEW e, Short(t, H, K, p, d, e)
  PROVE  \E t2, p2, e2 :
           /\ RemoveTurn(t, p, e) = <<t2, p2, e2>> /\ RemoveWay(t2, H, K, p2, e2)
           /\ ~Going(t2, e2) \/ Raises(t, t2, H, p, p2)
<1>1. PICK t2, p2, e2 :
           /\ RemoveTurn(t, p, e) = <<t2, p2, e2>>
           /\ \/ /\ e2 = p /\ Shorter(t2, H, K, p2, p)
                 /\ Recolored(t, t2) \/ p \in t2.red
              \/ /\ p2 = p /\ e2 = t2.root
                 /\ Sound(t2, H, K, Nil, 0) /\ RedsApart(t2, H, {}, {})
  BY RemoveTurnIs
<1>2. Shaped(t, H, K) /\ p \in H
  BY DEF Short, Sound
<1>3. CASE e2 = p /\ Shorter(t2, H, K, p2, p) /\ (Recolored(t, t2) \/ p \in t2.red)
  <2>1. RemoveWay(t2, H, K, p2, e2)
    BY <1>2, <1>3, ShorterGoesOn
  <2>2. CASE p \in t2.red \/ p = t2.root
    <3>1. ~Going(t2, e2)
      BY <1>3, <2>2 DEF Going
    <3> QED
      BY <1>1, <2>1, <3>1
  <2>3. CASE p \notin t2.red /\ p # t2.root
    <3>1. PICK a \in Sides : Kid(t2, H, p2, a, p)
      BY <1>3, <2>3 DEF Shorter
    <3>2. Recolored(t, t2)
      BY <1>3, <2>3
    <3>3. ASSUME NEW sp, Spans(t, H, sp)
          PROVE  Spans(t2, H, sp) /\ Cardinality(sp[p]) < Cardinality(sp[p2])
      <4>1. Spans(t2, H, sp) /\ Shaped(t2, H, K)
        BY <1>2, <3>2, <3>3, RecoloredKeeps
      <4>2. Linked(t2, H) /\ p2 \in H /\ t2.kid[p2][a] = p
        BY <3>1, <4>1 DEF Kid, Shaped
      <4>3. sp[p] \subseteq sp[p2] /\ p2 \notin sp[p]
        BY <1>2, <3>1, <4>1, <4>2, KidOf
      <4>4. Cardinality(sp[p]) < Cardinality(sp[p2])
        BY <1>2, <4>1, <4>2, <4>3, SpanSizes
      <4> QED
        BY <4>1, <4>4
    <3>4. Raises(t, t2, H, p, p2)
      BY <3>3 DEF Raises
    <3> QED
      BY <1>1, <2>1, <3>4
  <2> QED
    BY <2>2, <2>3
<1>4. CASE p2 = p /\ e2 = t2.root /\ Sound(t2, H, K, Nil, 0) /\ RedsApart(t2, H, {}, {})
  <2>1. Shaped(t2, H, K)
    BY <1>4 DEF Sound
  <2>2. p2 \in Places /\ e2 \in Places
    <3>1. Linked(t2, H) /\ H \subseteq Entries
      BY <2>1, ShapedFacts
    <3> QED
      BY <1>2, <1>4, <3>1 DEF Linked, Places
  <2>3. RedsApart(t2, H, {e2}, {e2})
    BY <1>4 DEF RedsApart
  <2>4. RemoveEnds(t2, H, K, p2, e2)
    BY <1>4, <2>3 DEF RemoveEnds
  <2>5. RemoveWay(t2, H, K, p2, e2)
    BY <2>1, <2>2, <2>4 DEF RemoveWay
  <2>6. ~Going(t2, e2)
    BY <1>4 DEF Going
  <2> QED
    BY <1>1, <2>5, <2>6
<1> QED
  BY <1>1, <1>3, <1>4

\* What goes on is short.
LEMMA GoingIs ==
  ASSUME NEW t, NEW H, NEW K, NEW p, NEW e, RemoveWay(t, H, K, p, e)
  PROVE  /\ Going(t, e) => p \in H /\ \E d \in Sides : Short(t, H, K, p, d, e)
         /\ ~Going(t, e) => RemoveEnds(t, H, K, p, e) /\ RemoveTurn(t, p, e) = <<t, p, e>>
<1>1. CASE Going(t, e)
  <2>1. PICK d \in Sides : Short(t, H, K, p, d, e)
    BY <1>1 DEF RemoveWay, RemoveEnds, Going
  <2> QED
    BY <1>1, <2>1 DEF Short
<1>2. CASE ~Going(t, e)
  <2>1. \A d : ~Short(t, H, K, p, d, e)
    <3> SUFFICES ASSUME NEW d, Short(t, H, K, p, d, e) PROVE FALSE
      OBVIOUS
    <3>1. e \notin t.red
      BY DEF Short
    <3>2. e # t.root
      BY ShortIs
    <3> QED
      BY <1>2, <3>1, <3>2 DEF Going
  <2>2. RemoveEnds(t, H, K, p, e)
    BY <2>1 DEF RemoveWay
  <2>3. IsRed(t, e) \/ e = t.root
    BY <1>2 DEF Going, IsRed
  <2>4. RemoveTurn(t, p, e) = <<t, p, e>>
    BY <2>3 DEF RemoveTurn
  <2> QED
    BY <1>2, <2>2, <2>4
<1> QED
  BY <1>1, <1>2

\* From a side that is one short, or a red one there, RB_REMOVE_COLOR() comes
\* to a tree that is not: it does not run out of turns.
LEMMA RemoveColorIs ==
  ASSUME NEW t0, NEW H, NEW K, NEW p0, NEW e0, RemoveWay(t0, H, K, p0, e0),
         NEW r, r = RemoveColor(t0, p0, e0)
  PROVE  Sound(r, H, K, Nil, 0) /\ RedsApart(r, H, {}, {})
<1> DEFINE Size(t, p, e, n) ==
             Going(t, e) =>
               \E sp : Spans(t, H, sp) /\ n = Cardinality(H) + 1 - Cardinality(sp[p])
           V == Trees \X Places \X Places
           G == {q \in V \X Nat : /\ RemoveWay(q[1][1], H, K, q[1][2], q[1][3])
                                  /\ Size(q[1][1], q[1][2], q[1][3], q[2])}
           f == RemoveTurns
<1>1. ASSUME NEW t, NEW p, NEW e, RemoveWay(t, H, K, p, e)
      PROVE  /\ t \in Trees /\ p \in Places /\ e \in Places /\ <<t, p, e>> \in V
             /\ Linked(t, H) /\ \E sp : Spans(t, H, sp)
             /\ \A sp : Spans(t, H, sp) /\ p \in H =>
                  Cardinality(H) + 1 - Cardinality(sp[p]) \in 1..Cardinality(Entries)
  <2>1. Shaped(t, H, K) /\ p \in Places /\ e \in Places
    BY <1>1 DEF RemoveWay
  <2>2. t \in Trees /\ Linked(t, H) /\ \E sp : Spans(t, H, sp)
    BY <2>1, ShapedFacts DEF Shaped
  <2>3. ASSUME NEW sp, Spans(t, H, sp), p \in H
        PROVE  Cardinality(H) + 1 - Cardinality(sp[p]) \in 1..Cardinality(Entries)
    <3>1. Cardinality(H) \in 0..Cardinality(Entries) /\ Cardinality(sp[p]) \in 1..Cardinality(H)
      BY <2>2, <2>3, SpanSizes
    <3> QED
      BY <3>1, HowMany
  <2> QED
    BY <2>1, <2>2, <2>3
<1>2. PICK x0 : x0 = <<t0, p0, e0>>
  OBVIOUS
<1>3. PICK r0 \in 0..Cardinality(Entries) : r0 \in Nat /\ Size(t0, p0, e0, r0)
  <2>1. CASE ~Going(t0, e0)
    BY <2>1, HowMany
  <2>2. CASE Going(t0, e0)
    <3>1. PICK sp0 : Spans(t0, H, sp0)
      BY <1>1
    <3>2. PICK n : n = Cardinality(H) + 1 - Cardinality(sp0[p0])
      OBVIOUS
    <3>3. n \in 1..Cardinality(Entries)
      BY <1>1, <2>2, <3>1, <3>2, GoingIs
    <3>4. n \in 0..Cardinality(Entries) /\ n \in Nat
      BY <3>3, HowMany
    <3> QED
      BY <3>1, <3>2, <3>4
  <2> QED
    BY <2>1, <2>2
<1>4. <<x0, r0>> \in G
  BY <1>1, <1>2, <1>3
<1>5. G \subseteq V \X Nat
  OBVIOUS
<1>6. ASSUME NEW c \in V, NEW n \in Nat, <<c, n>> \in G
      PROVE  f[c] = c \/ \E q \in Nat : q < n /\ <<f[c], q>> \in G
  <2>1. PICK t, p, e : t = c[1] /\ p = c[2] /\ e = c[3]
    OBVIOUS
  <2>2. c = <<t, p, e>> /\ RemoveWay(t, H, K, p, e) /\ Size(t, p, e, n)
    BY <1>6, <2>1
  <2>3. f[c] = RemoveTurn(t, p, e)
    BY <2>1 DEF RemoveTurns
  <2>4. CASE ~Going(t, e)
    <3>1. RemoveTurn(t, p, e) = <<t, p, e>>
      BY <2>2, <2>4, GoingIs
    <3> QED
      BY <2>2, <2>3, <3>1
  <2>5. CASE Going(t, e)
    <3>1. PICK d : Short(t, H, K, p, d, e)
      BY <2>2, <2>5, GoingIs
    <3>2. PICK t2, p2, e2 :
           /\ RemoveTurn(t, p, e) = <<t2, p2, e2>> /\ RemoveWay(t2, H, K, p2, e2)
           /\ ~Going(t2, e2) \/ Raises(t, t2, H, p, p2)
      BY <3>1, RemoveStepIs
    <3>3. PICK sp : Spans(t, H, sp) /\ n = Cardinality(H) + 1 - Cardinality(sp[p])
      BY <2>2, <2>5
    <3>4. PICK y : y = <<t2, p2, e2>>
      OBVIOUS
    <3>5. f[c] = y /\ y \in V /\ y[1] = t2 /\ y[2] = p2 /\ y[3] = e2
      BY <1>1, <2>3, <3>2, <3>4
    <3>6. p \in H /\ n \in 1..Cardinality(Entries)
      BY <1>1, <2>2, <2>5, <3>3, GoingIs
    <3>7. CASE ~Going(t2, e2)
      <4>1. Size(t2, p2, e2, 0)
        BY <3>7
      <4>2. <<y, 0>> \in G
        BY <3>2, <3>5, <4>1
      <4>3. 0 < n
        BY <3>6, HowMany
      <4> QED
        BY <3>5, <4>2, <4>3
    <3>8. CASE Going(t2, e2)
      <4>1. Spans(t2, H, sp) /\ Cardinality(sp[p]) < Cardinality(sp[p2])
        BY <3>2, <3>3, <3>8 DEF Raises
      <4>2. PICK q : q = Cardinality(H) + 1 - Cardinality(sp[p2])
        OBVIOUS
      <4>3. Size(t2, p2, e2, q)
        BY <4>1, <4>2
      <4>4. p2 \in H
        BY <3>2, <3>8, GoingIs
      <4>5. q \in Nat /\ q < n
        <5>1. q \in 1..Cardinality(Entries)
          BY <1>1, <3>2, <4>1, <4>2, <4>4
        <5>2. /\ Cardinality(sp[p]) \in 1..Cardinality(H) /\ Cardinality(H) \in Int
              /\ Cardinality(sp[p2]) \in 1..Cardinality(H)
          <6>1. Linked(t, H) /\ Spans(t, H, sp)
            BY <1>1, <2>2, <3>3
          <6> QED
            BY <3>6, <4>4, <6>1, SpanSizes
        <5> QED
          BY <3>3, <4>1, <4>2, <5>1, <5>2, HowMany
      <4>6. <<y, q>> \in G
        BY <3>2, <3>5, <4>3, <4>5
      <4> QED
        BY <3>5, <4>5, <4>6
    <3> QED
      BY <3>7, <3>8
  <2> QED
    BY <2>4, <2>5
<1>7. PICK z : z = Loop(f, x0)
  OBVIOUS
<1>8. f[z] = z /\ z \in V /\ \E n \in Nat : <<z, n>> \in G
  <2>1. \A c \in V, n \in Nat : <<c, n>> \in G =>
          f[c] = c \/ \E q \in Nat : q < n /\ <<f[c], q>> \in G
    BY <1>6
  <2>2. r0 \in 0..Cardinality(Entries)
    BY <1>3
  <2> HIDE DEF G, f, V
  <2> QED
    BY <1>4, <1>5, <1>7, <2>1, <2>2, LoopEnds
<1>9. PICK t, p, e : t = z[1] /\ p = z[2] /\ e = z[3]
  OBVIOUS
<1>10. z = <<t, p, e>> /\ RemoveWay(t, H, K, p, e) /\ RemoveTurn(t, p, e) = <<t, p, e>>
  <2>1. RemoveWay(z[1], H, K, z[2], z[3])
    BY <1>8
  <2>2. f[z] = RemoveTurn(z[1], z[2], z[3])
    BY <1>8 DEF RemoveTurns
  <2> QED
    BY <1>8, <1>9, <2>1, <2>2
<1>11. ~Going(t, e)
  <2> SUFFICES ASSUME Going(t, e) PROVE FALSE
    OBVIOUS
  <2>1. PICK d : Short(t, H, K, p, d, e)
    BY <1>10, GoingIs
  <2>2. PICK t2, p2, e2 :
           /\ RemoveTurn(t, p, e) = <<t2, p2, e2>>
           /\ ~Going(t2, e2) \/ Raises(t, t2, H, p, p2)
    BY <2>1, RemoveStepIs
  <2>3. t2 = t /\ p2 = p /\ e2 = e
    BY <1>10, <2>2
  <2>4. PICK sp : Spans(t, H, sp) /\ Linked(t, H)
    BY <1>1, <1>10
  <2>5. Cardinality(sp[p]) < Cardinality(sp[p])
    BY <2>2, <2>3, <2>4 DEF Raises
  <2>6. Cardinality(sp[p]) \in 1..Cardinality(H) /\ Cardinality(H) \in 0..Cardinality(Entries)
    BY <1>10, <2>4, GoingIs, SpanSizes
  <2> QED
    BY <2>5, <2>6, HowMany
<1>12. r = Paint(t, {e}, {})
  <2>1. RemoveColor(t0, p0, e0) = Paint(z[1], {z[3]}, {})
    BY <1>2, <1>7 DEF RemoveColor
  <2> QED
    BY <1>9, <2>1
<1>13. RemoveEnds(t, H, K, p, e)
  BY <1>10, <1>11, GoingIs
<1> QED
  BY <1>12, <1>13, RemoveBlackens

-----------------------------------------------------------------------------
(* RB_REMOVE().                                                            *)

\* e, below q on side d, has no other kid than c.
OneKid(t, H, e, c, q, d) ==
  /\ e \in H /\ q = t.parent[e] /\ d = SideOf(t, q, e)
  /\ \E a, o \in Sides : o # a /\ t.kid[e][a] = c /\ t.kid[e][o] = Nil

LEMMA OneKidFacts ==
  ASSUME NEW t, NEW H, NEW K, Shaped(t, H, K),
         NEW e, NEW c, NEW q, NEW d, OneKid(t, H, e, c, q, d)
  PROVE  /\ e \in H /\ e # Nil /\ c \in (H \ {e}) \cup {Nil} /\ q \in (H \ {e}) \cup {Nil}
         /\ d \in Sides /\ (q = Nil <=> e = t.root)
         /\ q # Nil => q \in H /\ q # e /\ Kid(t, H, q, d, e) /\ t.kid[q][d] = e
         /\ c # Nil => c \in H /\ c # e /\ t.parent[c] = e /\ c # t.root
         /\ \A s \in Sides : t.kid[e][s] \in {c, Nil}
         /\ \E a \in Sides : t.kid[e][a] = c
         /\ \A x \in H, s \in Sides : t.kid[x][s] = e => x = q /\ s = d
         /\ \A x \in H : t.parent[x] = e => x = c
<1>1. /\ e \in H /\ e # Nil /\ q = t.parent[e] /\ d = SideOf(t, q, e)
      /\ \A x \in H : x # Nil
  BY ShapedFacts DEF OneKid
<1>2. PICK a, o \in Sides : o # a /\ t.kid[e][a] = c /\ t.kid[e][o] = Nil
  BY DEF OneKid
<1>3. \A s \in Sides : s = a \/ s = o
  BY <1>2 DEF Sides
<1>4. d \in Sides
  BY <1>1 DEF SideOf, Sides
<1>5. q # Nil => q \in H /\ q # e /\ Kid(t, H, q, d, e) /\ t.kid[q][d] = e
  <2> SUFFICES ASSUME q # Nil PROVE q \in H /\ q # e /\ Kid(t, H, q, d, e) /\ t.kid[q][d] = e
    OBVIOUS
  <2>1. Kid(t, H, q, d, e)
    BY <1>1, ParentIs
  <2> QED
    BY <2>1, KidFacts
<1>6. c # Nil => c \in H /\ c # e /\ t.parent[c] = e /\ c # t.root
  <2> SUFFICES ASSUME c # Nil PROVE c \in H /\ c # e /\ t.parent[c] = e /\ c # t.root
    OBVIOUS
  <2>1. Kid(t, H, e, a, c)
    BY <1>1, <1>2, KidIs
  <2> QED
    BY <2>1, KidFacts
<1>7. q = Nil <=> e = t.root
  <2>1. PICK sp : Linked(t, H) /\ Spans(t, H, sp)
    BY DEF Shaped
  <2> QED
    BY <1>1, <2>1, KidSides
<1>8. ASSUME NEW x \in H, NEW s \in Sides, t.kid[x][s] = e PROVE x = q /\ s = d
  <2>1. Kid(t, H, x, s, e)
    BY <1>1, <1>8, KidIs
  <2>2. t.parent[e] = x /\ SideOf(t, x, e) = s
    BY <2>1, KidFacts
  <2> QED
    BY <1>1, <2>2
<1>9. ASSUME NEW x \in H, t.parent[x] = e PROVE x = c
  <2>1. PICK s : Kid(t, H, e, s, x)
    BY <1>1, <1>9, ParentIs
  <2>2. t.kid[e][s] = x /\ s \in Sides /\ x # Nil
    BY <1>1, <2>1, KidFacts
  <2> QED
    BY <1>2, <1>3, <2>2
<1>10. \A s \in Sides : t.kid[e][s] \in {c, Nil}
  BY <1>2, <1>3
<1> QED
  BY <1>1, <1>2, <1>4, <1>5, <1>6, <1>7, <1>8, <1>9, <1>10

\* c is where e was.
Spliced(t, r, c, q, d) ==
  /\ r \in Trees /\ r.red = t.red
  /\ r.root = IF q = Nil THEN c ELSE t.root
  /\ \A x \in Entries : r.parent[x] = IF x = c THEN q ELSE t.parent[x]
  /\ \A x \in Entries, s \in Sides :
       r.kid[x][s] = IF x = q /\ s = d THEN c ELSE t.kid[x][s]

LEMMA SplicedLinked ==
  ASSUME NEW t, NEW H, NEW K, Shaped(t, H, K),
         NEW e, NEW c, NEW q, NEW d, OneKid(t, H, e, c, q, d), NEW r, Spliced(t, r, c, q, d)
  PROVE  Linked(r, H \ {e}) /\ Clear(r, K)
<1>1. /\ e \in H /\ e # Nil /\ c \in (H \ {e}) \cup {Nil} /\ q \in (H \ {e}) \cup {Nil}
      /\ d \in Sides /\ (q = Nil <=> e = t.root)
      /\ q # Nil => q \in H /\ q # e /\ t.kid[q][d] = e
      /\ c # Nil => c \in H /\ c # e /\ t.parent[c] = e /\ c # t.root
  BY OneKidFacts
<1>2. /\ \A x \in H, s \in Sides : t.kid[x][s] = e => x = q /\ s = d
      /\ \A x \in H : t.parent[x] = e => x = c
  BY OneKidFacts
<1>3. /\ \A x \in H : x \in Entries /\ x # Nil
      /\ H \ {e} \subseteq Entries /\ H \subseteq K
  BY ShapedFacts DEF Shaped
<1>4. /\ r \in Trees /\ r.root = IF q = Nil THEN c ELSE t.root
      /\ \A x \in H : r.parent[x] = IF x = c THEN q ELSE t.parent[x]
      /\ \A x \in H, s \in Sides : r.kid[x][s] = IF x = q /\ s = d THEN c ELSE t.kid[x][s]
  BY <1>3 DEF Spliced
<1>5. /\ t.root \in H \cup {Nil} /\ (t.root # Nil => t.parent[t.root] = Nil)
      /\ \A x \in H : t.parent[x] = Nil => x = t.root
      /\ \A x \in H : t.parent[x] # Nil =>
           t.parent[x] \in H /\ \E s \in Sides : t.kid[t.parent[x]][s] = x
      /\ \A x \in H, s \in Sides : t.kid[x][s] # Nil =>
           t.kid[x][s] \in H /\ t.parent[t.kid[x][s]] = x
  BY DEF Shaped, Linked
<1>6. r.root \in (H \ {e}) \cup {Nil} /\ (r.root # Nil => r.parent[r.root] = Nil)
  <2>1. CASE q = Nil
    BY <1>1, <1>4, <2>1
  <2>2. CASE q # Nil
    <3>1. r.root = t.root /\ t.root # e
      BY <1>1, <1>4, <2>2
    <3>2. t.root # c \/ t.root = Nil
      BY <1>1
    <3> QED
      BY <1>4, <1>5, <3>1, <3>2
  <2> QED
    BY <2>1, <2>2
<1>7. ASSUME NEW x \in H \ {e}, r.parent[x] = Nil PROVE x = r.root
  <2>1. CASE x = c
    BY <1>4, <1>7, <2>1
  <2>2. CASE x # c
    <3>1. x = t.root
      BY <1>4, <1>5, <1>7, <2>2
    <3> QED
      BY <1>1, <1>4, <3>1
  <2> QED
    BY <2>1, <2>2
<1>8. ASSUME NEW x \in H \ {e}, r.parent[x] # Nil
      PROVE  r.parent[x] \in H \ {e} /\ \E s \in Sides : r.kid[r.parent[x]][s] = x
  <2>1. CASE x = c
    <3>1. r.parent[x] = q /\ q # Nil /\ q \in H \ {e}
      BY <1>1, <1>4, <1>8, <2>1
    <3>2. r.kid[q][d] = x
      BY <1>1, <1>4, <2>1, <3>1
    <3> QED
      BY <1>1, <3>1, <3>2
  <2>2. CASE x # c
    <3>1. PICK y : y = t.parent[x] /\ y = r.parent[x]
      BY <1>4, <2>2
    <3>2. y # Nil /\ y \in H /\ y # e
      <4>1. y # Nil
        BY <1>8, <3>1
      <4>2. y \in H
        BY <3>1, <4>1, ParentIs
      <4>3. y # e
        BY <1>2, <2>2, <3>1
      <4> QED
        BY <4>1, <4>2, <4>3
    <3>3. PICK s \in Sides : t.kid[y][s] = x
      BY <1>5, <3>1, <3>2
    <3>4. ~(y = q /\ s = d)
      BY <1>1, <3>2, <3>3
    <3>5. r.kid[y][s] = x
      BY <1>4, <3>2, <3>3, <3>4
    <3> QED
      BY <3>1, <3>2, <3>5
  <2> QED
    BY <2>1, <2>2
<1>9. ASSUME NEW x \in H \ {e}, NEW s \in Sides, r.kid[x][s] # Nil
      PROVE  r.kid[x][s] \in H \ {e} /\ r.parent[r.kid[x][s]] = x
  <2>1. CASE x = q /\ s = d
    <3>1. r.kid[x][s] = c /\ c \in H \ {e}
      BY <1>1, <1>4, <1>9, <2>1
    <3> QED
      BY <1>4, <2>1, <3>1
  <2>2. CASE ~(x = q /\ s = d)
    <3>1. PICK k : k = t.kid[x][s] /\ k = r.kid[x][s]
      BY <1>4, <2>2
    <3>2. k # Nil /\ k \in H /\ t.parent[k] = x
      <4>1. k # Nil
        BY <1>9, <3>1
      <4>2. Kid(t, H, x, s, k)
        BY <3>1, <4>1, KidIs
      <4> QED
        BY <4>2, KidFacts
    <3>3. k # e /\ k # c
      BY <1>1, <1>2, <2>2, <3>1, <3>2
    <3> QED
      BY <1>4, <3>1, <3>2, <3>3
  <2> QED
    BY <2>1, <2>2
<1>10. Linked(r, H \ {e})
  BY <1>3, <1>4, <1>6, <1>7, <1>8, <1>9 DEF Linked
<1>11. ASSUME NEW x \in Entries \ K, NEW s \in Sides PROVE r.kid[x][s] = Nil
  <2>1. r.kid[x][s] = IF x = q /\ s = d THEN c ELSE t.kid[x][s]
    BY DEF Spliced
  <2>2. x # q
    BY <1>1, <1>3, EntryFacts
  <2>3. t.kid[x][s] = Nil
    BY DEF Shaped, Clear
  <2> QED
    BY <2>1, <2>2, <2>3
<1> QED
  BY <1>10, <1>11 DEF Clear

LEMMA SplicedSpans ==
  ASSUME NEW t, NEW H, NEW K, Shaped(t, H, K),
         NEW e, NEW c, NEW q, NEW d, OneKid(t, H, e, c, q, d), NEW r, Spliced(t, r, c, q, d)
  PROVE  \E sp : Spans(r, H \ {e}, sp)
<1>1. /\ e \in H /\ e # Nil /\ c \in (H \ {e}) \cup {Nil} /\ q \in (H \ {e}) \cup {Nil}
      /\ d \in Sides /\ (q = Nil <=> e = t.root)
      /\ q # Nil => q \in H /\ q # e /\ t.kid[q][d] = e
  BY OneKidFacts
<1>2. PICK sp : Spans(t, H, sp) /\ Linked(t, H)
  BY DEF Shaped
<1>3. \A x \in H \cup {Nil} : x \in Places
  BY ShapedFacts DEF Places
<1>4. /\ r.root = IF q = Nil THEN c ELSE t.root
      /\ \A x \in H, s \in Sides : r.kid[x][s] = IF x = q /\ s = d THEN c ELSE t.kid[x][s]
  <2>1. \A x \in H : x \in Entries
    BY ShapedFacts
  <2> QED
    BY <2>1 DEF Spliced
<1>5. sp[c] \ {e} = sp[e] \ {e}
  <2>1. PICK a, o \in Sides : o # a /\ t.kid[e][a] = c /\ t.kid[e][o] = Nil
    BY DEF OneKid
  <2>2. o = 1 - a /\ sp[Nil] = {}
    BY <1>2, <2>1 DEF Sides, Spans
  <2>3. sp[e] = {e} \cup sp[t.kid[e][a]] \cup sp[t.kid[e][1 - a]]
    BY <1>1, <1>2, <2>1, SpanOfKids
  <2> QED
    BY <2>1, <2>2, <2>3
<1> DEFINE sp2 == [x \in Places |-> sp[x] \ {e}]
<1>6. /\ sp2 \in [Places -> SUBSET (H \ {e})] /\ sp2[Nil] = {}
  <2>1. sp \in [Places -> SUBSET H] /\ sp[Nil] = {}
    BY <1>2 DEF Spans
  <2> QED
    BY <2>1, <1>3
<1>7. \A x \in H \cup {Nil} : sp2[x] = sp[x] \ {e}
  BY <1>3
<1> HIDE DEF sp2
<1>8. sp2[r.root] = H \ {e}
  <2>1. sp[t.root] = H /\ t.root \in H \cup {Nil}
    BY <1>2 DEF Spans, Linked
  <2>2. CASE q = Nil
    BY <1>1, <1>4, <1>5, <1>7, <2>1, <2>2
  <2>3. CASE q # Nil
    BY <1>4, <1>7, <2>1, <2>3
  <2> QED
    BY <2>2, <2>3
<1>9. ASSUME NEW x \in H \ {e}, NEW s \in Sides
      PROVE  sp2[r.kid[x][s]] = sp[t.kid[x][s]] \ {e}
  <2>1. CASE x = q /\ s = d
    <3>1. r.kid[x][s] = c /\ t.kid[x][s] = e
      BY <1>1, <1>3, <1>4, <2>1, ShapedFacts
    <3> QED
      BY <1>1, <1>5, <1>7, <3>1
  <2>2. CASE ~(x = q /\ s = d)
    <3>1. r.kid[x][s] = t.kid[x][s]
      BY <1>4, <2>2
    <3>2. t.kid[x][s] \in H \cup {Nil}
      BY KidIs
    <3> QED
      BY <1>7, <3>1, <3>2
  <2> QED
    BY <2>1, <2>2
<1>10. 0 \in Sides /\ 1 \in Sides
  BY DEF Sides
<1>11. ASSUME NEW x \in H \ {e}
       PROVE  sp2[x] = {x} \cup sp2[r.kid[x][0]] \cup sp2[r.kid[x][1]]
  <2>1. sp[x] = {x} \cup sp[t.kid[x][0]] \cup sp[t.kid[x][1]]
    BY <1>2 DEF Spans
  <2>2. sp2[r.kid[x][0]] = sp[t.kid[x][0]] \ {e} /\ sp2[r.kid[x][1]] = sp[t.kid[x][1]] \ {e}
    BY <1>9, <1>10
  <2>3. sp2[x] = sp[x] \ {e} /\ x # e
    BY <1>7
  <2> QED
    BY <2>1, <2>2, <2>3
<1>12. ASSUME NEW x \in H \ {e}, NEW s \in Sides, NEW y \in sp2[r.kid[x][s]] PROVE On(s, y, x)
  <2>1. y \in sp[t.kid[x][s]]
    BY <1>9
  <2> QED
    BY <1>2, <2>1 DEF Spans
<1> QED
  BY <1>6, <1>8, <1>11, <1>12 DEF Spans

LEMMA SplicedHeights ==
  ASSUME NEW t, NEW H, NEW K, Shaped(t, H, K), NEW b, Heights(t, H, b, Nil, 0),
         NEW e, NEW c, NEW q, NEW d, OneKid(t, H, e, c, q, d), NEW r, Spliced(t, r, c, q, d)
  PROVE  IF e \in t.red THEN Heights(r, H \ {e}, b, Nil, 0) ELSE Heights(r, H \ {e}, b, q, d)
<1>1. /\ e \in H /\ q \in (H \ {e}) \cup {Nil} /\ d \in Sides
      /\ q # Nil => q \in H /\ q # e /\ t.kid[q][d] = e
  BY OneKidFacts
<1>2. PICK a \in Sides : t.kid[e][a] = c
  BY OneKidFacts
<1>3. /\ \A x \in H : x \in Entries /\ x # Nil
  BY ShapedFacts
<1>4. /\ r.red = t.red
      /\ \A x \in H, s \in Sides : r.kid[x][s] = IF x = q /\ s = d THEN c ELSE t.kid[x][s]
  BY <1>3 DEF Spliced
<1>5. b[e] = b[c] + Weight(t, e) /\ b[c] \in Nat /\ b[e] \in Nat
  BY <1>1, <1>2, <1>3, HeightAt
<1>6. ASSUME NEW x \in H \ {e}, NEW s \in Sides
      PROVE  b[x] = b[r.kid[x][s]] + Weight(r, x) +
                    IF x = q /\ s = d /\ e \notin t.red THEN 1 ELSE 0
  <2>1. PICK k : k = t.kid[x][s]
    OBVIOUS
  <2>2. b[x] \in Nat /\ b[k] \in Nat /\ Weight(t, x) \in {0, 1} /\ b[x] = b[k] + Weight(t, x)
    BY <1>3, <2>1, HeightAt
  <2>3. PICK m : m = r.kid[x][s]
    OBVIOUS
  <2>4. Weight(r, x) = Weight(t, x)
    BY <1>4 DEF Weight
  <2>5. CASE x = q /\ s = d
    <3>1. k = e /\ m = c
      BY <1>1, <1>3, <1>4, <2>1, <2>3, <2>5
    <3>2. Weight(t, e) = IF e \notin t.red THEN 1 ELSE 0
      BY DEF Weight
    <3>3. b[x] = b[m] + Weight(r, x) + IF e \notin t.red THEN 1 ELSE 0
      BY <1>5, <2>2, <2>4, <3>1, <3>2
    <3> QED
      BY <2>3, <2>5, <3>3
  <2>6. CASE ~(x = q /\ s = d)
    <3>1. m = k
      BY <1>4, <2>1, <2>3, <2>6
    <3>2. b[x] = b[m] + Weight(r, x) + 0
      BY <2>2, <2>4, <3>1
    <3> QED
      BY <2>3, <2>6, <3>2
  <2> QED
    BY <2>5, <2>6
<1>7. b \in [Places -> Nat] /\ b[Nil] = 0
  BY DEF Heights
<1>8. CASE e \in t.red
  <2>1. ASSUME NEW x \in H \ {e}, NEW s \in Sides
        PROVE  b[x] = b[r.kid[x][s]] + Weight(r, x) + IF x = Nil /\ s = 0 THEN 1 ELSE 0
    BY <1>3, <1>6, <1>8
  <2> QED
    BY <1>7, <1>8, <2>1 DEF Heights
<1>9. CASE e \notin t.red
  <2>1. ASSUME NEW x \in H \ {e}, NEW s \in Sides
        PROVE  b[x] = b[r.kid[x][s]] + Weight(r, x) + IF x = q /\ s = d THEN 1 ELSE 0
    BY <1>6, <1>9
  <2> QED
    BY <1>7, <1>9, <2>1 DEF Heights
<1> QED
  BY <1>8, <1>9

LEMMA OneKidIs ==
  ASSUME NEW t, NEW H, NEW e \in H, NEW s \in Sides, t.kid[e][s] = Nil,
         NEW c, c = OnlyKid(t, e), NEW q, q = t.parent[e], NEW d, d = SideOf(t, q, e)
  PROVE  OneKid(t, H, e, c, q, d)
<1>1. CASE t.kid[e][0] = Nil
  <2>1. c = t.kid[e][1] /\ 0 \in Sides /\ 1 \in Sides /\ 0 # 1
    BY <1>1 DEF OnlyKid, Sides
  <2> QED
    BY <1>1, <2>1 DEF OneKid
<1>2. CASE t.kid[e][0] # Nil
  <2>1. c = t.kid[e][0] /\ 0 \in Sides /\ 1 \in Sides /\ 0 # 1 /\ s = 1
    BY <1>2 DEF OnlyKid, Sides
  <2> QED
    BY <2>1 DEF OneKid
<1> QED
  BY <1>1, <1>2

LEMMA SplicedIs ==
  ASSUME NEW t, NEW H, NEW K, Shaped(t, H, K),
         NEW e, NEW c, NEW q, NEW d, OneKid(t, H, e, c, q, d), c = OnlyKid(t, e),
         NEW r, r = Unlinked(t, e)
  PROVE  Spliced(t, r, c, q, d)
<1>1. /\ t \in Trees /\ e \in Places /\ c \in Places /\ q \in Places
      /\ q = t.parent[e] /\ d = SideOf(t, q, e)
  <2>1. c \in H \cup {Nil} /\ q \in H \cup {Nil} /\ e \in H
    BY OneKidFacts
  <2>2. \A x \in H \cup {Nil} : x \in Places
    BY ShapedFacts DEF Places
  <2> QED
    BY <2>1, <2>2, ShapedFacts DEF OneKid
<1>2. PICK a : a = WithParent(t, c, q)
  OBVIOUS
<1>3. ParentSet(t, a, c, q)
  BY <1>1, <1>2, WithParentIs
<1>4. r = Hang(a, q, e, c) /\ a \in Trees
  BY <1>1, <1>2, <1>3 DEF Unlinked, ParentSet
<1>5. HungAt(a, r, q, SideOf(a, q, e), c)
  BY <1>1, <1>4, HangIs
<1>6. SideOf(a, q, e) = d
  BY <1>1, <1>3 DEF ParentSet, SideOf
<1> QED
  BY <1>3, <1>5, <1>6 DEF ParentSet, HungAt, Spliced

\* Without a black entry, q is one short on the side where its kid c is.
Lacking(t, H, K, q, c) ==
  /\ RedsApart(t, H, {c}, {})
  /\ \/ q = Nil /\ c = t.root /\ Sound(t, H, K, Nil, 0)
     \/ \E d \in Sides : q \in H /\ t.kid[q][d] = c /\ Sound(t, H, K, q, d)
Parted(t, u, H, K, e, q, c) ==
  IF e \in t.red THEN Sound(u, H, K, Nil, 0) /\ RedsApart(u, H, {}, {})
  ELSE Lacking(u, H, K, q, c)

LEMMA UnlinkedIs ==
  ASSUME NEW t, NEW H, Good(t, H),
         NEW e, NEW c, NEW q, NEW d, OneKid(t, H, e, c, q, d), c = OnlyKid(t, e),
         NEW r, r = Unlinked(t, e)
  PROVE  Shaped(r, H \ {e}, H) /\ r.red = t.red /\ Parted(t, r, H \ {e}, H, e, q, c)
<1>1. Shaped(t, H, H) /\ RedsApart(t, H, {}, {})
  BY DEF Good, Sound
<1>2. Spliced(t, r, c, q, d)
  BY <1>1, SplicedIs
<1>3. PICK b : Heights(t, H, b, Nil, 0)
  BY DEF Good, Sound
<1>4. /\ e \in H /\ c \in (H \ {e}) \cup {Nil} /\ q \in (H \ {e}) \cup {Nil} /\ d \in Sides
      /\ q # Nil => q \in H /\ q # e
      /\ c # Nil => c \in H /\ c # e /\ t.parent[c] = e
      /\ \A x \in H : t.parent[x] = e => x = c
      /\ \A x \in H : x \in Entries /\ x # Nil
  BY <1>1, OneKidFacts, ShapedFacts
<1>5. Shaped(r, H \ {e}, H)
  <2>1. Linked(r, H \ {e}) /\ Clear(r, H) /\ \E sp : Spans(r, H \ {e}, sp)
    BY <1>1, <1>2, SplicedLinked, SplicedSpans
  <2> QED
    BY <2>1 DEF Shaped
<1>6. r.red = t.red /\ \A x \in H : r.parent[x] = IF x = c THEN q ELSE t.parent[x]
  BY <1>2, <1>4 DEF Spliced
<1>7. ASSUME NEW x \in H \ {e}, x \in r.red, x # c
      PROVE  r.parent[x] # Nil /\ r.parent[x] \notin r.red
  <2>1. t.parent[x] # Nil /\ t.parent[x] \notin t.red
    BY <1>1, <1>6, <1>7 DEF RedsApart
  <2> QED
    BY <1>6, <1>7, <2>1
<1>8. CASE e \in t.red
  <2>1. Sound(r, H \ {e}, H, Nil, 0)
    <3>1. Heights(r, H \ {e}, b, Nil, 0)
      BY <1>1, <1>2, <1>3, <1>8, SplicedHeights
    <3> QED
      BY <1>5, <3>1 DEF Sound
  <2>2. ASSUME NEW x \in H \ {e}, x \in r.red PROVE x # c
    <3> SUFFICES ASSUME x = c PROVE FALSE
      OBVIOUS
    <3>1. x \in t.red /\ t.parent[x] = e
      BY <1>4, <1>6, <2>2
    <3> QED
      BY <1>1, <1>4, <1>8, <3>1 DEF RedsApart
  <2>3. RedsApart(r, H \ {e}, {}, {})
    BY <1>7, <2>2 DEF RedsApart
  <2> QED
    BY <1>5, <1>6, <1>8, <2>1, <2>3 DEF Parted
<1>9. CASE e \notin t.red
  <2>1. Heights(r, H \ {e}, b, q, d)
    BY <1>1, <1>2, <1>3, <1>9, SplicedHeights
  <2>2. RedsApart(r, H \ {e}, {c}, {})
    BY <1>7 DEF RedsApart
  <2>3. CASE q = Nil
    <3>1. Heights(r, H \ {e}, b, Nil, 0)
      BY <1>4, <2>1, <2>3 DEF Heights
    <3>2. Sound(r, H \ {e}, H, Nil, 0)
      BY <1>5, <3>1 DEF Sound
    <3>3. r.root = c
      BY <1>2, <2>3 DEF Spliced
    <3>4. Lacking(r, H \ {e}, H, q, c)
      BY <2>2, <2>3, <3>2, <3>3 DEF Lacking
    <3> QED
      BY <1>5, <1>6, <1>9, <3>4 DEF Parted
  <2>4. CASE q # Nil
    <3>1. Sound(r, H \ {e}, H, q, d)
      BY <1>5, <2>1 DEF Sound
    <3>2. r.kid[q][d] = c
      BY <1>2, <1>4, <2>4 DEF Spliced
    <3>3. Lacking(r, H \ {e}, H, q, c)
      BY <1>4, <2>2, <2>4, <3>1, <3>2 DEF Lacking
    <3> QED
      BY <1>5, <1>6, <1>9, <3>3 DEF Parted
  <2> QED
    BY <2>3, <2>4
<1> QED
  BY <1>8, <1>9

\* What is lacking is what RB_REMOVE_COLOR() begins with.
LEMMA LackingGoesOn ==
  ASSUME NEW t, NEW H, NEW K, NEW q, NEW c, Lacking(t, H, K, q, c)
  PROVE  RemoveWay(t, H, K, q, c)
<1>1. RedsApart(t, H, {c}, {}) /\ RedsApart(t, H, {c}, {c})
  BY DEF Lacking, RedsApart
<1>2. CASE q = Nil /\ c = t.root /\ Sound(t, H, K, Nil, 0)
  <2>1. Shaped(t, H, K) /\ q \in Places
    BY <1>2 DEF Sound, Places
  <2>2. c \in Places
    <3>1. t.root \in H \cup {Nil} /\ H \subseteq Entries
      BY <2>1 DEF Shaped, Linked
    <3> QED
      BY <1>2, <3>1 DEF Places
  <2>3. RemoveEnds(t, H, K, q, c)
    BY <1>1, <1>2 DEF RemoveEnds
  <2> QED
    BY <2>1, <2>2, <2>3 DEF RemoveWay
<1>3. CASE \E d \in Sides : q \in H /\ t.kid[q][d] = c /\ Sound(t, H, K, q, d)
  <2>1. PICK d \in Sides : q \in H /\ t.kid[q][d] = c /\ Sound(t, H, K, q, d)
    BY <1>3
  <2>2. Shaped(t, H, K)
    BY <2>1 DEF Sound
  <2>3. c \in H \cup {Nil} /\ (c # Nil => Kid(t, H, q, d, c))
    BY <2>1, <2>2, KidIs
  <2>4. q \in Places /\ c \in Places
    <3>1. H \subseteq Entries
      BY <2>2, ShapedFacts
    <3> QED
      BY <2>1, <2>3, <3>1 DEF Places
  <2>5. CASE c \in t.red
    <3>1. Kid(t, H, q, d, c)
      BY <2>2, <2>3, <2>5, ShapedFacts
    <3>2. RemoveEnds(t, H, K, q, c)
      BY <1>1, <2>1, <2>5, <3>1 DEF RemoveEnds
    <3> QED
      BY <2>2, <2>4, <3>2 DEF RemoveWay
  <2>6. CASE c \notin t.red
    <3>1. RedsApart(t, H, {}, {})
      BY <1>1, <2>6 DEF RedsApart
    <3>2. Short(t, H, K, q, d, c)
      BY <2>1, <2>6, <3>1 DEF Short
    <3> QED
      BY <2>1, <2>2, <2>4, <3>2 DEF RemoveWay
  <2> QED
    BY <2>5, <2>6
<1> QED
  BY <1>2, <1>3 DEF Lacking

\* The tree u of H with n in the place of old: r, of H2.
Back(old, n, x) == IF x = n THEN old ELSE x
Renamed(u, r, H, H2, old, n) ==
  /\ r \in Trees /\ old \in H /\ n \in Entries \ H /\ H2 = (H \ {old}) \cup {n}
  /\ r.root \in H2 \cup {Nil} /\ Back(old, n, r.root) = u.root
  /\ \A x \in H2 : /\ r.parent[x] \in H2 \cup {Nil}
                   /\ Back(old, n, r.parent[x]) = u.parent[Back(old, n, x)]
                   /\ x \in r.red <=> Back(old, n, x) \in u.red
  /\ \A x \in H2, s \in Sides : /\ r.kid[x][s] \in H2 \cup {Nil}
                                /\ Back(old, n, r.kid[x][s]) = u.kid[Back(old, n, x)][s]
InOrder(H, old, n) == \A x \in H \ {old}, s \in Sides : On(s, x, old) => On(s, x, n)

LEMMA BackFacts ==
  ASSUME NEW u, NEW r, NEW H, NEW K, Shaped(u, H, K), NEW H2, NEW old, NEW n,
         Renamed(u, r, H, H2, old, n)
  PROVE  /\ \A x \in H2 : Back(old, n, x) \in H /\ x \in Entries /\ x # Nil
         /\ \A x \in H2 \cup {Nil} : Back(old, n, x) \in H \cup {Nil}
         /\ \A x \in H2 \cup {Nil} : Back(old, n, x) = Nil <=> x = Nil
         /\ \A x, y \in H2 \cup {Nil} : Back(old, n, x) = Back(old, n, y) => x = y
<1>1. old \in H /\ n \in Entries /\ n \notin H /\ H2 = (H \ {old}) \cup {n}
  BY DEF Renamed
<1>2. (\A x \in H : x \in Entries /\ x # Nil) /\ Nil \notin Entries
  BY ShapedFacts, EntryFacts
<1> QED
  BY <1>1, <1>2 DEF Back

LEMMA RenamedLinked ==
  ASSUME NEW u, NEW r, NEW H, NEW K, Shaped(u, H, K), NEW H2, NEW old, NEW n,
         Renamed(u, r, H, H2, old, n)
  PROVE  Linked(r, H2)
<1>1. /\ \A x \in H2 : Back(old, n, x) \in H /\ x \in Entries /\ x # Nil
      /\ \A x \in H2 \cup {Nil} : Back(old, n, x) \in H \cup {Nil}
      /\ \A x \in H2 \cup {Nil} : Back(old, n, x) = Nil <=> x = Nil
      /\ \A x, y \in H2 \cup {Nil} : Back(old, n, x) = Back(old, n, y) => x = y
  BY BackFacts
<1>2. r \in Trees /\ r.root \in H2 \cup {Nil} /\ Back(old, n, r.root) = u.root
  BY DEF Renamed
<1>3. ASSUME NEW x \in H2
      PROVE  r.parent[x] \in H2 \cup {Nil} /\
             Back(old, n, r.parent[x]) = u.parent[Back(old, n, x)]
  BY DEF Renamed
<1>4. ASSUME NEW x \in H2, NEW s \in Sides
      PROVE  r.kid[x][s] \in H2 \cup {Nil} /\
             Back(old, n, r.kid[x][s]) = u.kid[Back(old, n, x)][s]
  BY DEF Renamed
<1>5. PICK sp : Linked(u, H) /\ Spans(u, H, sp)
  BY DEF Shaped
<1>6. \A z \in H : z = u.root <=> u.parent[z] = Nil
  BY <1>5, KidSides
<1>7. ASSUME NEW x \in H2 PROVE x = r.root <=> r.parent[x] = Nil
  <2>1. PICK z : z = Back(old, n, x) /\ z \in H
    BY <1>1
  <2>2. x = r.root <=> z = u.root
    BY <1>1, <1>2, <2>1
  <2>3. r.parent[x] = Nil <=> u.parent[z] = Nil
    BY <1>1, <1>3, <2>1
  <2> QED
    BY <1>6, <2>1, <2>2, <2>3
<1>8. r.root # Nil => r.parent[r.root] = Nil
  BY <1>2, <1>7
<1>9. ASSUME NEW x \in H2, r.parent[x] # Nil
      PROVE  r.parent[x] \in H2 /\ \E s \in Sides : r.kid[r.parent[x]][s] = x
  <2>1. PICK z, p : z = Back(old, n, x) /\ z \in H /\ p = r.parent[x] /\ p \in H2
    BY <1>1, <1>3, <1>9
  <2>2. PICK y : y = Back(old, n, p) /\ y \in H /\ y = u.parent[z]
    BY <1>1, <1>3, <2>1
  <2>3. y # Nil
    BY <1>1, <2>1, <2>2
  <2>4. PICK s : Kid(u, H, y, s, z)
    BY <2>1, <2>2, <2>3, ParentIs
  <2>5. s \in Sides /\ u.kid[y][s] = z
    BY <2>4 DEF Kid
  <2>6. r.kid[p][s] \in H2 \cup {Nil} /\ Back(old, n, r.kid[p][s]) = u.kid[y][s]
    BY <1>4, <2>1, <2>2, <2>5
  <2>7. r.kid[p][s] = x
    BY <1>1, <2>1, <2>5, <2>6
  <2> QED
    BY <2>1, <2>5, <2>7
<1>10. ASSUME NEW x \in H2, NEW s \in Sides, r.kid[x][s] # Nil
       PROVE  r.kid[x][s] \in H2 /\ r.parent[r.kid[x][s]] = x
  <2>1. PICK z, k : z = Back(old, n, x) /\ z \in H /\ k = r.kid[x][s] /\ k \in H2
    BY <1>1, <1>4, <1>10
  <2>2. PICK m : m = Back(old, n, k) /\ m \in H /\ m = u.kid[z][s]
    BY <1>1, <1>4, <2>1
  <2>3. m # Nil
    BY <1>1, <2>1, <2>2
  <2>4. Kid(u, H, z, s, m)
    BY <2>1, <2>2, <2>3, KidIs
  <2>5. u.parent[m] = z
    BY <2>4, KidFacts
  <2>6. r.parent[k] \in H2 \cup {Nil} /\ Back(old, n, r.parent[k]) = u.parent[m]
    BY <1>3, <2>1, <2>2
  <2>7. r.parent[k] = x
    BY <1>1, <2>1, <2>5, <2>6
  <2> QED
    BY <2>1, <2>7
<1>11. H2 \subseteq Entries
  BY <1>1
<1> QED
  BY <1>2, <1>7, <1>8, <1>9, <1>10, <1>11 DEF Linked

LEMMA RenamedSpans ==
  ASSUME NEW u, NEW r, NEW H, NEW K, Shaped(u, H, K), NEW H2, NEW old, NEW n,
         Renamed(u, r, H, H2, old, n), InOrder(H, old, n)
  PROVE  \E sp : Spans(r, H2, sp)
<1>1. /\ \A x \in H2 : Back(old, n, x) \in H /\ x \in Entries /\ x # Nil
      /\ \A x \in H2 \cup {Nil} : Back(old, n, x) \in H \cup {Nil}
      /\ \A x \in H2 \cup {Nil} : Back(old, n, x) = Nil <=> x = Nil
      /\ \A x, y \in H2 \cup {Nil} : Back(old, n, x) = Back(old, n, y) => x = y
  BY BackFacts
<1>2. r \in Trees /\ r.root \in H2 \cup {Nil} /\ Back(old, n, r.root) = u.root
  BY DEF Renamed
<1>3. ASSUME NEW x \in H2, NEW s \in Sides
      PROVE  r.kid[x][s] \in H2 \cup {Nil} /\
             Back(old, n, r.kid[x][s]) = u.kid[Back(old, n, x)][s]
  BY DEF Renamed
<1>4. PICK sp : Linked(u, H) /\ Spans(u, H, sp)
  BY DEF Shaped
<1> DEFINE Of(z) == {y \in H2 : Back(old, n, y) \in sp[z]}
           sp2 == [x \in Places |-> Of(Back(old, n, x))]
<1>5. \A x \in H2 \cup {Nil} : x \in Places
  BY <1>1 DEF Places
<1>6. sp2 \in [Places -> SUBSET H2]
  OBVIOUS
<1>7. \A x \in H2 \cup {Nil} : \A y :
        y \in sp2[x] <=> y \in H2 /\ Back(old, n, y) \in sp[Back(old, n, x)]
  BY <1>5
<1>8. \A x \in H2 \cup {Nil} : sp2[x] \subseteq H2
  BY <1>5
<1> HIDE DEF sp2
<1>9. sp[Nil] = {} /\ sp[u.root] = H
  BY <1>4 DEF Spans
<1>10. sp2[Nil] = {}
  <2>1. Back(old, n, Nil) = Nil
    BY <1>1
  <2> QED
    BY <1>7, <1>9, <2>1
<1>11. sp2[r.root] = H2
  <2>1. \A y : y \in sp2[r.root] <=> y \in H2
    BY <1>1, <1>2, <1>7, <1>9
  <2> QED
    BY <2>1
<1>12. 0 \in Sides /\ 1 \in Sides
  BY DEF Sides
<1>13. ASSUME NEW x \in H2, NEW s \in Sides, NEW y
       PROVE  y \in sp2[r.kid[x][s]] <=>
                y \in H2 /\ Back(old, n, y) \in sp[u.kid[Back(old, n, x)][s]]
  BY <1>3, <1>7
<1>14. ASSUME NEW x \in H2
       PROVE  sp2[x] = {x} \cup sp2[r.kid[x][0]] \cup sp2[r.kid[x][1]]
  <2>1. PICK z : z = Back(old, n, x) /\ z \in H
    BY <1>1
  <2>2. sp[z] = {z} \cup sp[u.kid[z][0]] \cup sp[u.kid[z][1]]
    BY <1>4, <2>1 DEF Spans
  <2>3. \A y : /\ y \in sp2[r.kid[x][0]] <=> y \in H2 /\ Back(old, n, y) \in sp[u.kid[z][0]]
               /\ y \in sp2[r.kid[x][1]] <=> y \in H2 /\ Back(old, n, y) \in sp[u.kid[z][1]]
    BY <1>12, <1>13, <2>1
  <2>4. \A y : y \in sp2[x] <=> y \in H2 /\ Back(old, n, y) \in sp[z]
    BY <1>7, <2>1
  <2>5. \A y \in H2 : Back(old, n, y) = z <=> y = x
    BY <1>1, <2>1
  <2>6. \A y : y \in sp2[x] <=> y \in {x} \cup sp2[r.kid[x][0]] \cup sp2[r.kid[x][1]]
    <3> TAKE y
    <3>1. CASE y \in H2
      BY <2>2, <2>3, <2>4, <2>5, <3>1
    <3>2. CASE y \notin H2
      BY <2>3, <2>4, <3>2
    <3> QED
      BY <3>1, <3>2
  <2> QED
    BY <2>6
<1>15. ASSUME NEW x \in H2, NEW s \in Sides, NEW y \in sp2[r.kid[x][s]] PROVE On(s, y, x)
  <2>1. PICK z, v : z = Back(old, n, x) /\ v = Back(old, n, y)
    OBVIOUS
  <2>2. y \in H2 /\ v \in sp[u.kid[z][s]] /\ z \in H /\ v \in H
    BY <1>1, <1>13, <2>1
  <2>3. On(s, v, z)
    BY <1>4, <2>2 DEF Spans
  <2>4. old \in H /\ n \in Entries /\ \A w \in H : w \in Entries
    BY ShapedFacts DEF Renamed
  <2>5. v # z
    BY <2>2, <2>3, <2>4, OnFacts
  <2>6. CASE x = n
    <3>1. z = old /\ v # old /\ v = y
      BY <2>1, <2>5, <2>6 DEF Back
    <3> QED
      BY <2>2, <2>3, <2>6, <3>1 DEF InOrder
  <2>7. CASE x # n /\ y = n
    <3>1. v = old /\ z # old /\ z = x
      BY <2>1, <2>5, <2>7 DEF Back
    <3>2. PICK o : o = 1 - s /\ o \in Sides /\ s = 1 - o
      BY OnFacts
    <3>3. On(o, z, old)
      BY <2>2, <2>3, <2>4, <3>1, <3>2, OnFacts
    <3>4. On(o, z, n)
      BY <2>2, <3>1, <3>2, <3>3 DEF InOrder
    <3>5. On(s, n, z)
      BY <2>2, <2>4, <3>2, <3>4, OnFacts
    <3> QED
      BY <2>7, <3>1, <3>5
  <2>8. CASE x # n /\ y # n
    BY <2>1, <2>3, <2>8 DEF Back
  <2> QED
    BY <2>6, <2>7, <2>8
<1> QED
  BY <1>6, <1>10, <1>11, <1>14, <1>15 DEF Spans

LEMMA RenamedHeights ==
  ASSUME NEW u, NEW r, NEW H, NEW K, Shaped(u, H, K), NEW H2, NEW old, NEW n,
         Renamed(u, r, H, H2, old, n),
         NEW b, NEW q, NEW d, Heights(u, H, b, Back(old, n, q), d), q \in H2 \cup {Nil}
  PROVE  \E b2 : Heights(r, H2, b2, q, d)
<1>1. /\ \A x \in H2 : Back(old, n, x) \in H /\ x \in Entries /\ x # Nil
      /\ \A x \in H2 \cup {Nil} : Back(old, n, x) \in H \cup {Nil}
      /\ \A x \in H2 \cup {Nil} : Back(old, n, x) = Nil <=> x = Nil
      /\ \A x, y \in H2 \cup {Nil} : Back(old, n, x) = Back(old, n, y) => x = y
  BY BackFacts
<1>2. ASSUME NEW x \in H2
      PROVE  Weight(r, x) = Weight(u, Back(old, n, x))
  BY DEF Renamed, Weight
<1>3. ASSUME NEW x \in H2, NEW s \in Sides
      PROVE  r.kid[x][s] \in H2 \cup {Nil} /\
             Back(old, n, r.kid[x][s]) = u.kid[Back(old, n, x)][s]
  BY DEF Renamed
<1>4. \A x \in H2 \cup {Nil} : x \in Places
  BY <1>1 DEF Places
<1>5. \A x \in H \cup {Nil} : x \in Places /\ b[x] \in Nat
  <2>1. \A x \in H \cup {Nil} : x \in Places
    BY ShapedFacts DEF Places
  <2> QED
    BY <2>1 DEF Heights
<1> DEFINE b2 == [x \in Places |-> IF x \in H2 THEN b[Back(old, n, x)] ELSE 0]
<1>6. b2 \in [Places -> Nat] /\ b2[Nil] = 0
  <2>1. \A x \in H2 : b[Back(old, n, x)] \in Nat
    BY <1>1, <1>5
  <2>2. Nil \in Places /\ Nil \notin H2
    BY <1>1 DEF Places
  <2> QED
    BY <2>1, <2>2
<1>7. \A x \in H2 \cup {Nil} : b2[x] = b[Back(old, n, x)]
  <2>1. b[Nil] = 0 /\ Back(old, n, Nil) = Nil
    BY <1>1 DEF Heights
  <2> QED
    BY <1>4, <1>6, <2>1
<1> HIDE DEF b2
<1>8. ASSUME NEW x \in H2, NEW s \in Sides
      PROVE  b2[x] = b2[r.kid[x][s]] + Weight(r, x) + IF x = q /\ s = d THEN 1 ELSE 0
  <2>1. PICK z : z = Back(old, n, x) /\ z \in H
    BY <1>1
  <2>2. b2[x] = b[z] /\ b2[r.kid[x][s]] = b[u.kid[z][s]] /\ Weight(r, x) = Weight(u, z)
    BY <1>2, <1>3, <1>7, <2>1
  <2>3. b[z] = b[u.kid[z][s]] + Weight(u, z) + IF z = Back(old, n, q) /\ s = d THEN 1 ELSE 0
    BY <2>1 DEF Heights
  <2>4. z = Back(old, n, q) <=> x = q
    BY <1>1, <2>1
  <2> QED
    BY <2>2, <2>3, <2>4
<1> QED
  BY <1>6, <1>8 DEF Heights

LEMMA RenamedReds ==
  ASSUME NEW u, NEW r, NEW H, NEW K, Shaped(u, H, K), NEW H2, NEW old, NEW n,
         Renamed(u, r, H, H2, old, n), NEW X, old \notin X, RedsApart(u, H, X, {})
  PROVE  RedsApart(r, H2, X, {})
<1>1. /\ \A x \in H2 : Back(old, n, x) \in H
      /\ \A x \in H2 \cup {Nil} : Back(old, n, x) = Nil <=> x = Nil
  BY BackFacts
<1> SUFFICES ASSUME NEW x \in H2, x \in r.red, x \notin X
             PROVE  r.parent[x] # Nil /\ r.parent[x] \notin r.red
  BY DEF RedsApart
<1>2. PICK z, p : z = Back(old, n, x) /\ p = r.parent[x]
  OBVIOUS
<1>3. z \in H /\ z \in u.red /\ p \in H2 \cup {Nil} /\ Back(old, n, p) = u.parent[z]
  BY <1>1, <1>2 DEF Renamed
<1>4. z \notin X
  BY <1>2 DEF Back
<1>5. u.parent[z] # Nil /\ u.parent[z] \notin u.red
  BY <1>3, <1>4 DEF RedsApart
<1>6. p # Nil /\ p \in H2
  BY <1>1, <1>3, <1>5
<1>7. p \notin r.red
  BY <1>3, <1>5, <1>6 DEF Renamed
<1> QED
  BY <1>2, <1>6, <1>7

Relink(t, n, kids, p, reds) == [t EXCEPT !.kid[n] = kids, !.parent[n] = p, !.red = reds]
Relinked(t, r, n, kids, p, reds) ==
  /\ r \in Trees /\ r.root = t.root /\ r.red = reds
  /\ \A x \in Entries, s \in Sides : r.kid[x][s] = IF x = n THEN kids[s] ELSE t.kid[x][s]
  /\ \A x \in Entries : r.parent[x] = IF x = n THEN p ELSE t.parent[x]

LEMMA RelinkedIs ==
  ASSUME NEW t \in Trees, NEW n \in Entries, NEW kids \in [Sides -> Places],
         NEW p \in Places, NEW reds \in SUBSET Entries,
         NEW r, r = Relink(t, n, kids, p, reds)
  PROVE  Relinked(t, r, n, kids, p, reds)
<1>1. r \in Trees
  BY DEF Trees, Relink
<1>2. /\ r.kid = [t.kid EXCEPT ![n] = kids] /\ r.parent = [t.parent EXCEPT ![n] = p]
      /\ r.red = reds /\ r.root = t.root
  BY DEF Trees, Relink
<1>3. t.kid \in [Entries -> [Sides -> Places]] /\ t.parent \in [Entries -> Places]
  BY DEF Trees
<1> QED
  BY <1>1, <1>2, <1>3 DEF Relinked

\* n is linked where old is, and has its colour.
LikeOld(t, r, old, n, g) ==
  /\ r \in Trees /\ r.root = t.root
  /\ \A x \in Entries, s \in Sides :
       r.kid[x][s] = IF x = n THEN t.kid[old][s] ELSE t.kid[x][s]
  /\ \A x \in Entries : r.parent[x] = IF x = n THEN g ELSE t.parent[x]
  /\ \A x : x \in r.red <=> IF x = n THEN old \in t.red ELSE x \in t.red

LEMMA AlikeIs ==
  ASSUME NEW t \in Trees, NEW old \in Entries, NEW n \in Entries,
         NEW g, g = t.parent[old], NEW r, r = Alike(t, old, n)
  PROVE  LikeOld(t, r, old, n, g)
<1>1. PICK reds : reds = IF old \in t.red THEN t.red \cup {n} ELSE t.red \ {n}
  OBVIOUS
<1>2. PICK kids : kids = t.kid[old]
  OBVIOUS
<1>3. kids \in [Sides -> Places] /\ g \in Places /\ reds \in SUBSET Entries
  BY <1>1, <1>2 DEF Trees
<1>4. r = Relink(t, n, kids, g, reds)
  BY <1>1, <1>2 DEF Alike, IsRed, Relink
<1>5. Relinked(t, r, n, kids, g, reds)
  BY <1>3, <1>4, RelinkedIs
<1>6. \A x : x \in reds <=> IF x = n THEN old \in t.red ELSE x \in t.red
  BY <1>1
<1> QED
  BY <1>2, <1>5, <1>6 DEF LikeOld, Relinked

LEMMA InPlaceIs ==
  ASSUME NEW u, NEW H, NEW K, Shaped(u, H, K), NEW old \in H, NEW n \in Entries \ H, n \in K,
         NEW r, r = InPlaceOf(u, old, n), NEW H2, H2 = (H \ {old}) \cup {n}
  PROVE  Renamed(u, r, H, H2, old, n) /\ Clear(r, K)
<1>1. /\ u \in Trees /\ old \in Entries /\ old # Nil /\ Nil \notin H /\ n # Nil /\ n # old
      /\ n \notin H /\ n \in Entries
      /\ \A x \in H : x \in Entries /\ x # Nil
  BY ShapedFacts, EntryFacts
<1>2. PICK g, k0, k1 : g = u.parent[old] /\ k0 = u.kid[old][0] /\ k1 = u.kid[old][1]
  OBVIOUS
<1>3. 0 \in Sides /\ 1 \in Sides /\ \A s \in Sides : s = 0 \/ s = 1
  BY DEF Sides
<1>4. k0 \in H \cup {Nil} /\ k1 \in H \cup {Nil} /\ g \in H \cup {Nil} /\ g # old
      /\ (g = Nil <=> old = u.root)
  <2>1. PICK sp : Linked(u, H) /\ Spans(u, H, sp)
    BY DEF Shaped
  <2>2. g \in H \cup {Nil} /\ g # old /\ (g = Nil <=> old = u.root)
    BY <1>2, <2>1, KidSides
  <2> QED
    BY <1>2, <1>3, <2>2, KidIs
<1>5. \A x \in H \cup {Nil} : x \in Places
  BY ShapedFacts DEF Places
<1>6. PICK a0 : a0 = Alike(u, old, n)
  OBVIOUS
<1>7. LikeOld(u, a0, old, n, g)
  <2>1. g = u.parent[old]
    BY <1>2
  <2> QED
    BY <1>1, <1>6, <2>1, AlikeIs
<1>8. /\ a0 \in Trees /\ a0.root = u.root
      /\ \A x \in Entries, s \in Sides :
           a0.kid[x][s] = IF x = n THEN u.kid[old][s] ELSE u.kid[x][s]
      /\ \A x \in Entries : a0.parent[x] = IF x = n THEN g ELSE u.parent[x]
      /\ \A x : x \in a0.red <=> IF x = n THEN old \in u.red ELSE x \in u.red
  BY <1>7 DEF LikeOld
<1>9. PICK a, d : a = Hang(a0, g, old, n) /\ d = SideOf(a0, g, old)
  OBVIOUS
<1>10. HungAt(a0, a, g, d, n)
  <2>1. n \in Places /\ old \in Places /\ g \in Places
    BY <1>1, <1>4, <1>5 DEF Places
  <2> QED
    BY <1>8, <1>9, <2>1, HangIs
<1>11. PICK a1 : a1 = WithParent(a, k0, n)
  OBVIOUS
<1>12. ParentSet(a, a1, k0, n)
  <2>1. a \in Trees /\ k0 \in Places /\ n \in Places
    BY <1>1, <1>4, <1>5, <1>10 DEF HungAt, Places
  <2> QED
    BY <1>11, <2>1, WithParentIs
<1>13. ParentSet(a1, r, k1, n)
  <2>1. a1 \in Trees /\ k1 \in Places /\ n \in Places
    BY <1>1, <1>4, <1>5, <1>12 DEF ParentSet, Places
  <2>2. r = WithParent(a1, k1, n)
    BY <1>2, <1>6, <1>9, <1>11 DEF InPlaceOf
  <2> QED
    BY <2>1, <2>2, WithParentIs
<1>14. /\ r \in Trees /\ r.root = IF g = Nil THEN n ELSE u.root
       /\ \A x : x \in r.red <=> IF x = n THEN old \in u.red ELSE x \in u.red
  BY <1>8, <1>10, <1>12, <1>13 DEF HungAt, ParentSet
<1>15. ASSUME NEW x \in Entries, NEW s \in Sides
       PROVE  r.kid[x][s] = IF x = g /\ s = d THEN n
                            ELSE IF x = n THEN u.kid[old][s] ELSE u.kid[x][s]
  <2>1. r.kid = a.kid
    BY <1>12, <1>13 DEF ParentSet
  <2>2. a.kid[x][s] = IF x = g /\ s = d THEN n ELSE a0.kid[x][s]
    BY <1>10 DEF HungAt
  <2> QED
    BY <1>8, <2>1, <2>2
<1>16. ASSUME NEW x \in Entries
       PROVE  r.parent[x] = IF x = k0 \/ x = k1 THEN n ELSE IF x = n THEN g ELSE u.parent[x]
  <2>1. r.parent[x] = IF x = k1 THEN n ELSE a1.parent[x]
    BY <1>13 DEF ParentSet
  <2>2. a1.parent[x] = IF x = k0 THEN n ELSE a.parent[x]
    BY <1>12 DEF ParentSet
  <2>3. a.parent[x] = IF x = n THEN g ELSE u.parent[x]
    BY <1>8, <1>10 DEF HungAt
  <2> QED
    BY <2>1, <2>2, <2>3
<1>17. g # Nil => Kid(u, H, g, d, old)
  <2> SUFFICES ASSUME g # Nil PROVE Kid(u, H, g, d, old)
    OBVIOUS
  <2>1. Kid(u, H, g, SideOf(u, g, old), old)
    BY <1>2, ParentIs
  <2>2. a0.kid[g][0] = u.kid[g][0]
    BY <1>1, <1>3, <1>4, <1>8
  <2>3. d = SideOf(u, g, old)
    BY <1>9, <2>2 DEF SideOf
  <2> QED
    BY <2>1, <2>3
<1>18. ASSUME NEW x \in H, u.parent[x] = old PROVE x = k0 \/ x = k1
  <2>1. PICK s : Kid(u, H, old, s, x)
    BY <1>1, <1>18, ParentIs
  <2> QED
    BY <1>2, <1>3, <2>1 DEF Kid
<1>19. ASSUME NEW x \in H, x = k0 \/ x = k1 PROVE u.parent[x] = old /\ x # old
  <2>1. PICK s : s \in Sides /\ u.kid[old][s] = x
    BY <1>2, <1>3, <1>19
  <2>2. Kid(u, H, old, s, x)
    BY <1>1, <2>1, KidIs
  <2> QED
    BY <2>2, KidFacts
<1>20. r.root \in H2 \cup {Nil} /\ Back(old, n, r.root) = u.root
  <2>1. u.root \in H \cup {Nil}
    BY DEF Shaped, Linked
  <2> QED
    BY <1>1, <1>4, <1>14, <2>1 DEF Back
<1>21. ASSUME NEW x \in H2
       PROVE  /\ r.parent[x] \in H2 \cup {Nil}
              /\ Back(old, n, r.parent[x]) = u.parent[Back(old, n, x)]
  <2>1. CASE x = n
    <3>1. r.parent[x] = g
      BY <1>1, <1>4, <1>16, <2>1
    <3> QED
      BY <1>1, <1>2, <1>4, <2>1, <3>1 DEF Back
  <2>2. CASE x # n
    <3>1. x \in H /\ x # old /\ Back(old, n, x) = x
      BY <2>2 DEF Back
    <3>2. CASE x = k0 \/ x = k1
      <4>1. u.parent[x] = old
        BY <1>19, <3>1, <3>2
      <4>2. r.parent[x] = n
        BY <1>1, <1>16, <3>1, <3>2
      <4> QED
        BY <3>1, <4>1, <4>2 DEF Back
    <3>3. CASE ~(x = k0 \/ x = k1)
      <4>1. PICK p : p = u.parent[x]
        OBVIOUS
      <4>2. r.parent[x] = p
        BY <1>1, <1>16, <2>2, <3>1, <3>3, <4>1
      <4>3. p \in H \cup {Nil}
        BY <3>1, <4>1, ParentIs
      <4>4. p # old
        BY <1>18, <3>1, <3>3, <4>1
      <4>5. p # n
        BY <1>1, <4>3
      <4> QED
        BY <3>1, <4>1, <4>2, <4>3, <4>4, <4>5 DEF Back
    <3> QED
      BY <3>2, <3>3
  <2> QED
    BY <2>1, <2>2
<1>22. ASSUME NEW x \in H2, NEW s \in Sides
       PROVE  /\ r.kid[x][s] \in H2 \cup {Nil}
              /\ Back(old, n, r.kid[x][s]) = u.kid[Back(old, n, x)][s]
  <2>1. x \in Entries
    BY <1>1
  <2>2. CASE x = g /\ s = d
    <3>1. g # Nil /\ x # n
      BY <1>1, <1>4, <2>1, <2>2, EntryFacts
    <3>2. u.kid[g][d] = old
      BY <1>17, <3>1 DEF Kid
    <3>3. r.kid[x][s] = n
      BY <1>15, <2>1, <2>2
    <3> QED
      BY <2>2, <3>1, <3>2, <3>3 DEF Back
  <2>3. CASE x = n
    <3>1. PICK k : k = u.kid[old][s]
      OBVIOUS
    <3>2. r.kid[x][s] = k
      BY <1>1, <1>4, <1>15, <2>1, <2>3, <3>1
    <3>3. k \in H \cup {Nil}
      BY <3>1, KidIs
    <3>4. k # old
      <4>1. k = k0 \/ k = k1
        BY <1>2, <1>3, <3>1
      <4> QED
        BY <1>1, <1>19, <4>1
    <3> QED
      BY <1>1, <2>3, <3>1, <3>2, <3>3, <3>4 DEF Back
  <2>4. CASE ~(x = g /\ s = d) /\ x # n
    <3>1. PICK k : k = u.kid[x][s]
      OBVIOUS
    <3>2. r.kid[x][s] = k /\ x \in H
      BY <1>15, <2>1, <2>4, <3>1
    <3>3. k \in H \cup {Nil} /\ (k # Nil => Kid(u, H, x, s, k))
      BY <3>1, <3>2, KidIs
    <3>4. k # old
      <4> SUFFICES ASSUME k = old PROVE FALSE
        OBVIOUS
      <4>1. Kid(u, H, x, s, old)
        BY <1>1, <3>3
      <4>2. u.parent[old] = x /\ SideOf(u, x, old) = s
        BY <4>1, KidFacts
      <4>3. x = g /\ g # Nil
        BY <1>1, <1>2, <3>2, <4>2
      <4>4. SideOf(u, g, old) = d
        BY <1>17, <4>3, KidFacts
      <4> QED
        BY <2>4, <4>2, <4>3, <4>4
    <3> QED
      BY <1>1, <2>4, <3>1, <3>2, <3>3, <3>4 DEF Back
  <2> QED
    BY <2>2, <2>3, <2>4
<1>23. \A x \in H2 : x \in r.red <=> Back(old, n, x) \in u.red
  BY <1>14 DEF Back
<1>24. Renamed(u, r, H, H2, old, n)
  BY <1>1, <1>14, <1>20, <1>21, <1>22, <1>23 DEF Renamed
<1>25. ASSUME NEW x \in Entries \ K, NEW s \in Sides PROVE r.kid[x][s] = Nil
  <2>1. x # n /\ x # g
    <3>1. H \subseteq K
      BY DEF Shaped
    <3> QED
      BY <1>4, <3>1, EntryFacts
  <2>2. u.kid[x][s] = Nil
    BY DEF Shaped, Clear
  <2> QED
    BY <1>15, <2>1, <2>2
<1> QED
  BY <1>24, <1>25 DEF Clear

\* The links of what has been removed are cleared.
LEMMA ClearedIs ==
  ASSUME NEW t, NEW H, NEW K, Sound(t, H, K, Nil, 0), RedsApart(t, H, {}, {}),
         NEW old \in Entries \ H, K = H \cup {old}, NEW r, r = Cleared(t, old)
  PROVE  Good(r, H)
<1>1. Shaped(t, H, K) /\ t \in Trees /\ Linked(t, H) /\ \A x \in H : x \in Entries
  BY ShapedFacts DEF Sound
<1>2. PICK none : none = [s \in Sides |-> Nil]
  OBVIOUS
<1>3. none \in [Sides -> Places] /\ Nil \in Places
  BY <1>2 DEF Places
<1>4. /\ r \in Trees /\ r.root = t.root /\ r.red = t.red \ {old}
      /\ \A x \in Entries, s \in Sides :
           r.kid[x][s] = IF x = old THEN none[s] ELSE t.kid[x][s]
      /\ \A x \in Entries : r.parent[x] = IF x = old THEN Nil ELSE t.parent[x]
  <2>1. PICK reds : reds = t.red \ {old}
    OBVIOUS
  <2>2. reds \in SUBSET Entries
    BY <1>1, <2>1 DEF Trees
  <2>3. r = Relink(t, old, none, Nil, reds)
    BY <1>2, <2>1 DEF Cleared, Relink
  <2>4. Relinked(t, r, old, none, Nil, reds)
    BY <1>1, <1>3, <2>2, <2>3, RelinkedIs
  <2> QED
    BY <2>1, <2>4 DEF Relinked
<1>5. ASSUME NEW x \in H
      PROVE  /\ r.parent[x] = t.parent[x] /\ x \in Entries
             /\ \A s \in Sides : r.kid[x][s] = t.kid[x][s]
  BY <1>1, <1>4
<1>6. Linked(r, H)
  <2>1. \A x \in H : r.parent[x] = Nil => x = r.root
    BY <1>1, <1>4, <1>5 DEF Linked
  <2>2. ASSUME NEW x \in H, r.parent[x] # Nil
        PROVE  r.parent[x] \in H /\ \E s \in Sides : r.kid[r.parent[x]][s] = x
    <3>1. r.parent[x] \in H /\ \E s \in Sides : t.kid[r.parent[x]][s] = x
      BY <1>1, <1>5, <2>2 DEF Linked
    <3> QED
      BY <1>5, <3>1
  <2>3. ASSUME NEW x \in H, NEW s \in Sides, r.kid[x][s] # Nil
        PROVE  r.kid[x][s] \in H /\ r.parent[r.kid[x][s]] = x
    <3>1. r.kid[x][s] = t.kid[x][s]
      BY <1>5
    <3>2. t.kid[x][s] \in H /\ t.parent[t.kid[x][s]] = x
      BY <1>1, <2>3, <3>1 DEF Linked
    <3> QED
      BY <1>5, <3>1, <3>2
  <2>4. r.root \in H \cup {Nil} /\ (r.root # Nil => r.parent[r.root] = Nil)
    BY <1>1, <1>4, <1>5 DEF Linked
  <2>5. H \subseteq Entries
    BY <1>1
  <2> QED
    BY <1>4, <2>1, <2>2, <2>3, <2>4, <2>5 DEF Linked
<1>7. PICK sp : Spans(t, H, sp)
  BY <1>1 DEF Shaped
<1>8. Spans(r, H, sp)
  <2>1. 0 \in Sides /\ 1 \in Sides
    BY DEF Sides
  <2> QED
    BY <1>4, <1>5, <1>7, <2>1 DEF Spans
<1>9. PICK b : Heights(t, H, b, Nil, 0)
  BY DEF Sound
<1>10. Heights(r, H, b, Nil, 0)
  <2>1. \A x \in H : Weight(r, x) = Weight(t, x)
    BY <1>4 DEF Weight
  <2> QED
    BY <1>5, <1>9, <2>1 DEF Heights
<1>11. ASSUME NEW x \in Entries \ H, NEW s \in Sides PROVE r.kid[x][s] = Nil
  <2>1. CASE x = old
    <3>1. r.kid[x][s] = none[s]
      BY <1>4, <2>1
    <3> QED
      BY <1>2, <3>1
  <2>2. CASE x # old
    <3>1. r.kid[x][s] = t.kid[x][s]
      BY <1>4, <2>2
    <3>2. t.kid[x][s] = Nil
      BY <1>1, <2>2 DEF Shaped, Clear
    <3> QED
      BY <3>1, <3>2
  <2> QED
    BY <2>1, <2>2
<1>12. Sound(r, H, H, Nil, 0)
  BY <1>6, <1>8, <1>10, <1>11 DEF Sound, Shaped, Clear
<1>13. RedsApart(r, H, {}, {})
  <2> SUFFICES ASSUME NEW x \in H, x \in r.red
               PROVE  r.parent[x] # Nil /\ r.parent[x] \notin r.red
    BY DEF RedsApart
  <2>1. x \in t.red /\ r.parent[x] = t.parent[x]
    BY <1>4, <1>5
  <2>2. t.parent[x] # Nil /\ t.parent[x] \notin t.red
    BY <2>1 DEF RedsApart
  <2> QED
    BY <1>4, <2>1, <2>2
<1> QED
  BY <1>12, <1>13 DEF Good

\* Which entry leaves its place when old is removed: old when it has a side
\* free, else the next one, whose left is free.
LEMMA LeavingIs ==
  ASSUME NEW t, NEW H, NEW K, Shaped(t, H, K), NEW old \in H, NEW e, e = Leaving(t, old)
  PROVE  /\ e \in H /\ \E s \in Sides : t.kid[e][s] = Nil
         /\ e # old => InOrder(H \ {e}, old, e) /\ OnlyKid(t, e) # old
<1>1. PICK sp : Linked(t, H) /\ Spans(t, H, sp)
  BY DEF Shaped
<1>2. 0 \in Sides /\ 1 \in Sides /\ 1 - 1 = 0
  BY DEF Sides
<1>3. \A x \in H : x \in Entries /\ x # Nil
  BY ShapedFacts
<1>4. CASE ~(t.kid[old][0] # Nil /\ t.kid[old][1] # Nil)
  <2>1. e = old
    BY <1>4 DEF Leaving
  <2> QED
    BY <1>2, <1>4, <2>1
<1>5. CASE t.kid[old][0] # Nil /\ t.kid[old][1] # Nil
  <2>1. PICK right : right = t.kid[old][1] /\ right \in H
    BY <1>2, <1>5, KidIs
  <2>2. e = Farthest(t, right, 0)
    BY <1>5, <2>1 DEF Leaving
  <2>3. /\ e \in sp[right] /\ e \in H /\ t.kid[e][0] = Nil
        /\ \A y \in sp[right] : y = e \/ On(1 - 0, y, e)
    BY <1>1, <1>2, <2>1, <2>2, FarthestIs
  <2>4. On(1, e, old) /\ e \in sp[old] /\ e # old
    <3>1. On(1, e, old)
      BY <1>1, <1>2, <2>1, <2>3 DEF Spans
    <3>2. sp[right] \subseteq sp[old] /\ old \notin sp[right]
      BY <1>1, <1>2, <2>1, KidOf
    <3> QED
      BY <2>3, <3>1, <3>2
  <2>5. ASSUME NEW x \in (H \ {e}) \ {old}, NEW s \in Sides, On(s, x, old)
        PROVE  On(s, x, e)
    <3>1. x \in H /\ x # e /\ x # old /\ x \in Entries /\ old \in Entries /\ e \in Entries
      BY <1>3, <2>3
    <3>2. CASE s = 0
      <4>1. On(0, old, e)
        <5>1. On(1 - 1, old, e)
          BY <1>2, <2>4, <3>1, OnFacts
        <5> QED
          BY <1>2, <5>1
      <4> QED
        BY <1>2, <2>5, <3>1, <3>2, <4>1, OnFacts
    <3>3. CASE s = 1
      <4>1. CASE x \in sp[right]
        BY <2>3, <3>1, <3>3, <4>1
      <4>2. CASE x \in sp[t.kid[old][0]]
        <5>1. On(0, x, old)
          BY <1>1, <1>2, <4>2 DEF Spans
        <5>2. ~(On(1, x, old) /\ On(1 - 1, x, old))
          BY <1>2, <3>1, OnFacts
        <5> QED
          BY <1>2, <2>5, <3>3, <5>1, <5>2
      <4>3. CASE x \notin sp[old]
        <5>1. PICK a \in Sides : \A z \in sp[old] : On(a, x, z)
          BY <1>1, <3>1, <4>3, Apart
        <5>2. On(a, x, old) /\ On(a, x, e)
          BY <1>1, <2>4, <5>1, SpanFacts
        <5>3. a = 1
          <6>1. CASE a = 0
            <7>1. ~(On(1, x, old) /\ On(1 - 1, x, old))
              BY <1>2, <3>1, OnFacts
            <7> QED
              BY <1>2, <2>5, <3>3, <5>2, <6>1, <7>1
          <6> QED
            BY <6>1 DEF Sides
        <5> QED
          BY <3>3, <5>2, <5>3
      <4>4. sp[old] = {old} \cup sp[t.kid[old][0]] \cup sp[t.kid[old][1]]
        BY <1>1 DEF Spans
      <4> QED
        BY <2>1, <3>1, <4>1, <4>2, <4>3, <4>4
    <3> QED
      BY <3>2, <3>3 DEF Sides
  <2>6. InOrder(H \ {e}, old, e)
    BY <2>5 DEF InOrder
  <2>7. OnlyKid(t, e) # old
    <3> SUFFICES ASSUME OnlyKid(t, e) = old PROVE FALSE
      OBVIOUS
    <3>1. t.kid[e][1] = old
      BY <2>3 DEF OnlyKid
    <3>2. e \notin sp[old]
      BY <1>1, <1>2, <2>3, <3>1, KidOf
    <3> QED
      BY <2>4, <3>2
  <2> QED
    BY <1>2, <2>3, <2>6, <2>7
<1> QED
  BY <1>4, <1>5

\* What is lacking below q is lacking below p, q or what took its place.
LEMMA PartedMoves ==
  ASSUME NEW t, NEW u, NEW r, NEW H, NEW K, Shaped(u, H, K), NEW H2, NEW old, NEW e,
         Renamed(u, r, H, H2, old, e), InOrder(H, old, e), Clear(r, K), H2 \subseteq K,
         NEW q, NEW c, q # e, c # old, Parted(t, u, H, K, e, q, c),
         NEW p, p = IF q = old THEN e ELSE q
  PROVE  Parted(t, r, H2, K, e, p, c)
<1>1. Shaped(r, H2, K)
  BY RenamedLinked, RenamedSpans DEF Shaped
<1>2. /\ old \in H /\ e \notin H /\ H2 = (H \ {old}) \cup {e} /\ e # Nil /\ Nil \notin H
      /\ e # old
  BY EntryFacts, ShapedFacts DEF Renamed
<1>3. Back(old, e, p) = q /\ Back(old, e, Nil) = Nil
  BY <1>2 DEF Back
<1>4. \A x : Back(old, e, x) = c => x = c
  BY DEF Back
<1>5. ASSUME NEW a, NEW d, Sound(u, H, K, Back(old, e, a), d), a \in H2 \cup {Nil}
      PROVE  Sound(r, H2, K, a, d)
  <2>1. PICK b : Heights(u, H, b, Back(old, e, a), d)
    BY <1>5 DEF Sound
  <2>2. \E b2 : Heights(r, H2, b2, a, d)
    BY <1>5, <2>1, RenamedHeights
  <2> QED
    BY <1>1, <2>2 DEF Sound
<1>6. CASE e \in t.red
  <2>1. Sound(u, H, K, Nil, 0) /\ RedsApart(u, H, {}, {})
    BY <1>6 DEF Parted
  <2>2. Sound(r, H2, K, Nil, 0)
    BY <1>3, <1>5, <2>1
  <2>3. RedsApart(r, H2, {}, {})
    BY <2>1, RenamedReds
  <2> QED
    BY <1>6, <2>2, <2>3 DEF Parted
<1>7. CASE e \notin t.red
  <2>1. Lacking(u, H, K, q, c)
    BY <1>7 DEF Parted
  <2>2. RedsApart(r, H2, {c}, {})
    <3>1. RedsApart(u, H, {c}, {}) /\ old \notin {c}
      BY <2>1 DEF Lacking
    <3> QED
      BY <3>1, RenamedReds
  <2>3. CASE q = Nil /\ c = u.root /\ Sound(u, H, K, Nil, 0)
    <3>1. p = Nil /\ Sound(r, H2, K, Nil, 0)
      BY <1>2, <1>3, <1>5, <2>3
    <3>2. r.root = c
      BY <1>4, <2>3 DEF Renamed
    <3>3. Lacking(r, H2, K, p, c)
      BY <2>2, <3>1, <3>2 DEF Lacking
    <3> QED
      BY <1>7, <3>3 DEF Parted
  <2>4. CASE \E d \in Sides : q \in H /\ u.kid[q][d] = c /\ Sound(u, H, K, q, d)
    <3>1. PICK d \in Sides : q \in H /\ u.kid[q][d] = c /\ Sound(u, H, K, q, d)
      BY <2>4
    <3>2. p \in H2
      BY <1>2, <3>1
    <3>3. Sound(r, H2, K, p, d)
      BY <1>3, <1>5, <3>1, <3>2
    <3>4. r.kid[p][d] = c
      <4>1. Back(old, e, r.kid[p][d]) = u.kid[Back(old, e, p)][d]
        BY <3>2 DEF Renamed
      <4> QED
        BY <1>3, <1>4, <3>1, <4>1
    <3>5. Lacking(r, H2, K, p, c)
      BY <2>2, <3>2, <3>3, <3>4 DEF Lacking
    <3> QED
      BY <1>7, <3>5 DEF Parted
  <2> QED
    BY <2>1, <2>3, <2>4 DEF Lacking
<1> QED
  BY <1>6, <1>7

LEMMA TakenOutIs ==
  ASSUME NEW t, NEW H, Good(t, H), NEW old \in H, NEW e, e = Leaving(t, old),
         NEW c, c = OnlyKid(t, e), NEW p, p = IF t.parent[e] = old THEN e ELSE t.parent[e],
         NEW r, r = TakenOut(t, old, e)
  PROVE  Parted(t, r, H \ {old}, H, e, p, c)
<1>1. Shaped(t, H, H)
  BY DEF Good, Sound
<1>2. /\ e \in H /\ \E s \in Sides : t.kid[e][s] = Nil
      /\ e # old => InOrder(H \ {e}, old, e) /\ c # old
  BY <1>1, LeavingIs
<1>3. PICK q, d : q = t.parent[e] /\ d = SideOf(t, q, e)
  OBVIOUS
<1>4. OneKid(t, H, e, c, q, d)
  BY <1>2, <1>3, OneKidIs
<1>5. PICK u : u = Unlinked(t, e)
  OBVIOUS
<1>6. Shaped(u, H \ {e}, H) /\ Parted(t, u, H \ {e}, H, e, q, c)
  BY <1>4, <1>5, UnlinkedIs
<1>7. q # e /\ p = IF q = old THEN e ELSE q
  <2>1. q \in (H \ {e}) \cup {Nil} /\ e # Nil
    BY <1>1, <1>4, OneKidFacts
  <2> QED
    BY <1>3, <2>1
<1>8. CASE e = old
  <2>1. r = u /\ p = q
    BY <1>5, <1>7, <1>8 DEF TakenOut
  <2> QED
    BY <1>6, <1>8, <2>1
<1>9. CASE e # old
  <2>1. r = InPlaceOf(u, old, e)
    BY <1>5, <1>9 DEF TakenOut
  <2>2. PICK H1, H2 : H1 = H \ {e} /\ H2 = H \ {old}
    OBVIOUS
  <2>3. H2 = (H1 \ {old}) \cup {e} /\ old \in H1 /\ H2 \subseteq H
    BY <1>2, <1>9, <2>2
  <2>4. e \in Entries \ H1
    BY <1>1, <1>2, <2>2, ShapedFacts
  <2>5. Shaped(u, H1, H) /\ Parted(t, u, H1, H, e, q, c) /\ InOrder(H1, old, e)
    BY <1>2, <1>6, <1>9, <2>2
  <2>6. Renamed(u, r, H1, H2, old, e) /\ Clear(r, H)
    BY <1>2, <2>1, <2>3, <2>4, <2>5, InPlaceIs
  <2>7. Parted(t, r, H2, H, e, p, c)
    BY <1>2, <1>7, <1>9, <2>3, <2>5, <2>6, PartedMoves
  <2> QED
    BY <2>2, <2>7
<1> QED
  BY <1>8, <1>9

\* Removing keeps what RB_REMOVE() relies on, for what is left.
LEMMA RemovedIs ==
  ASSUME NEW t, NEW H, Good(t, H), NEW old \in H, NEW r, r = Removed(t, old)
  PROVE  Good(r, H \ {old})
<1>1. PICK e, c : e = Leaving(t, old) /\ c = OnlyKid(t, e)
  OBVIOUS
<1>2. PICK p : p = IF t.parent[e] = old THEN e ELSE t.parent[e]
  OBVIOUS
<1>3. PICK out, H2 : out = TakenOut(t, old, e) /\ H2 = H \ {old}
  OBVIOUS
<1>4. Parted(t, out, H2, H, e, p, c)
  BY <1>1, <1>2, <1>3, TakenOutIs
<1>5. PICK done : done = IF e \in t.red THEN out ELSE RemoveColor(out, p, c)
  OBVIOUS
<1>6. r = Cleared(done, old)
  BY <1>1, <1>2, <1>3, <1>5 DEF Removed, IsRed
<1>7. Sound(done, H2, H, Nil, 0) /\ RedsApart(done, H2, {}, {})
  <2>1. CASE e \in t.red
    BY <1>4, <1>5, <2>1 DEF Parted
  <2>2. CASE e \notin t.red
    <3>1. RemoveWay(out, H2, H, p, c)
      BY <1>4, <2>2, LackingGoesOn DEF Parted
    <3>2. done = RemoveColor(out, p, c)
      BY <1>5, <2>2
    <3> QED
      BY <3>1, <3>2, RemoveColorIs
  <2> QED
    BY <2>1, <2>2
<1>8. old \in Entries \ H2 /\ H = H2 \cup {old}
  <2>1. old \in Entries
    BY ShapedFacts DEF Good, Sound
  <2> QED
    BY <1>3, <2>1
<1>9. Good(r, H2)
  BY <1>6, <1>7, <1>8, ClearedIs
<1> QED
  BY <1>3, <1>9

-----------------------------------------------------------------------------
(* What always holds.                                                      *)

LEMMA GoodInit == TreeInit => Good(tree, held)
<1> SUFFICES ASSUME TreeInit PROVE Good(tree, held)
  OBVIOUS
<1>1. /\ tree.root = Nil /\ tree.red = {} /\ held = {}
      /\ \A x \in Entries, s \in Sides : tree.kid[x][s] = Nil
  BY DEF TreeInit
<1>2. tree \in Trees
  <2>1. Nil \in Places /\ {} \in SUBSET Entries
    BY DEF Places
  <2> QED
    BY <2>1 DEF TreeInit, Trees
<1>3. Linked(tree, held)
  BY <1>1, <1>2 DEF Linked
<1>4. PICK none : none = {}
  OBVIOUS
<1>5. PICK sp : sp = [x \in Places |-> none]
  OBVIOUS
<1>6. Spans(tree, held, sp)
  <2>1. sp \in [Places -> SUBSET held] /\ \A x \in Places : sp[x] = none
    BY <1>1, <1>4, <1>5
  <2>2. Nil \in Places
    BY DEF Places
  <2> QED
    BY <1>1, <1>4, <2>1, <2>2 DEF Spans
<1>7. PICK b : b = [x \in Places |-> 0]
  OBVIOUS
<1>8. Heights(tree, held, b, Nil, 0)
  <2>1. b \in [Places -> Nat] /\ \A x \in Places : b[x] = 0
    BY <1>7
  <2>2. Nil \in Places
    BY DEF Places
  <2> QED
    BY <1>1, <2>1, <2>2 DEF Heights
<1>9. Clear(tree, held)
  BY <1>1 DEF Clear
<1>10. RedsApart(tree, held, {}, {})
  BY <1>1 DEF RedsApart
<1> QED
  BY <1>3, <1>6, <1>8, <1>9, <1>10 DEF Good, Sound, Shaped

LEMMA GoodStep ==
  ASSUME Good(tree, held), [TreeNext]_rvars
  PROVE  Good(tree', held')
<1>1. CASE UNCHANGED rvars
  BY <1>1 DEF rvars
<1>2. ASSUME NEW e \in Entries, Insert(e) PROVE Good(tree', held')
  <2>1. e \in Entries \ held /\ tree' = Inserted(tree, e)
    BY <1>2 DEF Insert
  <2>2. held' = IF \E h \in held : Key(h) = Key(e) THEN held ELSE held \cup {e}
    BY <1>2 DEF Insert
  <2> QED
    BY <2>1, <2>2, InsertedIs
<1>3. ASSUME NEW e \in Entries, Remove(e) PROVE Good(tree', held')
  <2>1. e \in held /\ tree' = Removed(tree, e) /\ held' = held \ {e}
    BY <1>3 DEF Remove
  <2> QED
    BY <2>1, RemovedIs
<1> QED
  BY <1>1, <1>2, <1>3 DEF TreeNext

\* The entries held are below the root, each where its key belongs, linked up
\* and down alike; all ways down pass as many blacks; no red one is below a
\* red one: from any tree RB_INSERT() and RB_REMOVE() make, and so always.
TreeInv == Good(tree, held)

THEOREM TreeGood == TreeSpec => []TreeInv
<1>1. TreeInit => TreeInv
  BY GoodInit DEF TreeInv
<1>2. TreeInv /\ [TreeNext]_rvars => TreeInv'
  BY GoodStep DEF TreeInv
<1> QED
  BY <1>1, <1>2, PTL DEF TreeSpec

LEMMA LeastIs ==
  ASSUME NEW S, NEW n \in S, \A h \in S : Key(n) <= Key(h),
         \A h \in S : Key(h) \in Int /\ (Key(h) = Key(n) => h = n)
  PROVE  Least(S) = n
<1>1. \A e \in S : (\A h \in S : Key(e) <= Key(h)) => e = n
  OBVIOUS
<1> QED
  BY <1>1 DEF Least

LEMMA GoodInOrder == Good(tree, held) => SetInOrder
<1> SUFFICES ASSUME Good(tree, held) PROVE SetInOrder
  OBVIOUS
<1>1. Shaped(tree, held, held)
  BY DEF Good, Sound
<1>2. PICK sp : Linked(tree, held) /\ Spans(tree, held, sp)
  BY <1>1 DEF Shaped
<1>3. \A x \in held : x \in Entries /\ x # Nil /\ Key(x) \in Int
  BY <1>1, ShapedFacts, EntryFacts
<1>4. Keys \subseteq Int
  BY KeysAssumption DEF KeysComparable
<1>5. ASSUME NEW k \in Keys
      PROVE  /\ Found(tree, k) \in held \cup {Nil}
             /\ Found(tree, k) = Nil <=> ~\E e \in held : Key(e) = k
  BY <1>2, <1>4, FoundIs
<1>6. ASSUME NEW k \in Keys, NEW after, after = {e \in held : Key(e) >= k}
      PROVE  NFound(tree, k) = IF after = {} THEN Nil ELSE Least(after)
  <2>1. PICK n : n = NFound(tree, k)
    OBVIOUS
  <2>2. /\ n \in held \cup {Nil} /\ (n # Nil => Key(n) >= k)
        /\ \A y \in held : Key(y) >= k => n # Nil /\ Key(n) <= Key(y)
    BY <1>2, <1>4, <2>1, NFoundIs
  <2>3. CASE after = {}
    BY <1>6, <2>1, <2>2, <2>3
  <2>4. CASE after # {}
    <3>1. n # Nil
      BY <1>6, <2>2, <2>4
    <3>2. n \in after /\ \A h \in after : Key(n) <= Key(h)
      BY <1>6, <2>2, <3>1
    <3>3. \A h \in after : Key(h) \in Int /\ (Key(h) = Key(n) => h = n)
      <4>1. \A x, y \in held : Key(x) = Key(y) => x = y
        BY <1>2, KeysDiffer
      <4> QED
        BY <1>3, <1>6, <3>2, <4>1
    <3>4. Least(after) = n
      BY <3>2, <3>3, LeastIs
    <3> QED
      BY <2>1, <2>4, <3>4
  <2> QED
    BY <2>3, <2>4
<1>7. ASSUME NEW s \in Sides, NEW w, w = Walk(tree, s)
      PROVE  /\ {w[i] : i \in DOMAIN w} = held
             /\ \A i \in 1..Len(w) - 1 :
                  IF s = 1 THEN Key(w[i]) < Key(w[i + 1]) ELSE Key(w[i]) > Key(w[i + 1])
  <2>1. /\ w \in Seq(held) /\ {w[i] : i \in DOMAIN w} = held
        /\ \A i \in 1..Len(w) - 1 : On(s, w[i + 1], w[i])
    BY <1>2, <1>7, WalkIs
  <2>2. ASSUME NEW i \in 1..Len(w) - 1
        PROVE  IF s = 1 THEN Key(w[i]) < Key(w[i + 1]) ELSE Key(w[i]) > Key(w[i + 1])
    <3>1. PICK x, y : x = w[i] /\ y = w[i + 1]
      OBVIOUS
    <3>2. i \in 1..Len(w) /\ i + 1 \in 1..Len(w)
      BY <2>1
    <3>3. x \in held /\ y \in held
      BY <2>1, <3>1, <3>2
    <3>4. On(s, y, x) /\ Key(x) \in Int /\ Key(y) \in Int
      BY <1>3, <2>1, <3>1, <3>3
    <3>5. IF s = 1 THEN Key(x) < Key(y) ELSE Key(x) > Key(y)
      BY <3>4 DEF On, Sides
    <3> QED
      BY <3>1, <3>5
  <2> QED
    BY <2>1, <2>2
<1> QED
  BY <1>5, <1>6, <1>7 DEF SetInOrder

LEMMA GoodBalanced == Good(tree, held) => Balanced
<1> SUFFICES ASSUME Good(tree, held) PROVE Balanced
  OBVIOUS
<1>1. Shaped(tree, held, held) /\ RedsApart(tree, held, {}, {})
  BY DEF Good, Sound
<1>2. PICK sp : Linked(tree, held) /\ Spans(tree, held, sp)
  BY <1>1 DEF Shaped
<1>3. PICK b : Heights(tree, held, b, Nil, 0)
  BY DEF Good, Sound
<1>4. ASSUME NEW e \in held, NEW s \in Sides, tree.kid[e][s] = Nil
      PROVE  Blacks(e) = b[tree.root]
  BY <1>2, <1>3, <1>4, BlacksIs
<1>5. \A e \in held \cap tree.red : tree.parent[e] # Nil /\ tree.parent[e] \notin tree.red
  BY <1>1 DEF RedsApart
<1> QED
  BY <1>4, <1>5 DEF Balanced

\* RB_FIND() finds what was inserted and not removed and nothing else,
\* RB_NFIND() the least key from k on, and RB_FOREACH() meets all there is in
\* order, either way, whatever was inserted and removed before.
THEOREM TreeInOrder == TreeSpec => []SetInOrder
  BY TreeGood, GoodInOrder, PTL DEF TreeInv

\* RB_INSERT_COLOR() and RB_REMOVE_COLOR() leave no red entry below a red one,
\* and as many blacks on each way to a free place.
THEOREM TreeBalanced == TreeSpec => []Balanced
  BY TreeGood, GoodBalanced, PTL DEF TreeInv
=============================================================================
