-------------------------------- MODULE RbTree --------------------------------
(***************************************************************************)
(* The red-black tree of aloe_compat/tree.h as aloe_rb_tree_t has it:      *)
(* entries with an integer key, compared by aloe_rb_int_cmp().  A side is  *)
(* 0 for left and 1 for right, and each operation that the macros write    *)
(* twice, for left and for right, is written once for a side.  The links   *)
(* of an entry in no tree are never read: here they are cleared.           *)
(***************************************************************************)
EXTENDS Integers, Sequences, FiniteSets

CONSTANTS
  Keys,      (* The keys, integers.                                         *)
  Twice      (* Those that two entries have.                                *)

\* aloe_rb_int_cmp() subtracts: no two keys are further apart than a long
\* reaches, which is of 32 bits here.
LongMax == 2^30 + (2^30 - 1)
KeysComparable ==
  /\ IsFiniteSet(Keys) /\ Keys \subseteq Int /\ Twice \subseteq Keys
  /\ \A j, k \in Keys : j - k <= LongMax
ASSUME KeysAssumption == KeysComparable

VARIABLES
  tree,      (* [root, kid, parent, red].                                   *)
  held       (* History: the entries inserted and not removed.              *)

rvars == <<tree, held>>

Entries == (Keys \X {1}) \cup (Twice \X {2})
Nil == <<>>
Sides == {0, 1}
Key(e) == e[1]

\* What the head and the links of the entries can be.
Places == Entries \cup {Nil}
Trees == [root : Places, kid : [Entries -> [Sides -> Places]],
          parent : [Entries -> Places], red : SUBSET Entries]

\* A loop whose turn is f, from x: no loop here takes more turns than there
\* are entries, and what has ended it turns into itself.
Loop(f, x) ==
  LET most == Cardinality(Entries)
      after[n \in 0..most] == IF n = 0 THEN x ELSE f[after[n - 1]]
  IN after[most]

TreeInit ==
  /\ tree = [root |-> Nil, kid |-> [e \in Entries |-> [s \in Sides |-> Nil]],
             parent |-> [e \in Entries |-> Nil], red |-> {}]
  /\ held = {}

\* The side of parent p that holds e; RB_RIGHT when RB_LEFT is not e.
SideOf(t, p, e) == IF t.kid[p][0] = e THEN 0 ELSE 1

WithKid(t, e, s, n) == [t EXCEPT !.kid[e][s] = n]
WithParent(t, e, p) == IF e = Nil THEN t ELSE [t EXCEPT !.parent[e] = p]

\* What p, or the head, has in the place of e becomes n.
Hang(t, p, e, n) ==
  IF p = Nil THEN [t EXCEPT !.root = n]
  ELSE WithKid(t, p, SideOf(t, p, e), n)

Paint(t, blacks, reds) == [t EXCEPT !.red = (@ \ blacks) \cup reds]
IsRed(t, e) == e \in t.red

\* RB_ROTATE_LEFT() is Rotate(t, e, 0): e goes down on side s, its other kid up
\* in its place below g, and what that has inside goes to e.
Raised(t, e, s, up, inner, g) ==
  LET a == WithParent(WithKid(t, e, 1 - s, inner), inner, e)
      b == Hang(WithParent(a, up, g), g, e, up)
  IN WithParent(WithKid(b, up, s, e), e, up)
Rotate(t, e, s) ==
  LET up == t.kid[e][1 - s] IN Raised(t, e, s, up, t.kid[up][s], t.parent[e])

-----------------------------------------------------------------------------
(* RB_INSERT().                                                            *)

\* A turn of RB_INSERT_COLOR(): the tree and elm.
InsertTurn(t, e) ==
  LET p == t.parent[e]
      g == t.parent[p]
      s == SideOf(t, g, p)
      uncle == t.kid[g][1 - s]
  IN IF p = Nil \/ ~IsRed(t, p) THEN <<t, e>>
     ELSE IF IsRed(t, uncle) THEN <<Paint(t, {uncle, p}, {g}), g>>
     ELSE IF t.kid[p][1 - s] = e
          THEN <<Rotate(Paint(Rotate(t, p, s), {e}, {g}), g, 1 - s), p>>
          ELSE <<Rotate(Paint(t, {p}, {g}), g, 1 - s), e>>
InsertTurns == [c \in Trees \X Entries |-> InsertTurn(c[1], c[2])]
InsertColor(t, e) ==
  LET done == Loop(InsertTurns, <<t, e>>)[1] IN Paint(done, {done.root}, {})

\* The way down by key k: the last entry met.
DownTurns(t, k) ==
  [e \in Entries |->
     LET n == t.kid[e][IF k < Key(e) THEN 0 ELSE 1] IN IF k = Key(e) \/ n = Nil THEN e ELSE n]
Nearest(t, k) == IF t.root = Nil THEN Nil ELSE Loop(DownTurns(t, k), t.root)

\* The tree with e, or as it is when an entry has the key.
Inserted(t, e) ==
  LET p == Nearest(t, Key(e))
      in == Paint(WithParent(t, e, p), {}, {e})
  IN IF p = Nil THEN InsertColor([in EXCEPT !.root = e], e)
     ELSE IF Key(p) = Key(e) THEN t
     ELSE InsertColor(WithKid(in, p, IF Key(e) < Key(p) THEN 0 ELSE 1, e), e)

-----------------------------------------------------------------------------
(* RB_REMOVE().                                                            *)

\* RB_REMOVE_COLOR(), side s of p one black short: the other kid made black;
\* its outer kid made red when the inner is; the black it has to give.
BlackBeside(t, p, s) ==
  LET w == t.kid[p][1 - s] IN IF IsRed(t, w) THEN Rotate(Paint(t, {w}, {p}), p, s) ELSE t
RedOutside(t, w, s) ==
  IF IsRed(t, t.kid[w][1 - s]) THEN t
  ELSE Rotate(Paint(t, {t.kid[w][s]}, {w}), w, 1 - s)
Filled(t, p, s, w) ==
  LET black == {p, t.kid[w][1 - s]} IN
  Rotate(IF IsRed(t, p) THEN Paint(t, black, {w}) ELSE Paint(t, black \cup {w}, {}), p, s)

\* A turn: the tree, parent and elm, whose side of parent is one black short.
RemoveTurn(t0, p, e) ==
  LET s == SideOf(t0, p, e)
      t == BlackBeside(t0, p, s)
      w == t.kid[p][1 - s]
      u == RedOutside(t, w, s)
      done == Filled(u, p, s, u.kid[p][1 - s])
  IN IF IsRed(t0, e) \/ e = t0.root THEN <<t0, p, e>>
     ELSE IF ~IsRed(t, t.kid[w][s]) /\ ~IsRed(t, t.kid[w][1 - s])
     THEN <<Paint(t, {}, {w}), t.parent[p], p>>
     ELSE <<done, p, done.root>>
RemoveTurns == [c \in Trees \X Places \X Places |-> RemoveTurn(c[1], c[2], c[3])]
RemoveColor(t, p, e) ==
  LET done == Loop(RemoveTurns, <<t, p, e>>) IN Paint(done[1], {done[3]}, {})

\* As far as it goes from e on side s.
FarTurns(t, s) == [e \in Entries |-> IF t.kid[e][s] = Nil THEN e ELSE t.kid[e][s]]
Farthest(t, e, s) == Loop(FarTurns(t, s), e)

\* The links of e are cleared.
Cleared(t, e) ==
  [t EXCEPT !.kid[e] = [s \in Sides |-> Nil], !.parent[e] = Nil, !.red = @ \ {e}]

\* e leaves its place to its only kid.
OnlyKid(t, e) == IF t.kid[e][0] = Nil THEN t.kid[e][1] ELSE t.kid[e][0]
UnlinkedUp(t, e) == Hang(t, t.parent[e], e, OnlyKid(t, e))
Unlinked(t, e) ==
  Hang(WithParent(t, OnlyKid(t, e), t.parent[e]), t.parent[e], e, OnlyKid(t, e))

\* n takes the place and the colour of old.
Alike(t, old, n) ==
  [t EXCEPT !.kid[n] = t.kid[old], !.parent[n] = t.parent[old],
            !.red = IF IsRed(t, old) THEN @ \cup {n} ELSE @ \ {n}]
InPlaceOf(t, old, n) ==
  LET a == Hang(Alike(t, old, n), t.parent[old], old, n)
  IN WithParent(WithParent(a, t.kid[old][0], n), t.kid[old][1], n)

\* With two kids the next entry is unlinked and takes the place.
Leaving(t, old) ==
  IF t.kid[old][0] # Nil /\ t.kid[old][1] # Nil THEN Farthest(t, t.kid[old][1], 0) ELSE old
TakenOut(t, old, e) ==
  IF e = old THEN Unlinked(t, e) ELSE InPlaceOf(Unlinked(t, e), old, e)
RemovedKeepsColor(t, old) == Cleared(TakenOut(t, old, Leaving(t, old)), old)
Removed(t, old) ==
  LET e == Leaving(t, old)
      p == IF t.parent[e] = old THEN e ELSE t.parent[e]
      out == TakenOut(t, old, e)
  IN Cleared(IF IsRed(t, e) THEN out ELSE RemoveColor(out, p, OnlyKid(t, e)), old)

-----------------------------------------------------------------------------
(* The ways of reading.                                                    *)

Found(t, k) ==
  LET e == Nearest(t, k) IN IF e # Nil /\ Key(e) = k THEN e ELSE Nil

\* RB_NFIND(), a turn and all: tmp, and res, where the way last went left.
NFoundTurns(t, k) ==
  [c \in Places \X Places |->
     LET e == c[1] IN
     IF e = Nil THEN c
     ELSE IF k = Key(e) THEN <<Nil, e>>
     ELSE IF k < Key(e) THEN <<t.kid[e][0], e>> ELSE <<t.kid[e][1], c[2]>>]
NFound(t, k) == Loop(NFoundTurns(t, k), <<t.root, Nil>>)[2]

\* RB_NEXT() is s = 1, RB_PREV() s = 0.
ClimbTurns(t, s) ==
  [e \in Entries |->
     LET p == t.parent[e] IN IF p # Nil /\ t.kid[p][s] = e THEN p ELSE e]
Climb(t, e, s) == t.parent[Loop(ClimbTurns(t, s), e)]
Beside(t, e, s) ==
  IF t.kid[e][s] # Nil THEN Farthest(t, t.kid[e][s], 1 - s) ELSE Climb(t, e, s)

\* RB_MINMAX(), and RB_FOREACH(), which goes on from there: the entries met,
\* and the next.
MinMax(t, s) == IF t.root = Nil THEN Nil ELSE Farthest(t, t.root, s)
WalkTurns(t, s) ==
  [c \in Seq(Entries) \X Places |->
     IF c[2] = Nil THEN c ELSE <<Append(c[1], c[2]), Beside(t, c[2], s)>>]
Walk(t, s) == Loop(WalkTurns(t, s), <<<<>>, MinMax(t, 1 - s)>>)[1]

-----------------------------------------------------------------------------
Insert(e) ==
  /\ e \notin held
  /\ tree' = Inserted(tree, e)
  /\ held' = (IF \E h \in held : Key(h) = Key(e) THEN held ELSE held \cup {e})

Remove(e) ==
  /\ e \in held
  /\ tree' = Removed(tree, e)
  /\ held' = held \ {e}

TreeNext == \E e \in Entries : Insert(e) \/ Remove(e)

TreeSpec == TreeInit /\ [][TreeNext]_rvars

-----------------------------------------------------------------------------
Least(S) == CHOOSE e \in S : \A h \in S : Key(e) <= Key(h)

\* What is found is what was inserted and not removed, and the ways through
\* the tree, up and down by its links, go through all of it in order.
SetInOrder ==
  /\ \A k \in Keys :
       /\ Found(tree, k) \in held \cup {Nil}
       /\ Found(tree, k) = Nil <=> ~\E e \in held : Key(e) = k
       /\ LET after == {e \in held : Key(e) >= k} IN
          NFound(tree, k) = IF after = {} THEN Nil ELSE Least(after)
  /\ \A s \in Sides : LET w == Walk(tree, s) IN
       /\ {w[i] : i \in DOMAIN w} = held
       /\ \A i \in 1..Len(w) - 1 :
            IF s = 1 THEN Key(w[i]) < Key(w[i + 1]) ELSE Key(w[i]) > Key(w[i + 1])

\* The blacks on the way from e to the root.
BlackTurns ==
  [c \in Nat \X Places |->
     IF c[2] = Nil THEN c
     ELSE <<c[1] + IF IsRed(tree, c[2]) THEN 0 ELSE 1, tree.parent[c[2]]>>]
Blacks(e) == Loop(BlackTurns, <<0, e>>)[1]

\* No way to a free place is more than twice as long as another: a red entry
\* has a black parent, and all those ways pass as many blacks.
Balanced ==
  LET ends == {e \in held : \E s \in Sides : tree.kid[e][s] = Nil} IN
  /\ \A e \in held \cap tree.red :
       tree.parent[e] # Nil /\ tree.parent[e] \notin tree.red
  /\ \A e, f \in ends : Blacks(e) = Blacks(f)
=============================================================================
