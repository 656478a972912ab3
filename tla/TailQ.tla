-------------------------------- MODULE TailQ --------------------------------
(***************************************************************************)
(* The tail queue of aloe_compat/queue.h, which keeps the service's free   *)
(* frames, the pipe's requests and the cases of a test suite.  A slot is a *)
(* place that holds a pointer to an element: <<"first", h>> of a head or   *)
(* <<"next", e>> of an element; tqh_last and tqe_prev are addresses of     *)
(* slots.  The caller inserts what is on no queue and removes what is on   *)
(* the queue it names.                                                     *)
(***************************************************************************)
EXTENDS Naturals, Sequences, FiniteSets

SX == INSTANCE SequencesExt

CONSTANTS Heads, Elems, Null

VARIABLES
  slot,    (* The pointer each slot holds.                                  *)
  last,    (* tqh_last of each head: the slot at the end of the queue.      *)
  prev     (* tqe_prev of each element: the slot that points to it.         *)

qvars == <<slot, last, prev>>

First(h) == <<"first", h>>
Nxt(e) == <<"next", e>>
Nexts == {Nxt(e) : e \in Elems}
Slots == {First(h) : h \in Heads} \cup Nexts
NoSlot == <<"none", Null>>

\* TAILQ_INIT() of every head.
Init ==
  /\ slot = [s \in Slots |-> Null]
  /\ last = [h \in Heads |-> First(h)]
  /\ prev = [e \in Elems |-> NoSlot]

Most == Cardinality(Elems)

\* TAILQ_FOREACH(): the elements from what slot s holds on, n at most.
WalkFrom[n \in 0..Most] ==
  [s \in Slots |->
     IF slot[s] = Null \/ n = 0 THEN <<>>
     ELSE <<slot[s]>> \o WalkFrom[n - 1][Nxt(slot[s])]]
Walk(h) == WalkFrom[Most][First(h)]

\* TAILQ_FOREACH_REVERSE(): the elements up to the one whose next is slot s.
\* TAILQ_PREV() finds it by the layout of head and entry; at the slot of a head
\* it reads what the last slot holds, which is null.
BackFrom[n \in 0..Most] ==
  [s \in Slots \cup {NoSlot} |->
     IF s \notin Nexts \/ n = 0 THEN <<>>
     ELSE BackFrom[n - 1][prev[s[2]]] \o <<s[2]>>]
WalkBack(h) == BackFrom[Most][last[h]]

On(h) == {Walk(h)[i] : i \in DOMAIN Walk(h)}
Off == {e \in Elems : \A h \in Heads : e \notin On(h)}

-----------------------------------------------------------------------------
InsertHead(h, e) ==
  LET f == slot[First(h)] IN
  /\ slot' = [slot EXCEPT ![Nxt(e)] = f, ![First(h)] = e]
  /\ IF f # Null
       THEN prev' = [prev EXCEPT ![f] = Nxt(e), ![e] = First(h)] /\ UNCHANGED last
       ELSE prev' = [prev EXCEPT ![e] = First(h)] /\ last' = [last EXCEPT ![h] = Nxt(e)]

InsertTail(h, e) ==
  /\ slot' = [slot EXCEPT ![Nxt(e)] = Null, ![last[h]] = e]
  /\ prev' = [prev EXCEPT ![e] = last[h]]
  /\ last' = [last EXCEPT ![h] = Nxt(e)]

InsertAfter(h, l, e) ==
  LET f == slot[Nxt(l)] IN
  /\ slot' = [slot EXCEPT ![Nxt(e)] = f, ![Nxt(l)] = e]
  /\ IF f # Null
       THEN prev' = [prev EXCEPT ![f] = Nxt(e), ![e] = Nxt(l)] /\ UNCHANGED last
       ELSE prev' = [prev EXCEPT ![e] = Nxt(l)] /\ last' = [last EXCEPT ![h] = Nxt(e)]

InsertBefore(l, e) ==
  /\ slot' = [slot EXCEPT ![Nxt(e)] = l, ![prev[l]] = e]
  /\ prev' = [prev EXCEPT ![e] = prev[l], ![l] = Nxt(e)]
  /\ UNCHANGED last

RemoveKeepsLast(h, e) ==
  LET n == slot[Nxt(e)] IN
  /\ slot' = [slot EXCEPT ![prev[e]] = n]
  /\ prev' = IF n # Null THEN [prev EXCEPT ![n] = prev[e]] ELSE prev
  /\ UNCHANGED last
Remove(h, e) ==
  LET n == slot[Nxt(e)] IN
  /\ slot' = [slot EXCEPT ![prev[e]] = n]
  /\ IF n # Null
       THEN prev' = [prev EXCEPT ![n] = prev[e]] /\ UNCHANGED last
       ELSE last' = [last EXCEPT ![h] = prev[e]] /\ UNCHANGED prev

Replace(h, e, n) ==
  LET f == slot[Nxt(e)] IN
  /\ slot' = [slot EXCEPT ![Nxt(n)] = f, ![prev[e]] = n]
  /\ IF f # Null
       THEN prev' = [prev EXCEPT ![f] = Nxt(n), ![n] = prev[e]] /\ UNCHANGED last
       ELSE prev' = [prev EXCEPT ![n] = prev[e]] /\ last' = [last EXCEPT ![h] = Nxt(n)]

Concat(g, h) ==
  LET f == slot[First(h)] IN
  /\ f # Null
  /\ slot' = [slot EXCEPT ![last[g]] = f, ![First(h)] = Null]
  /\ prev' = [prev EXCEPT ![f] = last[g]]
  /\ last' = [last EXCEPT ![g] = last[h], ![h] = First(h)]

Next ==
  \E h \in Heads :
    \/ \E e \in Off : \/ InsertHead(h, e) \/ InsertTail(h, e)
                      \/ \E l \in On(h) : \/ InsertAfter(h, l, e)
                                          \/ InsertBefore(l, e)
                                          \/ Replace(h, l, e)
    \/ \E e \in On(h) : Remove(h, e)
    \/ \E g \in Heads \ {h} : Concat(g, h)

-----------------------------------------------------------------------------
\* The queue of h becomes the sequence l, the other queues stay.
Becomes(h, l) == \A g \in Heads : Walk(g)' = IF g = h THEN l ELSE Walk(g)

At(h, e) == CHOOSE i \in DOMAIN Walk(h) : Walk(h)[i] = e

\* What each operation does to the sequences, wherever in the queue it is used
\* and whatever was done before.
Lists(h) ==
  /\ \A e \in Off :
       /\ InsertHead(h, e) => Becomes(h, <<e>> \o Walk(h))
       /\ InsertTail(h, e) => Becomes(h, Append(Walk(h), e))
       /\ \A l \in On(h) :
            /\ InsertAfter(h, l, e) => Becomes(h, SX!InsertAt(Walk(h), At(h, l) + 1, e))
            /\ InsertBefore(l, e) => Becomes(h, SX!InsertAt(Walk(h), At(h, l), e))
            /\ Replace(h, l, e) => Becomes(h, SX!ReplaceAt(Walk(h), At(h, l), e))
  /\ \A e \in On(h) : Remove(h, e) => Becomes(h, SX!RemoveAt(Walk(h), At(h, e)))
  /\ \A g \in Heads \ {h} :
       Concat(h, g) => /\ Walk(h)' = Walk(h) \o Walk(g)
                       /\ Walk(g)' = <<>>

\* Both ways through a queue meet the same elements: every prev and last is
\* the address of the slot that the way forward uses.
BothWays == \A h \in Heads : Walk(h) = WalkBack(h)

\* Every operation does to the lists what its name says, and leaves the way
\* back the reverse of the way forward.
QueueIsList == [][(\A h \in Heads : Lists(h)) /\ BothWays']_qvars
=============================================================================
