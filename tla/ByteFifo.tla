------------------------------ MODULE ByteFifo ------------------------------
(***************************************************************************)
(* What every buffer of components/aloe promises: bytes come out in the    *)
(* order they went in, none is lost or made up, and no more than Cap are   *)
(* held.  A call moves as many bytes as it can and tells how many.         *)
(***************************************************************************)
EXTENDS Integers, Sequences

CONSTANTS Cap, Data     (* Data: what a caller may offer to write.          *)
VARIABLES content, out  (* out: what the last call moved, and bytes it gave.*)
vars == <<content, out>>

Fewer(m, n) == IF m <= n THEN m ELSE n

Nothing == <<0, <<>>>>

Init == content = <<>> /\ out = Nothing

Put(d) ==
  LET n == Fewer(Len(d), Cap - Len(content)) IN
  content' = content \o SubSeq(d, 1, n) /\ out' = <<n, <<>>>>

Get(n) ==
  LET m == Fewer(n, Len(content)) IN
  /\ out' = <<m, SubSeq(content, 1, m)>>
  /\ content' = SubSeq(content, m + 1, Len(content))

Drop == content' = <<>> /\ out' = Nothing

Quiet == UNCHANGED content /\ out' = Nothing

Next == (\E d \in Data : Put(d)) \/ (\E n \in 0..Cap + 1 : Get(n)) \/ Drop \/ Quiet

Spec == Init /\ [][Next]_vars
=============================================================================
