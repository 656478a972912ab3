------------------------------- MODULE AloeBuf -------------------------------
(***************************************************************************)
(* aloe_buf_t of components/aloe/aloe_util.c, in its two uses.             *)
(* As a ring: aloe_rinbuf_write() and aloe_rinbuf_read(), pos the first    *)
(* byte held and lmt how many.  In line: pos <= lmt <= cap, filled at pos  *)
(* after a clear and drained from pos after a flip; while it drains it may *)
(* be appended to at lmt, and rewound.                                     *)
(***************************************************************************)
EXTENDS Integers, Sequences

CONSTANTS
  Cap,      (* buf->cap, not 0.                                             *)
  Bytes,
  Blank     (* A byte never written, in none of them.                       *)

VARIABLES
  use,      (* "ring"; "fill" or "drain" for a buffer in line.              *)
  buf,      (* The buffer: [data, lmt, pos].                                *)
  out       (* How much the last call moved, and bytes copied to its caller.*)

vars == <<use, buf, out>>

Data == UNION {[1..n -> Bytes] : n \in 0..Cap + 1}
LesserOf(m, n) == IF m <= n THEN m ELSE n

\* memcpy() of d to offset at, and of n bytes from offset at.
Copy(data, at, d) ==
  [i \in 0..Cap - 1 |-> IF i \in at..at + Len(d) - 1 THEN d[i - at + 1] ELSE data[i]]
From(b, at, n) == [i \in 1..n |-> b.data[at + i - 1]]

Empty == [data |-> [i \in 0..Cap - 1 |-> Blank], lmt |-> 0, pos |-> 0]
Nothing == <<0, <<>>>>

\* _aloe_buf_clear().
Clear(b) == [b EXCEPT !.lmt = Cap, !.pos = 0]

Init ==
  /\ use \in {"ring", "fill"}
  /\ buf = (IF use = "ring" THEN Empty ELSE Clear(Empty))
  /\ out = Nothing

-----------------------------------------------------------------------------
(* The ring.                                                               *)

\* One turn of the loop copies up to the end of the memory; with nothing to
\* copy it changes nothing, which is where the loop ends.
WriteTurnPast(w) ==
  LET wpos == (w.b.pos + w.b.lmt) % Cap
      n == LesserOf(Len(w.d), Cap - wpos)
  IN [b |-> [w.b EXCEPT !.data = Copy(@, wpos, SubSeq(w.d, 1, n)), !.lmt = @ + n],
      d |-> SubSeq(w.d, n + 1, Len(w.d))]
WriteTurn(w) ==
  LET wpos == (w.b.pos + w.b.lmt) % Cap
      n == LesserOf(LesserOf(Len(w.d), Cap - w.b.lmt), Cap - wpos)
  IN [b |-> [w.b EXCEPT !.data = Copy(@, wpos, SubSeq(w.d, 1, n)), !.lmt = @ + n],
      d |-> SubSeq(w.d, n + 1, Len(w.d))]

ReadTurn(r) ==
  LET n == LesserOf(r.sz, Cap - r.b.pos)
  IN [b |-> [r.b EXCEPT !.pos = (@ + n) % Cap, !.lmt = @ - n],
      got |-> r.got \o From(r.b, r.b.pos, n), sz |-> r.sz - n]

\* The second turn starts at the start of the memory: if a third had anything
\* left to copy, the amount told would be wrong.
RingWrite(d) ==
  /\ use = "ring" /\ UNCHANGED use
  /\ out' = <<LesserOf(Len(d), Cap - buf.lmt), <<>>>>
  /\ buf' = WriteTurn(WriteTurn([b |-> buf, d |-> d])).b

RingRead(sz) ==
  LET m == LesserOf(sz, buf.lmt)
      r == ReadTurn(ReadTurn([b |-> buf, got |-> <<>>, sz |-> m]))
  IN /\ use = "ring" /\ UNCHANGED use
     /\ buf' = r.b /\ out' = <<m, r.got>>

-----------------------------------------------------------------------------
(* In line.                                                                *)

\* aloe_buf_add_pos() and aloe_buf_add_lmt().
AddPos(d) ==
  LET n == LesserOf(Len(d), buf.lmt - buf.pos) IN
  /\ use = "fill" /\ UNCHANGED use
  /\ buf' = [buf EXCEPT !.data = Copy(@, buf.pos, SubSeq(d, 1, n)), !.pos = @ + n]
  /\ out' = <<n, <<>>>>

AddLmt(d) ==
  LET n == LesserOf(Len(d), Cap - buf.lmt) IN
  /\ use = "drain" /\ UNCHANGED use
  /\ buf' = [buf EXCEPT !.data = Copy(@, buf.lmt, SubSeq(d, 1, n)), !.lmt = @ + n]
  /\ out' = <<n, <<>>>>

\* aloe_buf_flip(): from filling to draining.
Flip ==
  /\ use = "fill" /\ use' = "drain"
  /\ buf' = [buf EXCEPT !.lmt = buf.pos, !.pos = 0]
  /\ out' = Nothing

\* The caller takes bytes at pos.
Drain(sz) ==
  LET n == LesserOf(sz, buf.lmt - buf.pos) IN
  /\ use = "drain" /\ UNCHANGED use
  /\ out' = <<n, From(buf, buf.pos, n)>>
  /\ buf' = [buf EXCEPT !.pos = @ + n]

\* aloe_buf_rewind(): memmove() of what is left to the start.
Rewound ==
  IF buf.pos = 0 THEN buf
  ELSE [data |-> Copy(buf.data, 0, From(buf, buf.pos, buf.lmt - buf.pos)),
        lmt |-> buf.lmt - buf.pos, pos |-> 0]

Rewind ==
  /\ use = "drain" /\ UNCHANGED use
  /\ buf' = Rewound
  /\ out' = Nothing

ClearAll ==
  /\ use = "drain" /\ use' = "fill"
  /\ buf' = Clear(buf)
  /\ out' = Nothing

-----------------------------------------------------------------------------
Next ==
  \/ \E d \in Data : RingWrite(d) \/ AddPos(d) \/ AddLmt(d)
  \/ \E n \in 0..Cap + 1 : RingRead(n) \/ Drain(n)
  \/ Flip \/ Rewind \/ ClearAll

\* The bytes held, in the order they will be read.
Held ==
  CASE use = "ring" -> [i \in 1..buf.lmt |-> buf.data[(buf.pos + i - 1) % Cap]]
    [] use = "fill" -> From(buf, 0, buf.pos)
    [] use = "drain" -> From(buf, buf.pos, buf.lmt - buf.pos)

\* Either use is a queue of bytes: what is read was written, in that order,
\* wherever the memory wraps or is moved, and the amounts told are true.
Fifo == INSTANCE ByteFifo WITH content <- Held
BufferIsFifo == Fifo!Spec
=============================================================================
