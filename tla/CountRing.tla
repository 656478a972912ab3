------------------------------ MODULE CountRing ------------------------------
(***************************************************************************)
(* aloe_rinbuf1_entry() of components/aloe/aloe_util.h, a ring between one *)
(* writer and one reader without a lock: two counts of 2^Width that only   *)
(* grow, the index a count modulo the size.  aloe_rinfb_t counts frames in *)
(* the same way.  The caller asks aloe_rinbuf1_full2() or _empty() before  *)
(* it puts or gets; each macro reads and writes in several steps.          *)
(***************************************************************************)
EXTENDS Integers, Sequences

CONSTANTS
  Size,     (* The bytes of data, "must be power of 2"; of an aloe_rinfb_t, *)
            (* fb_cnt.                                                      *)
  Width,    (* The bits of a count, 32 for unsigned.                        *)
  Bytes,
  Blank

VARIABLES
  data, rd, wr,
  wpc, rpc,   (* Where the writer and the reader are.                        *)
  wb, rb      (* The byte to put, and the byte got.                          *)

vars == <<data, rd, wr, wpc, rpc, wb, rb>>

Wrap(n) == n % 2^Width
Index(c) == c % Size

DataLen == Wrap(wr - rd)
FullUnwrapped == wr - rd = Size
Full == DataLen = Size
IsEmpty == wr = rd

Init ==
  /\ data = [i \in 0..Size - 1 |-> Blank] /\ rd = 0 /\ wr = 0
  /\ wpc = "idle" /\ rpc = "idle" /\ wb = Blank /\ rb = Blank

\* aloe_rinbuf1_putc2(): the byte, then the count.
PutStart(b) ==
  /\ wpc = "idle" /\ ~Full
  /\ wb' = b /\ wpc' = "byte"
  /\ UNCHANGED <<data, rd, wr, rpc, rb>>

PutByte ==
  /\ wpc = "byte" /\ wpc' = "count"
  /\ data' = [data EXCEPT ![Index(wr)] = wb]
  /\ UNCHANGED <<rd, wr, rpc, wb, rb>>

PutCount ==
  /\ wpc = "count" /\ wpc' = "idle"
  /\ wr' = Wrap(wr + 1)
  /\ UNCHANGED <<data, rd, rpc, wb, rb>>

\* aloe_rinbuf1_getc2().
GetByte ==
  /\ rpc = "idle" /\ ~IsEmpty
  /\ rb' = data[Index(rd)] /\ rpc' = "count"
  /\ UNCHANGED <<data, rd, wr, wpc, wb>>

GetCount ==
  /\ rpc = "count" /\ rpc' = "idle"
  /\ rd' = Wrap(rd + 1)
  /\ UNCHANGED <<data, wr, wpc, wb, rb>>

Next == (\E b \in Bytes : PutStart(b)) \/ PutByte \/ PutCount \/ GetByte \/ GetCount

\* The bytes between the counts; the one got counts as taken when rd moves.
Held == [i \in 1..DataLen |-> data[Index(Wrap(rd + i - 1))]]

\* The byte put is in the ring before it is counted, the byte got is the
\* oldest, and neither side overwrites or skips a byte when a count wraps.
CountFifo ==
  /\ [][\/ UNCHANGED Held
        \/ wpc = "count" /\ Held' = Append(Held, wb)
        \/ rpc = "count" /\ Held # <<>> /\ rb = Head(Held) /\ Held' = Tail(Held)]_vars
  /\ [](DataLen <= Size)
=============================================================================
