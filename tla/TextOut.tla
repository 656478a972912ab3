------------------------------- MODULE TextOut -------------------------------
(***************************************************************************)
(* Text that components/aloe/aloe_util.c makes in a buffer of a given      *)
(* size: a line of the log with its abbreviation, and the hex dump.  Of a  *)
(* line only which part a character is from is kept; a dump is its digits. *)
(***************************************************************************)
EXTENDS Integers, Sequences

CONSTANTS
  AbbrLen,   (* The length of "..." aloe_endl.                              *)
  Sizes,     (* Of buffers.                                                 *)
  Lines,     (* Lengths of a line's two parts, <<prefix, message>>; a       *)
             (* message of -1 is an error of vsnprintf().                   *)
  Items,     (* What is dumped: sequences of numbers.                       *)
  Widths     (* The width asked for.                                        *)

VARIABLE call     (* The last call, [of, ...], with what it returned.       *)

SmallerOf(m, n) == IF m <= n THEN m ELSE n
Rep(c, n) == [i \in 1..n |-> c]

-----------------------------------------------------------------------------
(* aloe_log_vfmsg_def().                                                   *)

\* What the buffer holds after snprintf() of both parts.
Printed(size, line) ==
  LET all == Rep("p", line[1]) \o Rep("m", IF line[2] > 0 THEN line[2] ELSE 0)
  IN SubSeq(all, 1, SmallerOf(Len(all), size - 1))

\* aloe_strabbr(): the end of a full buffer is overwritten, if there is room.
AbbreviatedLate(size, text) ==
  [text |-> SubSeq(text, 1, size - AbbrLen) \o Rep("a", AbbrLen), ret |-> size]
Abbreviated(size, text) ==
  IF size > AbbrLen
    THEN [text |-> SubSeq(text, 1, size - 1 - AbbrLen) \o Rep("a", AbbrLen), ret |-> size - 1]
    ELSE [text |-> text, ret |-> 0]

Logged(size, line) ==
  LET sz == line[1] + IF line[1] < size /\ line[2] > 0 THEN line[2] ELSE 0
      text == Printed(size, line)
  IN IF sz >= size THEN Abbreviated(size, text) ELSE [text |-> text, ret |-> sz]

-----------------------------------------------------------------------------
(* aloe_int2hexstr() and aloe_hd2().                                       *)

Hex == <<"0", "1", "2", "3", "4", "5", "6", "7",
         "8", "9", "a", "b", "c", "d", "e", "f">>

\* The 8 digits of an unsigned at most, the last one first; "?" stands before
\* them.
Digits(val, width) ==
  LET left[k \in 0..width] == IF k = 0 THEN val ELSE left[k - 1] \div 16
  IN [i \in 1..width |-> IF width - i >= 8 THEN "?" ELSE Hex[1 + (left[width - i] % 16)]]

Width(w) == IF w >= 4 THEN 4 ELSE IF w >= 2 THEN 2 ELSE 1

\* The items after the first, each behind a separator of one character.  The
\* room left is compared, and not made less.
Further(left, items, w) ==
  LET from[i \in 1..Len(items) + 1] ==
        IF i > Len(items) \/ left < 1 + 2 * w + 1 THEN <<>>
        ELSE <<" ">> \o Digits(items[i], 2 * w) \o from[i + 1]
  IN from[1]

Dumped(size, items, width) ==
  LET w == Width(width)
      text == Digits(Head(items), 2 * w) \o Further(size - 2 * w, Tail(items), w)
      n == (Len(text) + 1) \div (2 * w + 1)
  IN IF items = <<>> \/ size < 2 * w + 1 THEN [text |-> <<>>, ret |-> 0]
     ELSE [text |-> text, ret |-> (n - 1) + n * w * 2]

-----------------------------------------------------------------------------
Init == call = [of |-> "none"]

Log(size, line) ==
  call' = [of |-> "log", size |-> size, line |-> line, out |-> Logged(size, line)]

Dump(size, items, width) ==
  call' = [of |-> "dump", size |-> size, items |-> items, width |-> width,
           out |-> Dumped(size, items, width)]

Next ==
  \/ /\ call.of = "none"
     /\ \E size \in Sizes :
          \/ \E line \in Lines : Log(size, line)
          \/ \E items \in Items, width \in Widths : Dump(size, items, width)
  \/ call.of # "none" /\ call' = [of |-> "none"]

-----------------------------------------------------------------------------
\* A line is whole, or it fills the buffer and ends in the abbreviation, and
\* its length is told; only in a buffer too small for the abbreviation is it
\* cut without a sign, and then the length told is 0 and it is not printed.
LineRight ==
  LET r == call.out
      all == call.line[1] + IF call.line[2] > 0 THEN call.line[2] ELSE 0
      abbr == Rep("a", AbbrLen)
      whole == Rep("p", call.line[1]) \o Rep("m", all - call.line[1])
  IN IF all < call.size THEN r = [text |-> whole, ret |-> all]
     ELSE IF call.size <= AbbrLen THEN r.ret = 0
     ELSE /\ r.ret = call.size - 1 /\ Len(r.text) = r.ret
          /\ r.text = SubSeq(whole, 1, r.ret - AbbrLen) \o abbr

\* The number that digits i to j of text t write.
Read(t, i, j) ==
  LET val(c) == CHOOSE n \in 0..15 : Hex[n + 1] = c
      upto[k \in i - 1..j] == IF k = i - 1 THEN 0 ELSE 16 * upto[k - 1] + val(t[k])
  IN upto[j]

\* A dump in a buffer that takes all of it, or one item only, reads back as
\* what was dumped, has its length told and leaves room for the end.  In a
\* buffer between the two nothing is promised: the room left is not counted.
DumpRight ==
  LET t == call.out.text
      d == 2 * Width(call.width)
      n == Len(call.items)
      shown == IF call.size > n * (d + 1) - 1 THEN n
               ELSE IF call.size > d THEN 1 ELSE 0
  IN call.size > n * (d + 1) - 1 \/ call.size < 2 * (d + 1) =>
       /\ call.out.ret = Len(t) /\ Len(t) = (IF shown = 0 THEN 0 ELSE shown * (d + 1) - 1)
       /\ Len(t) > 0 => Len(t) < call.size
       /\ \A i \in 1..shown : LET at == (i - 1) * (d + 1) IN
            /\ Read(t, at + 1, at + d) = call.items[i]
            /\ i > 1 => t[at] = " "

TextRight ==
  CASE call.of = "log" -> LineRight [] call.of = "dump" -> DumpRight [] OTHER -> TRUE
=============================================================================
