-------------------------------- MODULE Parts --------------------------------
(***************************************************************************)
(* Parts that share nothing with each other, side by side, and what each   *)
(* promises: the buffers, the ring, the tail queue and the text functions  *)
(* of components/aloe, the service's timers and the LED.                   *)
(***************************************************************************)
EXTENDS Integers, Sequences, FiniteSets

CONSTANTS
  Bytes, Blank, Cap,                               \* AloeBuf
  RingSize, CountBits,                             \* CountRing, for Size, Width
  Heads, Elems, Null,                              \* TailQ
  AbbrLen, Sizes, Lines, Items, Widths,            \* TextOut
  TimeBits, Socks, PollMax, MinWait, Durs, MaxNow, \* SvcPoll, for Width
  Halves, DutyMax, Incs                            \* LedPulse, for Full

VARIABLES
  use, buf, out,                       \* AloeBuf
  data, rd, wr, wpc, rpc, wb, rb,      \* CountRing
  slot, last, prev,                    \* TailQ
  call,                                \* TextOut
  now, due, real, wait, polling,       \* SvcPoll
  duty, step, level, calls             \* LedPulse

Buf == INSTANCE AloeBuf
Ring == INSTANCE CountRing WITH Size <- RingSize, Width <- CountBits
Queue == INSTANCE TailQ
Text == INSTANCE TextOut
Poll == INSTANCE SvcPoll WITH Width <- TimeBits
Led == INSTANCE LedPulse WITH Full <- Halves

-----------------------------------------------------------------------------
(* What the parts need of their constants.                                 *)

\* A buffer holds a byte at least.
BufferHolds == Cap \in Nat \ {0}
ASSUME BufferAssumption == BufferHolds

\* The counts' range is a multiple of the ring's size, and more than it.
SizeDivides ==
  RingSize \in Nat \ {0} /\ \E k \in 2..2^CountBits : 2^CountBits = k * RingSize
ASSUME RingAssumption == SizeDivides

\* Null is no element.
ElementsFinite == IsFiniteSet(Elems) /\ Null \notin Elems
ASSUME QueueAssumption == ElementsFinite

\* A prefix has a length; a message may be an error.
LineLengths ==
  AbbrLen \in Nat /\ Sizes \subseteq Nat /\ Lines \subseteq Nat \X (Nat \cup {-1})
ASSUME TextAssumption == LineLengths

\* A number dumped is no wider than what it is read as: four bytes, two or one.
Fits(v, w) ==
  v \in Nat /\ IF w = 4 THEN v \div 65536 < 65536 ELSE v < IF w = 2 THEN 65536 ELSE 256
DumpsFit ==
  /\ Items \subseteq Seq(Nat) /\ Widths \subseteq Nat
  /\ \A items \in Items, width \in Widths : \A i \in 1..Len(items) :
       Fits(items[i], Text!Width(width))
ASSUME DumpAssumption == DumpsFit

\* Times are modulo an even number, which is more than the longest poll, and
\* whatever is asked for is even, as 10 ms of a tick are; some poll is allowed.
PollAsBuilt ==
  /\ \E k \in 0..Poll!Limit : Poll!Limit = 2 * k
  /\ PollMax \in Nat \ {0} /\ (\E k \in 0..PollMax : PollMax = 2 * k) /\ PollMax < Poll!Limit
  /\ MinWait \in 1..PollMax
  /\ \A d \in Durs : \E k \in 0..d : d = 2 * k
  /\ Socks \in Nat
ASSUME PollAssumption == PollAsBuilt

\* Looper turns ask for the smallest step, and the register has some
\* resolution.
LedAsBuilt == Halves \in Nat \ {0} /\ DutyMax \in Nat /\ Incs = {1}
ASSUME LedAssumption == LedAsBuilt

-----------------------------------------------------------------------------
(* What they promise.                                                      *)

\* Bytes leave the ring and the buffers in line as they came: AloeBuf.
BufferIsFifo == Buf!BufferIsFifo

\* A ring without a lock is a queue, also when its counts wrap: CountRing.
CountFifo == Ring!CountFifo

\* Every TAILQ operation is that of a list, both ways: TailQ.
QueueIsList == Queue!QueueIsList

\* Log lines are whole or abbreviated, dumps read back: TextOut.
TextRight == Text!TextRight

\* No poll is endless, no timer late or early: SvcPoll.
PollTimely == Poll!PollTimely

\* The LED goes up and down without a jump: LedPulse.
Breathes == Led!Breathes
=============================================================================
