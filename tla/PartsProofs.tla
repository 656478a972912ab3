------------------------------ MODULE PartsProofs ------------------------------
(***************************************************************************)
(* Parts that stand alone.  The ring without a lock of aloe_util.h is a    *)
(* queue for any size and any width of its counts, as long as the size     *)
(* divides the counts' range: the macros' comment asks for a power of 2,   *)
(* and this is what it is for.  The buffers of aloe_util.c are a queue for *)
(* any size; its log lines are right in a buffer of any size.  The LED of  *)
(* eh_main.c breathes for any resolution.  The timers of dw_sinsvc2.c are  *)
(* in time for any number of sockets.  The tail queues of queue.h are      *)
(* lists for any heads and finitely many elements.                         *)
(***************************************************************************)
EXTENDS Parts, CommonLemmas

-----------------------------------------------------------------------------
(* Remainders.                                                             *)

LEMMA Remainder ==
  ASSUME NEW m \in Nat \ {0}, NEW n \in Int
  PROVE  n % m \in 0..m - 1 /\ \E q \in Int : n = (m * q) + (n % m)
<1>1. n % m \in 0..m - 1
  OBVIOUS
<1>2. n \div m \in Int
  OBVIOUS
<1>3. n = (m * (n \div m)) + (n % m)
  OBVIOUS
<1> QED
  BY <1>1, <1>2, <1>3

LEMMA RemainderIs ==
  ASSUME NEW m \in Nat \ {0}, NEW q \in Int, NEW r \in 0..m - 1
  PROVE  ((m * q) + r) % m = r
OBVIOUS

LEMMA RemainderSmall ==
  ASSUME NEW m \in Nat \ {0}, NEW r \in 0..m - 1
  PROVE  r % m = r
OBVIOUS

LEMMA RemainderShift ==
  ASSUME NEW m \in Nat \ {0}, NEW n \in Int, NEW q \in Int
  PROVE  (n + (m * q)) % m = n % m
<1>1. PICK p \in Int : n = (m * p) + (n % m)
  BY Remainder
<1>2. n % m \in 0..m - 1
  BY Remainder
<1>3. n + (m * q) = (m * (p + q)) + (n % m)
  BY <1>1, <1>2
<1>4. p + q \in Int
  OBVIOUS
<1> QED
  BY <1>2, <1>3, <1>4, RemainderIs

\* What is less than m apart does not meet modulo m.
LEMMA RemaindersApart ==
  ASSUME NEW m \in Nat \ {0}, NEW n \in Int, NEW d \in 1..m - 1
  PROVE  (n + d) % m # n % m
<1> SUFFICES ASSUME (n + d) % m = n % m PROVE FALSE
  OBVIOUS
<1>1. PICK p \in Int : n = (m * p) + (n % m)
  BY Remainder
<1>2. PICK q \in Int : n + d = (m * q) + (n % m)
  <2>1. n + d \in Int
    OBVIOUS
  <2> QED
    BY <2>1, Remainder
<1>3. n % m \in Int
  BY Remainder
<1>4. d = m * (q - p)
  BY <1>1, <1>2, <1>3
<1>5. CASE q - p >= 1
  <2>1. m * (q - p) >= m
    BY <1>5
  <2> QED
    BY <1>4, <2>1
<1>6. CASE q - p <= 0
  <2>1. m * (q - p) <= 0
    BY <1>6
  <2> QED
    BY <1>4, <2>1
<1> QED
  BY <1>5, <1>6

-----------------------------------------------------------------------------
(* Counts.                                                                 *)

Limit == 2^CountBits

LEMMA LimitType == SizeDivides => Limit \in Nat \ {0} /\ RingSize < Limit
<1> SUFFICES ASSUME SizeDivides PROVE Limit \in Nat \ {0} /\ RingSize < Limit
  OBVIOUS
<1>1. PICK k \in Nat \ {0, 1} : Limit = k * RingSize
  BY DEF SizeDivides, Limit
<1>2. k * RingSize >= 2 * RingSize /\ RingSize \in Nat \ {0}
  BY DEF SizeDivides
<1>3. k * RingSize \in Nat
  BY <1>2
<1> QED
  BY <1>1, <1>2, <1>3

\* A count that wrapped gives the same differences, and the same place.
LEMMA Wrapped ==
  ASSUME SizeDivides, NEW n \in Int, NEW j \in Int
  PROVE  /\ Ring!Wrap(n) \in 0..Limit - 1 /\ (n \in 0..Limit - 1 => Ring!Wrap(n) = n)
         /\ Ring!Wrap(Ring!Wrap(n) + j) = Ring!Wrap(n + j)
         /\ Ring!Wrap(j - Ring!Wrap(n)) = Ring!Wrap(j - n)
         /\ (Ring!Wrap(n) + j) % RingSize = (n + j) % RingSize
<1>1. Limit \in Nat \ {0} /\ RingSize \in Nat \ {0}
  BY LimitType DEF SizeDivides
<1>2. Ring!Wrap(n) = n % Limit /\ Ring!Wrap(n) \in 0..Limit - 1
  BY <1>1, Remainder DEF Ring!Wrap, Limit
<1>3. PICK q \in Int : n = (Limit * q) + Ring!Wrap(n)
  BY <1>1, <1>2, Remainder
<1>3a. PICK x \in Int : x = Limit * q /\ n = x + Ring!Wrap(n)
  BY <1>1, <1>3
<1>3b. Ring!Wrap(n) \in Int
  BY <1>2
<1>4. ASSUME n \in 0..Limit - 1 PROVE Ring!Wrap(n) = n
  <2>1. n = (Limit * 0) + n
    BY <1>1
  <2> QED
    BY <1>1, <1>2, <1>4, <2>1, RemainderIs
<1>5. Ring!Wrap(Ring!Wrap(n) + j) = Ring!Wrap(n + j)
  <2>1. n + j = (Ring!Wrap(n) + j) + (Limit * q)
    BY <1>3a, <1>3b
  <2>2. PICK y \in Int : y = Ring!Wrap(n) + j
    BY <1>2
  <2>3. (y + (Limit * q)) % Limit = y % Limit
    BY <1>1, RemainderShift
  <2> QED
    BY <2>1, <2>2, <2>3 DEF Ring!Wrap, Limit
<1>6. Ring!Wrap(j - Ring!Wrap(n)) = Ring!Wrap(j - n)
  <2>1. j - Ring!Wrap(n) = (j - n) + (Limit * q)
    BY <1>3a, <1>3b
  <2>2. PICK y \in Int : y = j - n
    OBVIOUS
  <2>3. (y + (Limit * q)) % Limit = y % Limit
    BY <1>1, RemainderShift
  <2> QED
    BY <2>1, <2>2, <2>3 DEF Ring!Wrap, Limit
<1>7. (Ring!Wrap(n) + j) % RingSize = (n + j) % RingSize
  <2>1. PICK k \in Nat \ {0, 1} : Limit = k * RingSize
    BY DEF SizeDivides, Limit
  <2>2. Limit * q = RingSize * (k * q) /\ k * q \in Int
    BY <1>1, <2>1
  <2>3. n + j = (Ring!Wrap(n) + j) + (RingSize * (k * q))
    BY <1>3a, <1>3b, <2>2
  <2>4. PICK y \in Int : y = Ring!Wrap(n) + j
    BY <1>2
  <2>5. PICK r \in Int : r = k * q
    BY <2>2
  <2>6. (y + (RingSize * r)) % RingSize = y % RingSize
    BY <1>1, RemainderShift
  <2> QED
    BY <2>3, <2>4, <2>5, <2>6
<1> QED
  BY <1>2, <1>4, <1>5, <1>6, <1>7

-----------------------------------------------------------------------------
(* What the two sides know of each other.                                  *)

Value == Bytes \cup {Blank}

RingType ==
  /\ data \in [0..RingSize - 1 -> Value]
  /\ rd \in 0..Limit - 1 /\ wr \in 0..Limit - 1
  /\ wpc \in {"idle", "byte", "count"} /\ rpc \in {"idle", "count"}
  /\ wb \in Value /\ rb \in Value

\* The writer that found room still has it, and the byte it has put is still
\* there when it counts it; so is the byte the reader has got.
Sides ==
  /\ Ring!DataLen <= RingSize
  /\ wpc # "idle" => Ring!DataLen < RingSize
  /\ wpc = "count" => data[Ring!Index(wr)] = wb
  /\ rpc = "count" => ~Ring!IsEmpty /\ rb = data[Ring!Index(rd)]

\* The i-th byte held is i - 1 places after the reader's, and the next free
\* place is the writer's.
Placed ==
  /\ Ring!DataLen \in 0..Limit - 1 /\ (Ring!DataLen = 0 <=> Ring!IsEmpty)
  /\ Ring!Index(wr) = (rd + Ring!DataLen) % RingSize /\ Ring!Index(rd) = rd % RingSize
  /\ Ring!Index(wr) \in 0..RingSize - 1 /\ Ring!Index(rd) \in 0..RingSize - 1
  /\ Ring!Held = [i \in 1..Ring!DataLen |-> data[(rd + (i - 1)) % RingSize]]
  /\ Ring!Held \in Seq(Value) /\ Len(Ring!Held) = Ring!DataLen

LEMMA Places ==
  ASSUME SizeDivides
  PROVE  RingType => Placed
<1> SUFFICES ASSUME RingType PROVE Placed
  OBVIOUS
<1>1. /\ rd \in Int /\ wr \in Int /\ wr - rd \in Int
      /\ RingSize \in Nat \ {0} /\ Limit \in Nat \ {0}
  BY LimitType DEF RingType, SizeDivides
<1>2. Ring!DataLen \in 0..Limit - 1
  BY <1>1, Wrapped DEF Ring!DataLen
<1>3. Ring!Wrap(rd + Ring!DataLen) = wr
  <2>1. Ring!Wrap(Ring!Wrap(wr - rd) + rd) = Ring!Wrap((wr - rd) + rd)
    BY <1>1, Wrapped
  <2>2. (wr - rd) + rd = wr /\ Ring!Wrap(wr - rd) + rd = rd + Ring!DataLen
    BY <1>1, <1>2 DEF Ring!DataLen
  <2>3. Ring!Wrap(wr) = wr
    BY <1>1, Wrapped DEF RingType
  <2> QED
    BY <2>1, <2>2, <2>3
<1>4. Ring!DataLen = 0 <=> Ring!IsEmpty
  <2>1. ASSUME Ring!DataLen = 0 PROVE Ring!IsEmpty
    <3>1. rd + Ring!DataLen = rd /\ Ring!Wrap(rd) = rd
      BY <1>1, <2>1, Wrapped DEF RingType
    <3> QED
      BY <1>3, <3>1 DEF Ring!IsEmpty
  <2>2. ASSUME Ring!IsEmpty PROVE Ring!DataLen = 0
    <3>1. wr - rd = 0 /\ 0 \in 0..Limit - 1
      BY <1>1, <2>2 DEF Ring!IsEmpty
    <3> QED
      BY <3>1, Wrapped DEF Ring!DataLen
  <2> QED
    BY <2>1, <2>2
<1>5. Ring!Index(wr) = (rd + Ring!DataLen) % RingSize
  <2>1. rd + Ring!DataLen \in Int
    BY <1>1, <1>2
  <2>2. (Ring!Wrap(rd + Ring!DataLen) + 0) % RingSize = ((rd + Ring!DataLen) + 0) % RingSize
    BY <2>1, Wrapped
  <2>3. wr + 0 = wr /\ (rd + Ring!DataLen) + 0 = rd + Ring!DataLen
    BY <1>1, <2>1
  <2> QED
    BY <1>3, <2>2, <2>3 DEF Ring!Index
<1>6. Ring!Index(wr) \in 0..RingSize - 1 /\ Ring!Index(rd) \in 0..RingSize - 1
  BY <1>1, Remainder DEF Ring!Index
<1>7. ASSUME NEW i \in 1..Ring!DataLen
      PROVE  /\ Ring!Index(Ring!Wrap(rd + i - 1)) = (rd + (i - 1)) % RingSize
             /\ data[(rd + (i - 1)) % RingSize] \in Value
  <2>1. rd + (i - 1) \in Int /\ rd + i - 1 = rd + (i - 1)
    BY <1>1, <1>2
  <2>2. (Ring!Wrap(rd + (i - 1)) + 0) % RingSize = ((rd + (i - 1)) + 0) % RingSize
    BY <2>1, Wrapped
  <2>3. Ring!Wrap(rd + (i - 1)) \in Int
    BY <1>1, <2>1, Wrapped
  <2>4. Ring!Index(Ring!Wrap(rd + i - 1)) = (rd + (i - 1)) % RingSize
    BY <2>1, <2>2, <2>3 DEF Ring!Index
  <2>5. (rd + (i - 1)) % RingSize \in 0..RingSize - 1
    BY <1>1, <2>1, Remainder
  <2> QED
    BY <2>4, <2>5 DEF RingType
<1>8. Ring!Held = [i \in 1..Ring!DataLen |-> data[(rd + (i - 1)) % RingSize]]
  BY <1>7 DEF Ring!Held
<1>9. Ring!DataLen \in Nat
  BY <1>1, <1>2
<1>10. Ring!Held \in [1..Ring!DataLen -> Value]
  BY <1>7, <1>8
<1>11. Ring!Held \in Seq(Value) /\ Len(Ring!Held) = Ring!DataLen
  BY <1>9, <1>10, SeqDef, LenProperties
<1> QED
  BY <1>2, <1>4, <1>5, <1>6, <1>8, <1>11 DEF Placed, Ring!Index

LEMMA PlacesNext ==
  ASSUME SizeDivides
  PROVE  RingType' => Placed'
<1>1. RingType => Placed
  BY Places
<1> QED
  BY <1>1, PTL

LEMMA NumberTypes ==
  ASSUME SizeDivides, RingType
  PROVE  /\ RingSize \in Nat \ {0} /\ Limit \in Nat \ {0} /\ RingSize < Limit
         /\ rd \in Int /\ wr \in Int
<1>1. RingSize \in Nat \ {0} /\ Limit \in Nat \ {0} /\ RingSize < Limit
  BY LimitType DEF SizeDivides
<1> QED
  BY <1>1 DEF RingType

LEMMA RingInit == SizeDivides /\ Ring!Init => RingType /\ Sides
<1> SUFFICES ASSUME SizeDivides, Ring!Init PROVE RingType /\ Sides
  OBVIOUS
<1>1. RingSize \in Nat \ {0} /\ Limit \in Nat \ {0}
  BY LimitType DEF SizeDivides
<1>2. RingType
  BY <1>1 DEF Ring!Init, RingType, Value
<1>3. Ring!DataLen = 0
  BY <1>2, Places DEF Placed, Ring!Init, Ring!IsEmpty
<1> QED
  BY <1>1, <1>2, <1>3 DEF Sides, Ring!Init

\* How one side's count moves the amount held.
LEMMA CountsMove ==
  ASSUME SizeDivides, RingType
  PROVE  /\ Ring!DataLen < RingSize =>
              /\ Ring!Wrap(wr + 1) \in 0..Limit - 1
              /\ Ring!Wrap(Ring!Wrap(wr + 1) - rd) = Ring!DataLen + 1
         /\ ~Ring!IsEmpty =>
              /\ Ring!Wrap(rd + 1) \in 0..Limit - 1
              /\ Ring!Wrap(wr - Ring!Wrap(rd + 1)) = Ring!DataLen - 1
<1>1. /\ rd \in Int /\ wr \in Int /\ Ring!DataLen \in 0..Limit - 1
      /\ RingSize \in Nat \ {0} /\ Limit \in Nat \ {0} /\ RingSize < Limit
      /\ (Ring!DataLen = 0 <=> Ring!IsEmpty)
  BY Places, NumberTypes DEF Placed
<1>2. /\ wr + 1 \in Int /\ rd + 1 \in Int /\ wr - rd \in Int /\ -rd \in Int
      /\ -1 \in Int /\ (wr + 1) - rd = (wr - rd) + 1
      /\ (wr + 1) + (-rd) = (wr - rd) + 1 /\ wr - (rd + 1) = (wr - rd) + (-1)
  BY <1>1
<1>3. Ring!Wrap(wr + 1) \in 0..Limit - 1 /\ Ring!Wrap(rd + 1) \in 0..Limit - 1
  BY <1>2, Wrapped
<1>4. ASSUME Ring!DataLen < RingSize PROVE Ring!Wrap(Ring!Wrap(wr + 1) - rd) = Ring!DataLen + 1
  <2>1. Ring!Wrap(Ring!Wrap(wr + 1) + (-rd)) = Ring!Wrap((wr + 1) + (-rd))
    BY <1>2, Wrapped
  <2>2. Ring!Wrap(wr + 1) + (-rd) = Ring!Wrap(wr + 1) - rd
    BY <1>1, <1>3
  <2>3. Ring!Wrap((wr - rd) + 1) = Ring!Wrap(Ring!DataLen + 1)
    BY <1>2, Wrapped DEF Ring!DataLen
  <2>4. Ring!DataLen + 1 \in 0..Limit - 1 /\ Ring!DataLen + 1 \in Int
    BY <1>1, <1>4
  <2>5. Ring!Wrap(Ring!DataLen + 1) = Ring!DataLen + 1
    BY <2>4, Wrapped
  <2> QED
    BY <1>2, <2>1, <2>2, <2>3, <2>5
<1>5. ASSUME ~Ring!IsEmpty PROVE Ring!Wrap(wr - Ring!Wrap(rd + 1)) = Ring!DataLen - 1
  <2>1. Ring!Wrap(wr - Ring!Wrap(rd + 1)) = Ring!Wrap(wr - (rd + 1))
    BY <1>1, <1>2, Wrapped
  <2>2. Ring!Wrap((wr - rd) + (-1)) = Ring!Wrap(Ring!DataLen + (-1))
    BY <1>2, Wrapped DEF Ring!DataLen
  <2>3. Ring!DataLen + (-1) \in 0..Limit - 1 /\ Ring!DataLen + (-1) = Ring!DataLen - 1
    BY <1>1, <1>5
  <2>4. Ring!Wrap(Ring!DataLen + (-1)) = Ring!DataLen - 1
    BY <2>3, Wrapped
  <2> QED
    BY <1>2, <2>1, <2>2, <2>4
<1> QED
  BY <1>3, <1>4, <1>5

\* What a step does to the bytes held.
FifoStep ==
  \/ UNCHANGED Ring!Held
  \/ wpc = "count" /\ Ring!Held' = Append(Ring!Held, wb)
  \/ rpc = "count" /\ Ring!Held # <<>> /\ rb = Head(Ring!Held) /\ Ring!Held' = Tail(Ring!Held)

\* The byte put lands on the one place that is next to be counted.
LEMMA BytePut ==
  ASSUME SizeDivides, RingType, Sides, Ring!PutByte
  PROVE  RingType' /\ Sides' /\ UNCHANGED Ring!Held
<1>1. /\ rd' = rd /\ wr' = wr /\ rpc' = rpc /\ rb' = rb /\ wb' = wb
      /\ wpc = "byte" /\ wpc' = "count"
      /\ data' = [data EXCEPT ![Ring!Index(wr)] = wb]
  BY DEF Ring!PutByte
<1>2. /\ Ring!DataLen \in 0..Limit - 1 /\ (Ring!DataLen = 0 <=> Ring!IsEmpty)
      /\ Ring!Index(wr) = (rd + Ring!DataLen) % RingSize /\ Ring!Index(rd) = rd % RingSize
      /\ Ring!Index(wr) \in 0..RingSize - 1 /\ Ring!Index(rd) \in 0..RingSize - 1
      /\ Ring!Held = [i \in 1..Ring!DataLen |-> data[(rd + (i - 1)) % RingSize]]
  BY Places DEF Placed
<1>3. RingType'
  BY <1>1, <1>2 DEF RingType
<1>4. /\ RingSize \in Nat \ {0} /\ Limit \in Nat \ {0} /\ rd \in Int
      /\ Ring!DataLen < RingSize
  BY <1>1, NumberTypes DEF Sides
<1>5. ASSUME NEW i \in 1..Ring!DataLen
      PROVE  data'[(rd + (i - 1)) % RingSize] = data[(rd + (i - 1)) % RingSize]
  <2>1. /\ rd + (i - 1) \in Int /\ Ring!DataLen - (i - 1) \in 1..RingSize - 1
        /\ (rd + (i - 1)) + (Ring!DataLen - (i - 1)) = rd + Ring!DataLen
    BY <1>2, <1>4
  <2>2. (rd + (i - 1)) % RingSize # Ring!Index(wr)
    BY <1>2, <1>4, <2>1, RemaindersApart
  <2>3. (rd + (i - 1)) % RingSize \in 0..RingSize - 1
    BY <1>4, <2>1, Remainder
  <2> QED
    BY <1>1, <2>2, <2>3 DEF RingType
<1>6. Ring!DataLen' = Ring!DataLen
  BY <1>1 DEF Ring!DataLen
<1>7. Ring!Held' = Ring!Held
  <2>1. Ring!Held' = [i \in 1..Ring!DataLen' |-> data'[(rd' + (i - 1)) % RingSize]]
    BY <1>3, PlacesNext DEF Placed
  <2> QED
    BY <1>1, <1>2, <1>5, <1>6, <2>1
<1>8. ASSUME rpc' = "count" PROVE ~Ring!IsEmpty' /\ rb' = data'[Ring!Index(rd')]
  <2>1. ~Ring!IsEmpty /\ rb = data[Ring!Index(rd)]
    BY <1>1, <1>8 DEF Sides
  <2>2. 1 \in 1..Ring!DataLen /\ rd + (1 - 1) = rd
    BY <1>2, <1>4, <2>1
  <2>3. data'[Ring!Index(rd)] = data[Ring!Index(rd)]
    BY <1>2, <1>5, <2>2
  <2> QED
    BY <1>1, <2>1, <2>3 DEF Ring!IsEmpty
<1>9. data'[Ring!Index(wr')] = wb'
  BY <1>1, <1>2 DEF RingType
<1> QED
  BY <1>1, <1>3, <1>4, <1>6, <1>7, <1>8, <1>9 DEF Sides

LEMMA BytePutCounted ==
  ASSUME SizeDivides, RingType, Sides, Ring!PutCount
  PROVE  RingType' /\ Sides' /\ Ring!Held' = Append(Ring!Held, wb)
<1>1. /\ rd' = rd /\ data' = data /\ rpc' = rpc /\ rb' = rb /\ wb' = wb
      /\ wpc = "count" /\ wpc' = "idle" /\ wr' = Ring!Wrap(wr + 1)
      /\ Ring!DataLen < RingSize /\ data[Ring!Index(wr)] = wb
  BY DEF Ring!PutCount, Sides
<1>2. /\ Ring!DataLen \in 0..Limit - 1 /\ (Ring!DataLen = 0 <=> Ring!IsEmpty)
      /\ Ring!Index(wr) = (rd + Ring!DataLen) % RingSize
      /\ Ring!Held = [i \in 1..Ring!DataLen |-> data[(rd + (i - 1)) % RingSize]]
      /\ Ring!Held \in Seq(Value) /\ Len(Ring!Held) = Ring!DataLen
  BY Places DEF Placed
<1>3. wr' \in 0..Limit - 1 /\ Ring!DataLen' = Ring!DataLen + 1
  BY <1>1, CountsMove DEF Ring!DataLen
<1>4. RingType'
  BY <1>1, <1>3 DEF RingType
<1>5. /\ RingSize \in Nat \ {0} /\ Limit \in Nat \ {0} /\ rd \in Int
  BY NumberTypes
<1>6. Ring!Held' = Append(Ring!Held, wb)
  <2>1. /\ Ring!Held' = [i \in 1..Ring!DataLen' |-> data'[(rd' + (i - 1)) % RingSize]]
        /\ Ring!Held' \in Seq(Value) /\ Len(Ring!Held') = Ring!DataLen'
    BY <1>4, PlacesNext DEF Placed
  <2>2. /\ wb \in Value /\ Append(Ring!Held, wb) \in Seq(Value)
        /\ Len(Append(Ring!Held, wb)) = Ring!DataLen + 1
        /\ \A i \in 1..Ring!DataLen : Append(Ring!Held, wb)[i] = Ring!Held[i]
        /\ Append(Ring!Held, wb)[Ring!DataLen + 1] = wb
    BY <1>2, AppendProperties DEF RingType
  <2>3. ASSUME NEW i \in 1..Ring!DataLen + 1 PROVE Ring!Held'[i] = Append(Ring!Held, wb)[i]
    <3>1. Ring!Held'[i] = data[(rd + (i - 1)) % RingSize]
      BY <1>1, <1>3, <2>1
    <3>2. CASE i \in 1..Ring!DataLen
      BY <1>2, <2>2, <3>1, <3>2
    <3>3. CASE i = Ring!DataLen + 1
      <4>1. i - 1 = Ring!DataLen
        BY <1>2, <1>5, <3>3
      <4> QED
        BY <1>1, <1>2, <2>2, <3>1, <3>3, <4>1
    <3> QED
      BY <1>2, <1>5, <3>2, <3>3
  <2> QED
    BY <1>3, <2>1, <2>2, <2>3, SeqEqual
<1>7. rpc' = "count" => ~Ring!IsEmpty' /\ rb' = data'[Ring!Index(rd')]
  <2>1. (Ring!DataLen' = 0 <=> Ring!IsEmpty') /\ Ring!DataLen + 1 # 0
    BY <1>2, <1>4, <1>5, PlacesNext DEF Placed
  <2> QED
    BY <1>1, <1>3, <2>1 DEF Sides
<1> QED
  BY <1>1, <1>2, <1>3, <1>4, <1>5, <1>6, <1>7 DEF Sides

LEMMA ByteGetCounted ==
  ASSUME SizeDivides, RingType, Sides, Ring!GetCount
  PROVE  /\ RingType' /\ Sides'
         /\ Ring!Held # <<>> /\ rb = Head(Ring!Held) /\ Ring!Held' = Tail(Ring!Held)
<1>1. /\ wr' = wr /\ data' = data /\ wpc' = wpc /\ rb' = rb /\ wb' = wb
      /\ rpc = "count" /\ rpc' = "idle" /\ rd' = Ring!Wrap(rd + 1)
      /\ ~Ring!IsEmpty /\ rb = data[Ring!Index(rd)]
  BY DEF Ring!GetCount, Sides
<1>2. /\ Ring!DataLen \in 0..Limit - 1 /\ (Ring!DataLen = 0 <=> Ring!IsEmpty)
      /\ Ring!Index(rd) = rd % RingSize
      /\ Ring!Held = [i \in 1..Ring!DataLen |-> data[(rd + (i - 1)) % RingSize]]
      /\ Ring!Held \in Seq(Value) /\ Len(Ring!Held) = Ring!DataLen
  BY Places DEF Placed
<1>3. rd' \in 0..Limit - 1 /\ Ring!DataLen' = Ring!DataLen - 1
  BY <1>1, CountsMove DEF Ring!DataLen
<1>4. RingType'
  BY <1>1, <1>3 DEF RingType
<1>5. /\ RingSize \in Nat \ {0} /\ Limit \in Nat \ {0} /\ rd \in Int
      /\ Ring!DataLen <= RingSize
  BY NumberTypes DEF Sides
<1>6. Ring!Held # <<>> /\ rb = Head(Ring!Held)
  <2>1. 1 \in 1..Ring!DataLen /\ rd + (1 - 1) = rd
    BY <1>1, <1>2, <1>5
  <2>2. Ring!Held # <<>> /\ Head(Ring!Held) = Ring!Held[1]
    BY <1>1, <1>2, <2>1, HeadTailProperties, EmptySeq
  <2> QED
    BY <1>1, <1>2, <2>1, <2>2
<1>7. Ring!Held' = Tail(Ring!Held)
  <2>1. /\ Ring!Held' = [i \in 1..Ring!DataLen' |-> data'[(rd' + (i - 1)) % RingSize]]
        /\ Ring!Held' \in Seq(Value) /\ Len(Ring!Held') = Ring!DataLen'
    BY <1>4, PlacesNext DEF Placed
  <2>2. /\ Tail(Ring!Held) \in Seq(Value) /\ Len(Tail(Ring!Held)) = Ring!DataLen - 1
        /\ \A i \in 1..Ring!DataLen - 1 : Tail(Ring!Held)[i] = Ring!Held[i + 1]
    BY <1>2, <1>6, HeadTailProperties
  <2>3. ASSUME NEW i \in 1..Ring!DataLen - 1 PROVE Ring!Held'[i] = Tail(Ring!Held)[i]
    <3>1. Ring!Held'[i] = data[(Ring!Wrap(rd + 1) + (i - 1)) % RingSize]
      BY <1>1, <1>3, <2>1
    <3>2. (Ring!Wrap(rd + 1) + (i - 1)) % RingSize = ((rd + 1) + (i - 1)) % RingSize
      <4>1. rd + 1 \in Int /\ i - 1 \in Int
        BY <1>2, <1>5
      <4> QED
        BY <4>1, Wrapped
    <3>3. (rd + 1) + (i - 1) = rd + ((i + 1) - 1) /\ i + 1 \in 1..Ring!DataLen
      BY <1>2, <1>5
    <3> QED
      BY <1>2, <2>2, <3>1, <3>2, <3>3
  <2> QED
    BY <1>3, <2>1, <2>2, <2>3, SeqEqual
<1>8. wpc' = "count" => data'[Ring!Index(wr')] = wb'
  BY <1>1 DEF Sides
<1>9. Ring!DataLen' <= RingSize /\ (wpc' # "idle" => Ring!DataLen' < RingSize)
  BY <1>1, <1>2, <1>3, <1>5
<1> QED
  BY <1>1, <1>4, <1>6, <1>7, <1>8, <1>9 DEF Sides

LEMMA RingStep ==
  SizeDivides /\ RingType /\ Sides /\ [Ring!Next]_Ring!vars
    => RingType' /\ Sides' /\ [FifoStep]_Ring!vars
<1> SUFFICES ASSUME SizeDivides, RingType, Sides, [Ring!Next]_Ring!vars
             PROVE  RingType' /\ Sides' /\ FifoStep
  OBVIOUS
<1>1. CASE UNCHANGED Ring!vars \/ (\E b \in Bytes : Ring!PutStart(b)) \/ Ring!GetByte
  <2>1. UNCHANGED <<data, rd, wr>> /\ Ring!Held' = Ring!Held /\ Ring!DataLen' = Ring!DataLen
    BY <1>1 DEF Ring!vars, Ring!PutStart, Ring!GetByte, Ring!Held, Ring!DataLen
  <2>2. CASE UNCHANGED Ring!vars
    BY <2>1, <2>2 DEF Ring!vars, RingType, Sides, Ring!IsEmpty, FifoStep
  <2>3. CASE \E b \in Bytes : Ring!PutStart(b)
    <3>1. Ring!DataLen < RingSize
      <4>1. Ring!DataLen # RingSize /\ Ring!DataLen <= RingSize
        BY <2>3 DEF Ring!PutStart, Ring!Full, Sides
      <4>2. Ring!DataLen \in 0..Limit - 1 /\ Limit \in Nat /\ RingSize \in Nat
        BY Places, NumberTypes DEF Placed
      <4> QED
        BY <4>1, <4>2
    <3> QED
      BY <2>1, <2>3, <3>1 DEF Ring!PutStart, RingType, Sides, Ring!IsEmpty, FifoStep, Value
  <2>4. CASE Ring!GetByte
    <3>1. data[Ring!Index(rd)] \in Value
      BY Places DEF Placed, RingType
    <3> QED
      BY <2>1, <2>4, <3>1 DEF Ring!GetByte, RingType, Sides, Ring!IsEmpty, FifoStep
  <2> QED
    BY <1>1, <2>2, <2>3, <2>4
<1>2. CASE Ring!PutByte
  BY <1>2, BytePut DEF FifoStep
<1>3. CASE Ring!PutCount
  BY <1>3, BytePutCounted DEF FifoStep, Ring!PutCount
<1>4. CASE Ring!GetCount
  BY <1>4, ByteGetCounted DEF FifoStep, Ring!GetCount
<1> QED
  BY <1>1, <1>2, <1>3, <1>4 DEF Ring!Next

\* The ring is a queue of at most RingSize bytes between a writer and a reader that
\* share no lock, also when a count wraps.
THEOREM RingIsFifo ==
  Ring!Init /\ [][Ring!Next]_Ring!vars => CountFifo
<1>0. SizeDivides
  BY RingAssumption
<1>1. Ring!Init => RingType /\ Sides
  BY <1>0, RingInit
<1>2. RingType /\ Sides /\ [Ring!Next]_Ring!vars => RingType' /\ Sides' /\ [FifoStep]_Ring!vars
  BY <1>0, RingStep
<1>3. Sides => Ring!DataLen <= RingSize
  BY DEF Sides
<1>4. [FifoStep]_Ring!vars =>
        [\/ UNCHANGED Ring!Held
         \/ wpc = "count" /\ Ring!Held' = Append(Ring!Held, wb)
         \/ rpc = "count" /\ Ring!Held # <<>> /\ rb = Head(Ring!Held) /\ Ring!Held' = Tail(Ring!Held)]_Ring!vars
  BY DEF FifoStep
<1> QED
  BY <1>1, <1>2, <1>3, <1>4, PTL DEF CountFifo, Ring!CountFifo

-----------------------------------------------------------------------------
(* The buffers of aloe_util.c, by one thread: a ring, or in line.          *)

\* Adding before or after the remainder is taken is the same; while the sum
\* stays below m it needs no remainder.
LEMMA RemainderAdd ==
  ASSUME NEW m \in Nat \ {0}, NEW n \in Int, NEW j \in Int
  PROVE  /\ ((n % m) + j) % m = (n + j) % m
         /\ (n % m) + j \in 0..m - 1 => (n + j) % m = (n % m) + j
<1>1. PICK q \in Int : n = (m * q) + (n % m)
  BY Remainder
<1>2. n % m \in Int /\ (n % m) + j \in Int
  BY Remainder
<1>3. PICK x \in Int : x = m * q /\ n = x + (n % m)
  BY <1>1
<1>4. n + j = ((n % m) + j) + (m * q)
  BY <1>2, <1>3
<1>5. ((n % m) + j) % m = (n + j) % m
  <2>1. (((n % m) + j) + (m * q)) % m = ((n % m) + j) % m
    BY <1>2, RemainderShift
  <2> QED
    BY <1>4, <2>1
<1>6. ASSUME (n % m) + j \in 0..m - 1 PROVE (n + j) % m = (n % m) + j
  <2>1. (m * 0) + ((n % m) + j) = (n % m) + j
    BY <1>2
  <2> QED
    BY <1>5, <1>6, <2>1, RemainderIs
<1> QED
  BY <1>5, <1>6

\* A sequence that equals, place by place, a part of another.
LEMMA IsPart ==
  ASSUME NEW S, NEW h \in Seq(S), NEW g \in Seq(S),
         NEW a \in 1..Len(h) + 1, NEW b \in a - 1..Len(h), Len(g) = (b - a) + 1,
         \A i \in 1..Len(g) : g[i] = h[(a + i) - 1]
  PROVE  g = SubSeq(h, a, b)
<1>1. Len(h) \in Nat /\ Len(g) \in Nat /\ a \in Int /\ b \in Int
  BY LenProperties
<1>2. \A i \in a..b : h[i] \in S
  BY <1>1, ElementOfSeq
<1>3. /\ SubSeq(h, a, b) \in Seq(S)
      /\ Len(SubSeq(h, a, b)) = IF a <= b THEN b - a + 1 ELSE 0
      /\ \A i \in 1..b - a + 1 : SubSeq(h, a, b)[i] = h[a + i - 1]
  BY <1>1, <1>2, SubSeqProperties
<1>4. Len(SubSeq(h, a, b)) = Len(g)
  BY <1>1, <1>3
<1>5. ASSUME NEW i \in 1..Len(g) PROVE SubSeq(h, a, b)[i] = g[i]
  BY <1>1, <1>3
<1> QED
  BY <1>3, <1>4, <1>5, SeqEqual

\* A sequence that keeps another and goes on with the first n of a third.
LEMMA IsExtended ==
  ASSUME NEW S, NEW h \in Seq(S), NEW g \in Seq(S), NEW d \in Seq(S),
         NEW n \in 0..Len(d), Len(g) = Len(h) + n,
         \A i \in 1..Len(h) : g[i] = h[i],
         \A j \in 1..n : g[Len(h) + j] = d[j]
  PROVE  g = h \o SubSeq(d, 1, n)
<1>1. Len(h) \in Nat /\ Len(g) \in Nat /\ Len(d) \in Nat
  BY LenProperties
<1>2. \A i \in 1..n : d[i] \in S
  BY <1>1, ElementOfSeq
<1>3. /\ SubSeq(d, 1, n) \in Seq(S) /\ Len(SubSeq(d, 1, n)) = n
      /\ \A i \in 1..n : SubSeq(d, 1, n)[i] = d[i]
  <2>1. /\ SubSeq(d, 1, n) \in Seq(S)
        /\ Len(SubSeq(d, 1, n)) = IF 1 <= n THEN n - 1 + 1 ELSE 0
        /\ \A i \in 1..n - 1 + 1 : SubSeq(d, 1, n)[i] = d[1 + i - 1]
    BY <1>1, <1>2, SubSeqProperties
  <2> QED
    BY <1>1, <2>1
<1>4. /\ h \o SubSeq(d, 1, n) \in Seq(S)
      /\ Len(h \o SubSeq(d, 1, n)) = Len(h) + n
      /\ \A i \in 1..Len(h) + n : (h \o SubSeq(d, 1, n))[i] =
            IF i <= Len(h) THEN h[i] ELSE SubSeq(d, 1, n)[i - Len(h)]
  BY <1>3, ConcatProperties
<1>5. ASSUME NEW i \in 1..Len(g) PROVE g[i] = (h \o SubSeq(d, 1, n))[i]
  <2>1. CASE i <= Len(h)
    BY <1>1, <1>4, <2>1
  <2>2. CASE i > Len(h)
    <3>1. i - Len(h) \in 1..n /\ Len(h) + (i - Len(h)) = i
      BY <1>1, <2>2
    <3> QED
      BY <1>1, <1>3, <1>4, <2>2, <3>1
  <2> QED
    BY <1>1, <2>1, <2>2
<1> QED
  BY <1>4, <1>5, SeqEqual

\* What memcpy() leaves in the memory, and what it takes out of it.
Memory == [0..Cap - 1 -> Value]

Patched(mem, at, d, n, new) ==
  /\ new \in Memory
  /\ \A i \in 0..Cap - 1 : (i < at \/ i >= at + n) => new[i] = mem[i]
  /\ \A j \in 1..n : new[at + (j - 1)] = d[j]
TakenOut(mem, at, n, got) ==
  /\ got \in Seq(Value) /\ Len(got) = n
  /\ \A i \in 1..n : got[i] = mem[at + (i - 1)]

LEMMA Copied ==
  ASSUME Cap \in Nat \ {0}, NEW mem \in Memory, NEW at \in Nat,
         NEW d \in Seq(Value), NEW n \in 0..Len(d), at + n <= Cap
  PROVE  Patched(mem, at, d, n, Buf!Copy(mem, at, SubSeq(d, 1, n)))
<1>1. Len(d) \in Nat
  BY LenProperties
<1>2. /\ Len(SubSeq(d, 1, n)) = n
      /\ \A i \in 1..n : SubSeq(d, 1, n)[i] = d[i] /\ d[i] \in Value
  <2>1. \A i \in 1..n : d[i] \in Value
    BY <1>1, ElementOfSeq
  <2>2. /\ Len(SubSeq(d, 1, n)) = IF 1 <= n THEN n - 1 + 1 ELSE 0
        /\ \A i \in 1..n - 1 + 1 : SubSeq(d, 1, n)[i] = d[1 + i - 1]
    BY <1>1, <2>1, SubSeqProperties
  <2> QED
    BY <1>1, <2>1, <2>2
<1>3. Buf!Copy(mem, at, SubSeq(d, 1, n)) =
        [i \in 0..Cap - 1 |->
           IF i \in at..(at + n) - 1 THEN SubSeq(d, 1, n)[(i - at) + 1] ELSE mem[i]]
  BY <1>2 DEF Buf!Copy
<1>4. ASSUME NEW i \in at..(at + n) - 1
      PROVE  /\ i \in 0..Cap - 1 /\ (i - at) + 1 \in 1..n
             /\ SubSeq(d, 1, n)[(i - at) + 1] = d[(i - at) + 1]
             /\ d[(i - at) + 1] \in Value
  <2>1. i \in 0..Cap - 1 /\ (i - at) + 1 \in 1..n
    BY <1>1
  <2> QED
    BY <1>2, <2>1
<1>5. Buf!Copy(mem, at, SubSeq(d, 1, n)) \in Memory
  BY <1>3, <1>4 DEF Memory
<1>6. ASSUME NEW j \in 1..n
      PROVE  Buf!Copy(mem, at, SubSeq(d, 1, n))[at + (j - 1)] = d[j]
  <2>1. /\ at + (j - 1) \in at..(at + n) - 1 /\ at + (j - 1) \in 0..Cap - 1
        /\ ((at + (j - 1)) - at) + 1 = j
    BY <1>1
  <2> QED
    BY <1>3, <1>4, <2>1
<1>7. ASSUME NEW i \in 0..Cap - 1, i < at \/ i >= at + n
      PROVE  Buf!Copy(mem, at, SubSeq(d, 1, n))[i] = mem[i]
  <2>1. i \notin at..(at + n) - 1
    BY <1>1, <1>7
  <2> QED
    BY <1>3, <2>1
<1> QED
  BY <1>5, <1>6, <1>7 DEF Patched

-----------------------------------------------------------------------------
(* The ring's two turns.                                                   *)

RingBuf == [data : Memory, lmt : 0..Cap, pos : 0..Cap - 1]
At(b, i) == b.data[(b.pos + (i - 1)) % Cap]
WriteCount(b, d) ==
  Buf!LesserOf(Buf!LesserOf(Len(d), Cap - b.lmt), Cap - ((b.pos + b.lmt) % Cap))

\* A turn of the write adds its bytes after those held, which it leaves alone.
WriteTurned(b, d, w, n) ==
  /\ w.b \in RingBuf /\ w.b.pos = b.pos /\ w.b.lmt = b.lmt + n
  /\ w.d \in Seq(Value) /\ Len(w.d) = Len(d) - n
  /\ \A j \in 1..Len(d) - n : w.d[j] = d[n + j]
  /\ \A i \in 1..b.lmt : At(w.b, i) = At(b, i)
  /\ \A j \in 1..n : At(w.b, b.lmt + j) = d[j]

LEMMA CountFits ==
  ASSUME NEW cap \in Nat \ {0}, NEW lmt \in 0..cap, NEW at \in 0..cap - 1,
         NEW len \in Nat, NEW n,
         n = Buf!LesserOf(Buf!LesserOf(len, cap - lmt), cap - at)
  PROVE  n \in 0..len /\ lmt + n \in 0..cap /\ at + n <= cap
BY DEF Buf!LesserOf

LEMMA OneWriteTurn ==
  ASSUME Cap \in Nat \ {0}, NEW b \in RingBuf, NEW d \in Seq(Value)
  PROVE  /\ WriteCount(b, d) \in 0..Len(d)
         /\ WriteTurned(b, d, Buf!WriteTurn([b |-> b, d |-> d]), WriteCount(b, d))
<1> DEFINE wpos == (b.pos + b.lmt) % Cap
           n == WriteCount(b, d)
           w == Buf!WriteTurn([b |-> b, d |-> d])
           mem == Buf!Copy(b.data, wpos, SubSeq(d, 1, n))
<1>1. /\ b.data \in Memory /\ b.lmt \in 0..Cap /\ b.pos \in 0..Cap - 1
      /\ Len(d) \in Nat /\ Cap \in Nat \ {0}
  BY LenProperties DEF RingBuf
<1>2. wpos \in 0..Cap - 1
  <2>1. b.pos + b.lmt \in Int
    BY <1>1
  <2> QED
    BY <1>1, <2>1, Remainder
<1>3. n \in 0..Len(d) /\ b.lmt + n \in 0..Cap /\ wpos + n <= Cap
  BY <1>1, <1>2, CountFits DEF WriteCount
<1>4. /\ w.b = [b EXCEPT !.data = mem, !.lmt = b.lmt + n]
      /\ w.d = SubSeq(d, n + 1, Len(d))
  BY DEF Buf!WriteTurn, WriteCount
<1> HIDE DEF wpos, n, w
<1>5. /\ mem \in Memory
      /\ \A i \in 0..Cap - 1 : (i < wpos \/ i >= wpos + n) => mem[i] = b.data[i]
      /\ \A j \in 1..n : mem[wpos + (j - 1)] = d[j]
  <2>1. b.data \in Memory /\ wpos \in Nat
    BY <1>1, <1>2
  <2> QED
    BY <1>3, <2>1, Copied DEF Patched
<1> HIDE DEF mem
<1>6. w.b \in RingBuf /\ w.b.pos = b.pos /\ w.b.lmt = b.lmt + n /\ w.b.data = mem
  BY <1>1, <1>3, <1>4, <1>5 DEF RingBuf
<1>7. /\ w.d \in Seq(Value) /\ Len(w.d) = Len(d) - n
      /\ \A j \in 1..Len(d) - n : w.d[j] = d[n + j]
  <2>1. \A i \in n + 1..Len(d) : d[i] \in Value
    BY <1>1, <1>3, ElementOfSeq
  <2>2. n + 1 \in Int /\ Len(d) \in Int
    BY <1>1, <1>3
  <2>3. /\ SubSeq(d, n + 1, Len(d)) \in Seq(Value)
        /\ Len(SubSeq(d, n + 1, Len(d))) =
             IF n + 1 <= Len(d) THEN Len(d) - (n + 1) + 1 ELSE 0
        /\ \A i \in 1..Len(d) - (n + 1) + 1 :
             SubSeq(d, n + 1, Len(d))[i] = d[(n + 1) + i - 1]
    BY <2>1, <2>2, SubSeqProperties
  <2>4. Len(w.d) = Len(d) - n
    BY <1>1, <1>3, <1>4, <2>3
  <2>5. ASSUME NEW j \in 1..Len(d) - n PROVE w.d[j] = d[n + j]
    <3>1. j \in 1..Len(d) - (n + 1) + 1 /\ (n + 1) + j - 1 = n + j
      BY <1>1, <1>3
    <3> QED
      BY <1>4, <2>3, <3>1
  <2> QED
    BY <1>4, <2>3, <2>4, <2>5
\* k places after the write position, and before the end of the memory.
<1>8. ASSUME NEW k \in 0..n - 1
      PROVE  (b.pos + (b.lmt + k)) % Cap = wpos + k
  <2>1. b.pos + b.lmt \in Int /\ k \in Int /\ wpos + k \in 0..Cap - 1
        /\ b.pos + (b.lmt + k) = (b.pos + b.lmt) + k
    BY <1>1, <1>2, <1>3
  <2> QED
    BY <1>1, <2>1, RemainderAdd DEF wpos
<1>9. ASSUME NEW j \in 1..n PROVE At(w.b, b.lmt + j) = d[j]
  <2>1. j - 1 \in 0..n - 1 /\ b.pos + ((b.lmt + j) - 1) = b.pos + (b.lmt + (j - 1))
    BY <1>1, <1>3
  <2>2. (b.pos + ((b.lmt + j) - 1)) % Cap = wpos + (j - 1)
    BY <1>8, <2>1
  <2> QED
    BY <1>5, <1>6, <2>2 DEF At
<1>10. ASSUME NEW i \in 1..b.lmt PROVE At(w.b, i) = At(b, i)
  <2> DEFINE p == (b.pos + (i - 1)) % Cap
  <2>1. b.pos + (i - 1) \in Int
    BY <1>1
  <2>2. p \in 0..Cap - 1
    BY <1>1, <2>1, Remainder
  <2>3. ASSUME p >= wpos, p < wpos + n PROVE FALSE
    <3> DEFINE k == p - wpos
    <3>1. k \in 0..n - 1 /\ p = wpos + k
      <4> HIDE DEF p
      <4> QED
        BY <1>2, <1>3, <2>2, <2>3
    <3> HIDE DEF k, p
    <3>2. (b.pos + (b.lmt + k)) % Cap = p
      BY <1>8, <3>1
    <3>3. (b.lmt + k) - (i - 1) \in 1..Cap - 1
          /\ (b.pos + (i - 1)) + ((b.lmt + k) - (i - 1)) = b.pos + (b.lmt + k)
      <4>1. b.pos \in Int /\ b.lmt \in Int /\ k \in Int /\ i \in Int /\ n \in Int
        BY <1>1, <1>3, <3>1
      <4>2. 1 <= i /\ i <= b.lmt /\ 0 <= k /\ k < n /\ b.lmt + n <= Cap
        BY <1>1, <1>3, <3>1
      <4>3. b.lmt + k < Cap /\ i - 1 >= 0 /\ (b.lmt + k) - (i - 1) >= 1
        BY <4>1, <4>2
      <4>4. (b.lmt + k) - (i - 1) \in 1..Cap - 1
        BY <4>1, <4>3
      <4>5. (b.pos + (i - 1)) + ((b.lmt + k) - (i - 1)) = b.pos + (b.lmt + k)
        BY <4>1
      <4> QED
        BY <4>4, <4>5
    <3>4. ((b.pos + (i - 1)) + ((b.lmt + k) - (i - 1))) % Cap # (b.pos + (i - 1)) % Cap
      BY <1>1, <2>1, <3>3, RemaindersApart
    <3> QED
      BY <3>2, <3>3, <3>4 DEF p
  <2>4. mem[p] = b.data[p]
    <3> HIDE DEF p
    <3>1. p < wpos \/ p >= wpos + n
      BY <1>2, <1>3, <2>2, <2>3
    <3> QED
      BY <1>5, <2>2, <3>1
  <2> QED
    BY <1>6, <2>4 DEF At
<1> QED
  BY <1>3, <1>6, <1>7, <1>9, <1>10 DEF WriteTurned, n, w

LEMMA AtTheEnd ==
  ASSUME NEW m \in Nat \ {0}, NEW n \in Int, NEW j \in Int, (n % m) + j = m
  PROVE  (n + j) % m = 0
<1>1. ((n % m) + j) % m = (n + j) % m
  BY RemainderAdd
<1>2. (m * 1) + 0 = m /\ 0 \in 0..m - 1
  OBVIOUS
<1>3. ((m * 1) + 0) % m = 0
  BY <1>2, RemainderIs
<1> QED
  BY <1>1, <1>2, <1>3

\* c is b with the first n of d added.
Written(b, d, c, n) ==
  /\ c \in RingBuf /\ c.lmt = b.lmt + n
  /\ \A i \in 1..b.lmt : At(c, i) = At(b, i)
  /\ \A j \in 1..n : At(c, b.lmt + j) = d[j]

\* Two turns are enough: the first stops short only at the end of the memory,
\* and the second has the start of it.
LEMMA WriteTwoTurns ==
  ASSUME Cap \in Nat \ {0}, NEW b \in RingBuf, NEW d \in Seq(Value), NEW n,
         n = Buf!LesserOf(Len(d), Cap - b.lmt)
  PROVE  /\ n \in 0..Len(d) /\ b.lmt + n \in 0..Cap
         /\ Written(b, d, Buf!WriteTurn(Buf!WriteTurn([b |-> b, d |-> d])).b, n)
<1> DEFINE w1 == Buf!WriteTurn([b |-> b, d |-> d])
           w2 == Buf!WriteTurn(w1)
           n1 == WriteCount(b, d)
           n2 == WriteCount(w1.b, w1.d)
<1>1. n1 \in 0..Len(d) /\ WriteTurned(b, d, w1, n1)
  BY OneWriteTurn
<1>2. w1 = [b |-> w1.b, d |-> w1.d]
  BY DEF Buf!WriteTurn
<1>3. n2 \in 0..Len(w1.d) /\ WriteTurned(w1.b, w1.d, w2, n2)
  <2>1. w1.b \in RingBuf /\ w1.d \in Seq(Value)
    BY <1>1 DEF WriteTurned
  <2> HIDE DEF w1, n1
  <2>2. WriteTurned(w1.b, w1.d, Buf!WriteTurn([b |-> w1.b, d |-> w1.d]), n2)
        /\ n2 \in 0..Len(w1.d)
    BY <2>1, OneWriteTurn
  <2> QED
    BY <1>2, <2>2
<1>4. /\ b.lmt \in 0..Cap /\ b.pos \in 0..Cap - 1 /\ Len(d) \in Nat
      /\ b.pos + b.lmt \in Int
  BY LenProperties DEF RingBuf
<1>5. n = n1 + n2
  <2> DEFINE at == (b.pos + b.lmt) % Cap
             at2 == (w1.b.pos + w1.b.lmt) % Cap
  <2>1. n1 = Buf!LesserOf(Buf!LesserOf(Len(d), Cap - b.lmt), Cap - at)
    BY DEF WriteCount
  <2>2. n2 = Buf!LesserOf(Buf!LesserOf(Len(d) - n1, Cap - (b.lmt + n1)), Cap - at2)
    <3> HIDE DEF w1, n1
    <3> QED
      BY <1>1 DEF WriteTurned, WriteCount
  <2>3. at2 = ((b.pos + b.lmt) + n1) % Cap /\ (b.pos + b.lmt) + n1 \in Int
    <3> HIDE DEF n1, w1
    <3>1. w1.b.pos = b.pos /\ w1.b.lmt = b.lmt + n1
      BY <1>1 DEF WriteTurned
    <3>2. b.pos + (b.lmt + n1) = (b.pos + b.lmt) + n1 /\ (b.pos + b.lmt) + n1 \in Int
      BY <1>1, <1>4
    <3> QED
      BY <3>1, <3>2
  <2>4. at \in 0..Cap - 1 /\ at2 \in 0..Cap - 1
    <3> HIDE DEF n1, w1
    <3> QED
      BY <1>4, <2>3, Remainder
  <2>5. n1 = Cap - at => at2 = 0
    <3> HIDE DEF n1, at2
    <3>1. ASSUME n1 = Cap - at PROVE at + n1 = Cap /\ n1 \in Int
      <4> HIDE DEF at
      <4> QED
        BY <2>4, <3>1
    <3> QED
      BY <1>4, <2>3, <3>1, AtTheEnd
  <2> HIDE DEF n1, n2, at, at2, w1, w2
  <2>6. b.lmt \in 0..Cap /\ Len(d) \in Nat
    BY <1>4
  <2>7. n1 + n2 = Buf!LesserOf(Len(d), Cap - b.lmt)
    <3>1. PICK k \in Nat : k = Buf!LesserOf(Len(d), Cap - b.lmt) /\ k <= Len(d) /\ k <= Cap - b.lmt
      BY <2>6 DEF Buf!LesserOf
    <3>2. n1 = Buf!LesserOf(k, Cap - at)
      BY <2>1, <3>1
    <3>3. n1 \in 0..k
      BY <2>4, <3>1, <3>2 DEF Buf!LesserOf
    <3>4. Buf!LesserOf(Len(d) - n1, Cap - (b.lmt + n1)) = k - n1
      BY <2>6, <3>1, <3>3 DEF Buf!LesserOf
    <3>5. n2 = Buf!LesserOf(k - n1, Cap - at2)
      BY <2>2, <3>4
    <3>6. CASE n1 = k
      <4>1. n2 = 0
        BY <2>4, <3>1, <3>5, <3>6 DEF Buf!LesserOf
      <4> QED
        BY <3>1, <3>6, <4>1
    <3>7. CASE n1 # k
      <4>1. n1 = Cap - at /\ Cap - at2 = Cap
        BY <2>4, <2>5, <3>2, <3>7 DEF Buf!LesserOf
      <4>2. k - n1 \in 0..Cap
        BY <2>6, <3>1, <3>3
      <4>3. n2 = k - n1
        BY <3>5, <4>1, <4>2 DEF Buf!LesserOf
      <4> QED
        BY <3>1, <3>3, <4>3
    <3> QED
      BY <3>1, <3>6, <3>7
  <2> QED
    BY <2>7
<1> HIDE DEF w1, w2, n1, n2
<1>6. /\ w1.b.lmt = b.lmt + n1 /\ w2.b.lmt = (b.lmt + n1) + n2 /\ w2.b \in RingBuf
      /\ n1 \in Nat /\ n2 \in Nat /\ n1 + n2 <= Len(d)
  BY <1>1, <1>3, <1>4 DEF WriteTurned
<1>7. n \in 0..Len(d) /\ w2.b.lmt = b.lmt + n /\ b.lmt + n \in 0..Cap
  <2>1. n = n1 + n2
    BY <1>5
  <2>2. b.lmt \in Nat /\ Len(d) \in Nat
    BY <1>4
  <2>3. w2.b.lmt \in 0..Cap /\ w2.b.lmt = (b.lmt + n1) + n2
    BY <1>6 DEF RingBuf
  <2>4. n1 \in Nat /\ n2 \in Nat /\ n1 + n2 <= Len(d)
    BY <1>6
  <2>5. w2.b.lmt = b.lmt + n
    BY <2>1, <2>2, <2>3, <2>4
  <2>6. n \in 0..Len(d)
    BY <2>1, <2>2, <2>4
  <2> QED
    BY <2>3, <2>5, <2>6
<1>8. ASSUME NEW i \in 1..b.lmt PROVE At(w2.b, i) = At(b, i)
  <2>1. i \in 1..w1.b.lmt
    BY <1>4, <1>6
  <2> QED
    BY <1>1, <1>3, <2>1 DEF WriteTurned
<1>9. ASSUME NEW j \in 1..n PROVE At(w2.b, b.lmt + j) = d[j]
  <2>1. CASE j <= n1
    <3>1. b.lmt + j \in 1..w1.b.lmt /\ j \in 1..n1
      <4>1. b.lmt \in Nat /\ n1 \in Nat /\ j \in Nat \ {0} /\ w1.b.lmt = b.lmt + n1
        BY <1>4, <1>6
      <4> QED
        BY <2>1, <4>1
    <3> QED
      BY <1>1, <1>3, <3>1 DEF WriteTurned
  <2>2. CASE j > n1
    <3>1. /\ j - n1 \in 1..n2 /\ j - n1 \in 1..Len(d) - n1 /\ n1 + (j - n1) = j
          /\ w1.b.lmt + (j - n1) = b.lmt + j
      BY <1>4, <1>5, <1>6, <2>2
    <3>2. At(w2.b, b.lmt + j) = w1.d[j - n1]
      BY <1>3, <3>1 DEF WriteTurned
    <3>3. w1.d[j - n1] = d[j]
      BY <1>1, <3>1 DEF WriteTurned
    <3> QED
      BY <3>2, <3>3
  <2> QED
    BY <1>5, <1>6, <2>1, <2>2
<1> QED
  BY <1>6, <1>7, <1>8, <1>9 DEF Written, w1, w2

\* A turn of the read takes the first n bytes held and adds them to those got.
ReadTurned(b, got, sz, r, n) ==
  /\ r.b \in RingBuf /\ r.b.lmt = b.lmt - n /\ r.b.pos = (b.pos + n) % Cap
  /\ r.sz = sz - n
  /\ r.got \in Seq(Value) /\ Len(r.got) = Len(got) + n
  /\ \A i \in 1..Len(got) : r.got[i] = got[i]
  /\ \A j \in 1..n : r.got[Len(got) + j] = At(b, j)
  /\ \A i \in 1..b.lmt - n : At(r.b, i) = At(b, n + i)

LEMMA OneReadTurn ==
  ASSUME Cap \in Nat \ {0}, NEW b \in RingBuf, NEW got \in Seq(Value),
         NEW sz \in 0..b.lmt, NEW n, n = Buf!LesserOf(sz, Cap - b.pos)
  PROVE  /\ n \in 0..sz
         /\ ReadTurned(b, got, sz, Buf!ReadTurn([b |-> b, got |-> got, sz |-> sz]), n)
<1> DEFINE r == Buf!ReadTurn([b |-> b, got |-> got, sz |-> sz])
           took == Buf!From(b, b.pos, n)
<1>1. /\ b.data \in Memory /\ b.lmt \in 0..Cap /\ b.pos \in 0..Cap - 1
      /\ Len(got) \in Nat
  BY LenProperties DEF RingBuf
<1>2. n \in 0..sz /\ b.pos + n <= Cap
  BY <1>1 DEF Buf!LesserOf
<1>3. /\ r.b = [b EXCEPT !.pos = (b.pos + n) % Cap, !.lmt = b.lmt - n]
      /\ r.got = got \o took /\ r.sz = sz - n
  BY DEF Buf!ReadTurn
<1> HIDE DEF r
<1>4. b.pos + n \in Int /\ (b.pos + n) % Cap \in 0..Cap - 1
  <2>1. b.pos + n \in Int
    BY <1>1, <1>2
  <2> QED
    BY <2>1, Remainder
<1>5. /\ r.b \in RingBuf /\ r.b.lmt = b.lmt - n /\ r.b.pos = (b.pos + n) % Cap
      /\ r.b.data = b.data
  <2>1. b.lmt - n \in 0..Cap
    BY <1>1, <1>2
  <2>2. r.b = [b EXCEPT !.pos = (b.pos + n) % Cap, !.lmt = b.lmt - n]
    BY <1>3
  <2> QED
    BY <1>4, <2>1, <2>2 DEF RingBuf
<1>6. ASSUME NEW j \in 1..n PROVE took[j] = At(b, j) /\ took[j] \in Value
  <2>1. b.pos + (j - 1) \in 0..Cap - 1 /\ b.pos + j - 1 = b.pos + (j - 1)
    BY <1>1, <1>2
  <2>2. (b.pos + (j - 1)) % Cap = b.pos + (j - 1)
    BY <2>1, RemainderSmall
  <2>3. took[j] = b.data[b.pos + (j - 1)]
    BY <2>1 DEF Buf!From
  <2>4. b.data[b.pos + (j - 1)] \in Value
    BY <1>1, <2>1 DEF Memory
  <2> QED
    BY <2>2, <2>3, <2>4 DEF At
<1>7. took \in Seq(Value) /\ Len(took) = n
  <2>1. n \in Nat
    BY <1>1, <1>2
  <2>2. took \in [1..n -> Value]
    BY <1>6 DEF Buf!From
  <2> QED
    BY <2>1, <2>2, SeqDef, LenProperties
<1> HIDE DEF took
<1>8. /\ r.got \in Seq(Value) /\ Len(r.got) = Len(got) + n
      /\ \A i \in 1..Len(got) : r.got[i] = got[i]
      /\ \A j \in 1..n : r.got[Len(got) + j] = At(b, j)
  <2>1. /\ r.got \in Seq(Value) /\ Len(r.got) = Len(got) + n
        /\ \A i \in 1..Len(got) + n : r.got[i] =
             IF i <= Len(got) THEN got[i] ELSE took[i - Len(got)]
    <3>1. /\ got \o took \in Seq(Value) /\ Len(got \o took) = Len(got) + Len(took)
          /\ \A i \in 1..Len(got) + Len(took) : (got \o took)[i] =
               IF i <= Len(got) THEN got[i] ELSE took[i - Len(got)]
      BY <1>7, ConcatProperties
    <3> QED
      BY <1>3, <1>7, <3>1
  <2>2. ASSUME NEW i \in 1..Len(got) PROVE r.got[i] = got[i]
    <3>1. i \in 1..Len(got) + n /\ i <= Len(got)
      BY <1>1, <1>2
    <3> QED
      BY <2>1, <3>1
  <2>3. ASSUME NEW j \in 1..n PROVE r.got[Len(got) + j] = At(b, j)
    <3>1. /\ Len(got) + j \in 1..Len(got) + n /\ ~(Len(got) + j <= Len(got))
          /\ (Len(got) + j) - Len(got) = j
      BY <1>1, <1>2
    <3> QED
      BY <1>6, <2>1, <3>1
  <2> QED
    BY <2>1, <2>2, <2>3
<1>9. ASSUME NEW i \in 1..b.lmt - n PROVE At(r.b, i) = At(b, n + i)
  <2>1. i - 1 \in Int /\ (b.pos + n) + (i - 1) = b.pos + ((n + i) - 1)
    BY <1>1, <1>2
  <2>2. (((b.pos + n) % Cap) + (i - 1)) % Cap = ((b.pos + n) + (i - 1)) % Cap
    BY <1>4, <2>1, RemainderAdd
  <2> QED
    BY <1>5, <2>1, <2>2 DEF At
<1> QED
  BY <1>2, <1>3, <1>5, <1>8, <1>9 DEF ReadTurned, r

\* c is b without its first n bytes, which are got.
Taken(b, c, got, n) ==
  /\ c \in RingBuf /\ c.lmt = b.lmt - n
  /\ got \in Seq(Value) /\ Len(got) = n
  /\ \A j \in 1..n : got[j] = At(b, j)
  /\ \A i \in 1..b.lmt - n : At(c, i) = At(b, n + i)

LEMMA ReadTwoTurns ==
  ASSUME Cap \in Nat \ {0}, NEW b \in RingBuf, NEW n \in 0..b.lmt, NEW r,
         r = Buf!ReadTurn(Buf!ReadTurn([b |-> b, got |-> <<>>, sz |-> n]))
  PROVE  Taken(b, r.b, r.got, n)
<1> DEFINE r1 == Buf!ReadTurn([b |-> b, got |-> <<>>, sz |-> n])
           n1 == Buf!LesserOf(n, Cap - b.pos)
           n2 == Buf!LesserOf(r1.sz, Cap - r1.b.pos)
<1>1. b.lmt \in 0..Cap /\ b.pos \in 0..Cap - 1 /\ n \in Nat
  BY DEF RingBuf
<1>2. <<>> \in Seq(Value) /\ Len(<<>>) = 0
  BY EmptySeq
<1>3. n1 \in 0..n /\ ReadTurned(b, <<>>, n, r1, n1)
  <2> HIDE DEF n1
  <2>1. n1 = Buf!LesserOf(n, Cap - b.pos)
    BY DEF n1
  <2> QED
    BY <1>2, <2>1, OneReadTurn
<1>4. r1 = [b |-> r1.b, got |-> r1.got, sz |-> r1.sz]
  BY DEF Buf!ReadTurn
<1>5. n2 \in 0..r1.sz /\ ReadTurned(r1.b, r1.got, r1.sz, r, n2)
  <2> HIDE DEF r1, n1, n2
  <2>1. n2 = Buf!LesserOf(r1.sz, Cap - r1.b.pos)
    BY DEF n2
  <2>2. r1.b \in RingBuf /\ r1.got \in Seq(Value) /\ r1.sz \in 0..r1.b.lmt
    BY <1>1, <1>3 DEF ReadTurned
  <2>3. /\ n2 \in 0..r1.sz
        /\ ReadTurned(r1.b, r1.got, r1.sz,
             Buf!ReadTurn([b |-> r1.b, got |-> r1.got, sz |-> r1.sz]), n2)
    BY <2>1, <2>2, OneReadTurn
  <2>4. r = Buf!ReadTurn(r1)
    BY DEF r1
  <2> QED
    BY <1>4, <2>3, <2>4
<1>6. n1 + n2 = n
  <2>1. n1 = Cap - b.pos => r1.b.pos = 0
    <3> HIDE DEF r1, n1
    <3>1. (Cap * 1) + 0 = Cap /\ 0 \in 0..Cap - 1
      OBVIOUS
    <3>2. Cap % Cap = 0
      <4>1. ((Cap * 1) + 0) % Cap = 0
        BY <3>1, RemainderIs
      <4> QED
        BY <3>1, <4>1
    <3>3. ASSUME n1 = Cap - b.pos PROVE b.pos + n1 = Cap
      BY <1>1, <3>3
    <3> QED
      BY <1>3, <3>2, <3>3 DEF ReadTurned
  <2>2. r1.sz = n - n1 /\ r1.b.pos \in 0..Cap - 1
    <3> HIDE DEF r1, n1
    <3> QED
      BY <1>3 DEF ReadTurned, RingBuf
  <2>3. n1 = Buf!LesserOf(n, Cap - b.pos) /\ n2 = Buf!LesserOf(r1.sz, Cap - r1.b.pos)
    BY DEF n1, n2
  <2> HIDE DEF r1, n1, n2
  <2>4. n <= Cap /\ Cap - b.pos \in 1..Cap
    BY <1>1
  <2>5. CASE n <= Cap - b.pos
    <3>1. n1 = n /\ r1.sz = 0
      BY <1>1, <2>2, <2>3, <2>5 DEF Buf!LesserOf
    <3>2. n2 = 0
      BY <2>2, <2>3, <3>1 DEF Buf!LesserOf
    <3> QED
      BY <1>1, <3>1, <3>2
  <2>6. CASE ~(n <= Cap - b.pos)
    <3>1. n1 = Cap - b.pos /\ r1.b.pos = 0
      BY <2>1, <2>3, <2>6 DEF Buf!LesserOf
    <3>2. r1.sz \in 0..Cap /\ n1 + r1.sz = n /\ Cap - 0 = Cap
      BY <1>1, <2>2, <2>4, <2>6, <3>1
    <3>3. n2 = r1.sz
      BY <2>3, <3>1, <3>2 DEF Buf!LesserOf
    <3> QED
      BY <3>2, <3>3
  <2> QED
    BY <2>5, <2>6
<1> HIDE DEF r1, n1, n2
<1>7. /\ n1 \in Nat /\ n2 \in Nat /\ r1.b.lmt = b.lmt - n1 /\ r1.got \in Seq(Value)
      /\ Len(r1.got) = n1 /\ r.b.lmt = b.lmt - n /\ Len(r.got) = n
  <2>1. /\ n1 \in Nat /\ r1.b.lmt = b.lmt - n1 /\ r1.got \in Seq(Value)
        /\ Len(r1.got) = 0 + n1 /\ r1.sz = n - n1
    BY <1>1, <1>2, <1>3 DEF ReadTurned
  <2>2. n2 \in Nat /\ r.b.lmt = r1.b.lmt - n2 /\ Len(r.got) = Len(r1.got) + n2
    BY <1>5, <1>6, <2>1, <1>1 DEF ReadTurned
  <2>3. b.lmt \in Nat
    BY <1>1
  <2> QED
    BY <1>6, <2>1, <2>2, <2>3
<1>8. ASSUME NEW j \in 1..n PROVE r.got[j] = At(b, j)
  <2>1. CASE j <= n1
    <3>1. j \in 1..n1 /\ 0 + j = j
      BY <1>7, <2>1
    <3>2. r.got[j] = r1.got[j]
      BY <1>5, <1>7, <3>1 DEF ReadTurned
    <3>3. r1.got[Len(<<>>) + j] = At(b, j)
      BY <1>3, <3>1 DEF ReadTurned
    <3> QED
      BY <1>2, <3>1, <3>2, <3>3
  <2>2. CASE j > n1
    <3>1. /\ j - n1 \in 1..n2 /\ n1 + (j - n1) = j
          /\ j - n1 \in 1..b.lmt - n1
      BY <1>1, <1>6, <1>7, <2>2
    <3>2. r.got[Len(r1.got) + (j - n1)] = At(r1.b, j - n1)
      BY <1>5, <3>1 DEF ReadTurned
    <3>3. At(r1.b, j - n1) = At(b, n1 + (j - n1))
      BY <1>3, <3>1 DEF ReadTurned
    <3> QED
      BY <1>7, <3>1, <3>2, <3>3
  <2> QED
    BY <1>1, <1>7, <2>1, <2>2
<1>9. ASSUME NEW i \in 1..b.lmt - n PROVE At(r.b, i) = At(b, n + i)
  <2>1. /\ i \in 1..r1.b.lmt - n2 /\ n2 + i \in 1..b.lmt - n1
        /\ n1 + (n2 + i) = n + i
    <3>1. /\ i \in Int /\ n1 \in Int /\ n2 \in Int /\ n = n1 + n2
          /\ 1 <= i /\ i <= b.lmt - n /\ b.lmt \in Int
      BY <1>1, <1>6, <1>7
    <3>2. r1.b.lmt - n2 = b.lmt - n
      BY <1>7, <3>1
    <3>3. 1 <= n2 + i /\ n2 + i <= b.lmt - n1 /\ n1 + (n2 + i) = n + i
      BY <1>7, <3>1
    <3> QED
      BY <3>1, <3>2, <3>3
  <2>2. At(r.b, i) = At(r1.b, n2 + i)
    BY <1>5, <2>1 DEF ReadTurned
  <2>3. At(r1.b, n2 + i) = At(b, n1 + (n2 + i))
    BY <1>3, <2>1 DEF ReadTurned
  <2> QED
    BY <2>1, <2>2, <2>3
<1> QED
  BY <1>5, <1>7, <1>8, <1>9 DEF Taken, ReadTurned

-----------------------------------------------------------------------------
(* Either use as a queue.                                                  *)

BufType ==
  /\ use \in {"ring", "fill", "drain"}
  /\ buf \in [data : Memory, lmt : 0..Cap, pos : 0..Cap]
  /\ use = "ring" => buf.pos < Cap
  /\ use = "fill" => buf.lmt = Cap
  /\ use = "drain" => buf.pos <= buf.lmt

BufHeld ==
  /\ Buf!Held \in Seq(Value)
  /\ use = "ring" => /\ Len(Buf!Held) = buf.lmt
                     /\ \A i \in 1..buf.lmt : Buf!Held[i] = At(buf, i)
  /\ use = "fill" => /\ Len(Buf!Held) = buf.pos
                     /\ \A i \in 1..buf.pos : Buf!Held[i] = buf.data[i - 1]
  /\ use = "drain" => /\ Len(Buf!Held) = buf.lmt - buf.pos
                      /\ \A i \in 1..buf.lmt - buf.pos :
                           Buf!Held[i] = buf.data[buf.pos + (i - 1)]

\* Bytes taken from the memory are a sequence of values.
LEMMA FromMemory ==
  ASSUME Cap \in Nat \ {0}, buf.data \in Memory,
         NEW at \in Nat, NEW n \in Nat, at + n <= Cap
  PROVE  TakenOut(buf.data, at, n, Buf!From(buf, at, n))
<1>1. ASSUME NEW i \in 1..n
      PROVE  at + i - 1 = at + (i - 1) /\ buf.data[at + (i - 1)] \in Value
  <2>1. at + (i - 1) \in 0..Cap - 1 /\ at + i - 1 = at + (i - 1)
    OBVIOUS
  <2> QED
    BY <2>1 DEF Memory
<1>2. /\ Buf!From(buf, at, n) \in [1..n -> Value]
      /\ \A i \in 1..n : Buf!From(buf, at, n)[i] = buf.data[at + (i - 1)]
  BY <1>1 DEF Buf!From
<1>3. Buf!From(buf, at, n) \in Seq(Value) /\ Len(Buf!From(buf, at, n)) = n
  BY <1>2, SeqDef, LenProperties
<1> QED
  BY <1>2, <1>3 DEF TakenOut

LEMMA HeldPlaces ==
  ASSUME Cap \in Nat \ {0}
  PROVE  BufType => BufHeld
<1> SUFFICES ASSUME BufType PROVE BufHeld
  OBVIOUS
<1>1. buf.data \in Memory /\ buf.lmt \in 0..Cap /\ buf.pos \in 0..Cap
  BY DEF BufType
<1>2. CASE use = "ring"
  <2>1. Buf!Held = [i \in 1..buf.lmt |-> buf.data[(buf.pos + i - 1) % Cap]]
    BY <1>2 DEF Buf!Held
  <2>2. ASSUME NEW i \in 1..buf.lmt
        PROVE  /\ buf.data[(buf.pos + i - 1) % Cap] = At(buf, i)
               /\ At(buf, i) \in Value
    <3>1. buf.pos + (i - 1) \in Int /\ buf.pos + i - 1 = buf.pos + (i - 1)
      BY <1>1
    <3>2. (buf.pos + (i - 1)) % Cap \in 0..Cap - 1
      BY <3>1, Remainder
    <3> QED
      BY <1>1, <3>1, <3>2 DEF At, Memory
  <2>3. /\ Buf!Held \in [1..buf.lmt -> Value]
        /\ \A i \in 1..buf.lmt : Buf!Held[i] = At(buf, i)
    BY <2>1, <2>2
  <2>4. Buf!Held \in Seq(Value) /\ Len(Buf!Held) = buf.lmt
    <3>1. buf.lmt \in Nat
      BY <1>1
    <3> QED
      BY <2>3, <3>1, SeqDef, LenProperties
  <2> QED
    BY <1>2, <2>3, <2>4 DEF BufHeld
<1>3. CASE use = "fill"
  <2>1. Buf!Held = Buf!From(buf, 0, buf.pos)
    BY <1>3 DEF Buf!Held
  <2>2. 0 \in Nat /\ buf.pos \in Nat /\ 0 + buf.pos <= Cap
    BY <1>1
  <2>3. TakenOut(buf.data, 0, buf.pos, Buf!Held)
    BY <1>1, <2>1, <2>2, FromMemory
  <2>4. \A i \in 1..buf.pos : 0 + (i - 1) = i - 1
    BY <1>1
  <2> QED
    BY <1>3, <2>3, <2>4 DEF BufHeld, TakenOut
<1>4. CASE use = "drain"
  <2>1. Buf!Held = Buf!From(buf, buf.pos, buf.lmt - buf.pos)
    BY <1>4 DEF Buf!Held
  <2>2. PICK k \in Nat : k = buf.lmt - buf.pos
    BY <1>1, <1>4 DEF BufType
  <2>3. buf.pos \in Nat /\ buf.pos + k <= Cap
    BY <1>1, <2>2
  <2>4. TakenOut(buf.data, buf.pos, k, Buf!From(buf, buf.pos, k))
    BY <1>1, <2>3, FromMemory
  <2> QED
    BY <1>4, <2>1, <2>2, <2>4 DEF BufHeld, TakenOut
<1> QED
  BY <1>2, <1>3, <1>4 DEF BufType

LEMMA HeldPlacesNext ==
  ASSUME Cap \in Nat \ {0}
  PROVE  BufType' => BufHeld'
<1>1. BufType => BufHeld
  BY HeldPlaces
<1> QED
  BY <1>1, PTL

\* What a caller offers is a sequence of bytes, and so is the start of it.
LEMMA Offered ==
  ASSUME Cap \in Nat \ {0}, NEW d \in Buf!Data
  PROVE  /\ d \in Seq(Value) /\ Len(d) \in 0..Cap + 1
         /\ \A n \in 0..Len(d) : SubSeq(d, 1, n) \in Buf!Data
<1>1. PICK k \in 0..Cap + 1 : d \in [1..k -> Bytes]
  BY DEF Buf!Data
<1>2. d \in Seq(Bytes) /\ Len(d) = k
  BY <1>1, SeqDef, LenProperties
<1>3. d \in Seq(Value)
  BY <1>1, SeqDef DEF Value
<1>4. ASSUME NEW n \in 0..Len(d) PROVE SubSeq(d, 1, n) \in Buf!Data
  <2>1. \A i \in 1..n : d[i] \in Bytes
    BY <1>1, <1>2
  <2>2. n \in 0..Cap + 1
    BY <1>1, <1>2
  <2>3. /\ SubSeq(d, 1, n) \in Seq(Bytes)
        /\ Len(SubSeq(d, 1, n)) = IF 1 <= n THEN n - 1 + 1 ELSE 0
    BY <2>1, <2>2, SubSeqProperties
  <2>4. Len(SubSeq(d, 1, n)) = n
    BY <2>2, <2>3
  <2>5. SubSeq(d, 1, n) \in [1..n -> Bytes]
    BY <2>3, <2>4, LenProperties
  <2> QED
    BY <2>2, <2>5 DEF Buf!Data
<1> QED
  BY <1>1, <1>2, <1>3, <1>4

\* Bytes were added: the abstract call offers the n that were taken.
LEMMA IsPut ==
  ASSUME Cap \in Nat \ {0}, BufHeld, BufHeld', NEW d \in Buf!Data,
         NEW n \in 0..Len(d), Len(Buf!Held) + n <= Cap,
         Len(Buf!Held') = Len(Buf!Held) + n,
         \A i \in 1..Len(Buf!Held) : Buf!Held'[i] = Buf!Held[i],
         \A j \in 1..n : Buf!Held'[Len(Buf!Held) + j] = d[j],
         out' = <<n, <<>>>>
  PROVE  Buf!Fifo!Next
<1> DEFINE e == SubSeq(d, 1, n)
<1>1. e \in Buf!Data /\ d \in Seq(Value) /\ Len(d) \in Nat
  BY Offered
<1>2. Buf!Held \in Seq(Value) /\ Buf!Held' \in Seq(Value)
  BY DEF BufHeld
<1>3. Buf!Held' = Buf!Held \o e
  BY <1>1, <1>2, IsExtended
<1>4. Len(e) = n /\ e \in Seq(Value)
  <2>1. \A i \in 1..n : d[i] \in Value
    BY <1>1, ElementOfSeq
  <2>2. /\ e \in Seq(Value) /\ Len(e) = IF 1 <= n THEN n - 1 + 1 ELSE 0
    BY <1>1, <2>1, SubSeqProperties
  <2> QED
    BY <1>1, <2>2
<1> HIDE DEF e
<1>5. SubSeq(e, 1, n) = e
  BY <1>4, SubSeqFull
<1>6. Buf!Fifo!Fewer(Len(e), Cap - Len(Buf!Held)) = n
  <2>1. Len(Buf!Held) \in Nat
    BY <1>2, LenProperties
  <2> QED
    BY <1>1, <1>4, <2>1 DEF Buf!Fifo!Fewer
<1>7. Buf!Fifo!Put(e)
  BY <1>3, <1>5, <1>6 DEF Buf!Fifo!Put
<1> QED
  BY <1>1, <1>7 DEF Buf!Fifo!Next

\* Bytes were taken, and given to the caller.
LEMMA IsGet ==
  ASSUME Cap \in Nat \ {0}, BufHeld, BufHeld', NEW sz \in 0..Cap + 1, NEW n, NEW got,
         n = Buf!LesserOf(sz, Len(Buf!Held)),
         Len(Buf!Held') = Len(Buf!Held) - n,
         \A i \in 1..Len(Buf!Held) - n : Buf!Held'[i] = Buf!Held[n + i],
         got \in Seq(Value), Len(got) = n, \A j \in 1..n : got[j] = Buf!Held[j],
         out' = <<n, got>>
  PROVE  Buf!Fifo!Next
<1>1. /\ Buf!Held \in Seq(Value) /\ Buf!Held' \in Seq(Value)
      /\ Len(Buf!Held) \in Nat
  BY LenProperties DEF BufHeld
<1>2. n \in 0..Len(Buf!Held)
  BY <1>1 DEF Buf!LesserOf
<1>3. got = SubSeq(Buf!Held, 1, n)
  <2>1. /\ 1 \in 1..Len(Buf!Held) + 1 /\ n \in 1 - 1..Len(Buf!Held)
        /\ Len(got) = (n - 1) + 1 /\ \A i \in 1..Len(got) : (1 + i) - 1 = i
    BY <1>1, <1>2
  <2> QED
    BY <1>1, <2>1, IsPart
<1>4. Buf!Held' = SubSeq(Buf!Held, n + 1, Len(Buf!Held))
  <2>1. /\ n + 1 \in 1..Len(Buf!Held) + 1
        /\ Len(Buf!Held) \in (n + 1) - 1..Len(Buf!Held)
        /\ Len(Buf!Held') = (Len(Buf!Held) - (n + 1)) + 1
        /\ \A i \in 1..Len(Buf!Held') : ((n + 1) + i) - 1 = n + i
    BY <1>1, <1>2
  <2>2. PICK a \in 1..Len(Buf!Held) + 1 : a = n + 1
    BY <2>1
  <2>3. /\ Len(Buf!Held) \in a - 1..Len(Buf!Held)
        /\ Len(Buf!Held') = (Len(Buf!Held) - a) + 1
        /\ \A i \in 1..Len(Buf!Held') : Buf!Held'[i] = Buf!Held[(a + i) - 1]
    BY <1>1, <1>2, <2>1, <2>2
  <2>4. Buf!Held' = SubSeq(Buf!Held, a, Len(Buf!Held))
    BY <1>1, <2>3, IsPart
  <2> QED
    BY <2>2, <2>4
<1>5. Buf!Fifo!Fewer(sz, Len(Buf!Held)) = n
  BY <1>1 DEF Buf!Fifo!Fewer, Buf!LesserOf
<1>6. Buf!Fifo!Get(sz)
  BY <1>3, <1>4, <1>5 DEF Buf!Fifo!Get
<1> QED
  BY <1>6 DEF Buf!Fifo!Next

LEMMA RingWriteStep ==
  ASSUME Cap \in Nat \ {0}, BufType, NEW d \in Buf!Data, Buf!RingWrite(d)
  PROVE  BufType' /\ Buf!Fifo!Next
<1> DEFINE n == Buf!LesserOf(Len(d), Cap - buf.lmt)
<1>1. /\ use = "ring" /\ use' = "ring" /\ out' = <<n, <<>>>>
      /\ buf' = Buf!WriteTurn(Buf!WriteTurn([b |-> buf, d |-> d])).b
  BY DEF Buf!RingWrite
<1>2. buf \in RingBuf
  BY <1>1 DEF BufType, RingBuf
<1>3. d \in Seq(Value)
  BY Offered
<1>4. n \in 0..Len(d) /\ buf.lmt + n \in 0..Cap /\ Written(buf, d, buf', n)
  <2> HIDE DEF n
  <2>1. n = Buf!LesserOf(Len(d), Cap - buf.lmt)
    BY DEF n
  <2> QED
    BY <1>1, <1>2, <1>3, <2>1, WriteTwoTurns
<1> HIDE DEF n
<1>5. BufType'
  BY <1>1, <1>4 DEF Written, RingBuf, BufType
<1>6. BufHeld /\ BufHeld'
  BY <1>5, HeldPlaces, HeldPlacesNext
<1>7. /\ Len(Buf!Held) = buf.lmt /\ Len(Buf!Held') = buf.lmt + n
      /\ buf.lmt \in Nat /\ n \in Nat
  BY <1>1, <1>2, <1>4, <1>6 DEF BufHeld, Written, RingBuf
<1>8. ASSUME NEW i \in 1..Len(Buf!Held) PROVE Buf!Held'[i] = Buf!Held[i]
  <2>1. i \in 1..buf.lmt /\ i \in 1..buf'.lmt
    BY <1>4, <1>7 DEF Written
  <2> QED
    BY <1>1, <1>4, <1>6, <2>1 DEF BufHeld, Written
<1>9. ASSUME NEW j \in 1..n PROVE Buf!Held'[Len(Buf!Held) + j] = d[j]
  <2>1. buf.lmt + j \in 1..buf'.lmt
    BY <1>4, <1>7 DEF Written
  <2> QED
    BY <1>1, <1>4, <1>6, <1>7, <2>1 DEF BufHeld, Written
<1>10. Len(Buf!Held) + n <= Cap
  BY <1>4, <1>7
<1> QED
  BY <1>1, <1>4, <1>5, <1>6, <1>7, <1>8, <1>9, <1>10, IsPut

LEMMA RingReadStep ==
  ASSUME Cap \in Nat \ {0}, BufType, NEW sz \in 0..Cap + 1, Buf!RingRead(sz)
  PROVE  BufType' /\ Buf!Fifo!Next
<1> DEFINE n == Buf!LesserOf(sz, buf.lmt)
           r == Buf!ReadTurn(Buf!ReadTurn([b |-> buf, got |-> <<>>, sz |-> n]))
<1>1. /\ use = "ring" /\ use' = "ring" /\ out' = <<n, r.got>> /\ buf' = r.b
  BY DEF Buf!RingRead
<1>2. buf \in RingBuf
  BY <1>1 DEF BufType, RingBuf
<1>3. n \in 0..buf.lmt /\ buf.lmt \in 0..Cap
  BY <1>2 DEF RingBuf, Buf!LesserOf
<1>4. Taken(buf, buf', r.got, n)
  <2> HIDE DEF n
  <2>1. r = Buf!ReadTurn(Buf!ReadTurn([b |-> buf, got |-> <<>>, sz |-> n]))
    BY DEF r
  <2> HIDE DEF r
  <2>2. Taken(buf, r.b, r.got, n)
    BY <1>2, <1>3, <2>1, ReadTwoTurns
  <2> QED
    BY <1>1, <2>2
<1>5. n = Buf!LesserOf(sz, buf.lmt)
  BY DEF n
<1> HIDE DEF n, r
<1>6. BufType'
  BY <1>1, <1>4 DEF Taken, RingBuf, BufType
<1>7. BufHeld /\ BufHeld'
  BY <1>6, HeldPlaces, HeldPlacesNext
<1>8. Len(Buf!Held) = buf.lmt /\ Len(Buf!Held') = buf.lmt - n
  BY <1>1, <1>4, <1>7 DEF BufHeld, Taken
<1>9. ASSUME NEW i \in 1..Len(Buf!Held) - n PROVE Buf!Held'[i] = Buf!Held[n + i]
  <2>1. i \in 1..buf.lmt - n /\ i \in 1..buf'.lmt /\ n + i \in 1..buf.lmt
    BY <1>3, <1>4, <1>8 DEF Taken
  <2> QED
    BY <1>1, <1>4, <1>7, <2>1 DEF BufHeld, Taken
<1>10. ASSUME NEW j \in 1..n PROVE r.got[j] = Buf!Held[j]
  <2>1. j \in 1..buf.lmt
    BY <1>3
  <2> QED
    BY <1>1, <1>4, <1>7, <2>1 DEF BufHeld, Taken
<1>11. n = Buf!LesserOf(sz, Len(Buf!Held)) /\ r.got \in Seq(Value) /\ Len(r.got) = n
  BY <1>4, <1>5, <1>8 DEF Taken
<1>12. Len(Buf!Held') = Len(Buf!Held) - n
  BY <1>8
<1> QED
  BY <1>1, <1>6, <1>7, <1>9, <1>10, <1>11, <1>12, IsGet

\* In line, the bytes are added at pos while it is filled.
LEMMA AddPosStep ==
  ASSUME Cap \in Nat \ {0}, BufType, NEW d \in Buf!Data, Buf!AddPos(d)
  PROVE  BufType' /\ Buf!Fifo!Next
<1> DEFINE n == Buf!LesserOf(Len(d), buf.lmt - buf.pos)
           mem == Buf!Copy(buf.data, buf.pos, SubSeq(d, 1, n))
<1>1. /\ use = "fill" /\ use' = "fill" /\ out' = <<n, <<>>>>
      /\ buf' = [buf EXCEPT !.data = mem, !.pos = buf.pos + n]
  BY DEF Buf!AddPos
<1>2. /\ buf.data \in Memory /\ buf.lmt = Cap /\ buf.pos \in 0..Cap
      /\ d \in Seq(Value) /\ Len(d) \in Nat
  BY <1>1, Offered DEF BufType
<1>3. n \in 0..Len(d) /\ buf.pos \in Nat /\ buf.pos + n <= Cap
  BY <1>2 DEF Buf!LesserOf
<1> HIDE DEF n
<1>4. /\ mem \in Memory
      /\ \A i \in 0..Cap - 1 : (i < buf.pos \/ i >= buf.pos + n) => mem[i] = buf.data[i]
      /\ \A j \in 1..n : mem[buf.pos + (j - 1)] = d[j]
  <2>1. Patched(buf.data, buf.pos, d, n, mem)
    BY <1>2, <1>3, Copied
  <2> QED
    BY <2>1 DEF Patched
<1> HIDE DEF mem
<1>5. buf.pos + n \in 0..Cap
  BY <1>2, <1>3
<1>6. BufType' /\ buf'.data = mem /\ buf'.pos = buf.pos + n
  BY <1>1, <1>2, <1>4, <1>5 DEF BufType
<1>7. BufHeld /\ BufHeld'
  BY <1>6, HeldPlaces, HeldPlacesNext
<1>8. /\ Len(Buf!Held) = buf.pos /\ Len(Buf!Held') = buf.pos + n
      /\ \A i \in 1..buf.pos : Buf!Held[i] = buf.data[i - 1]
      /\ \A i \in 1..buf.pos + n : Buf!Held'[i] = mem[i - 1]
  BY <1>1, <1>6, <1>7 DEF BufHeld
<1>9. ASSUME NEW i \in 1..Len(Buf!Held) PROVE Buf!Held'[i] = Buf!Held[i]
  <2>1. /\ i \in 1..buf.pos /\ i \in 1..buf.pos + n
        /\ i - 1 \in 0..Cap - 1 /\ i - 1 < buf.pos
    BY <1>2, <1>3, <1>8
  <2> QED
    BY <1>4, <1>8, <2>1
<1>10. ASSUME NEW j \in 1..n PROVE Buf!Held'[Len(Buf!Held) + j] = d[j]
  <2>1. buf.pos + j \in 1..buf.pos + n /\ (buf.pos + j) - 1 = buf.pos + (j - 1)
    BY <1>2, <1>3
  <2> QED
    BY <1>4, <1>8, <2>1
<1>11. Len(Buf!Held) + n <= Cap /\ Len(Buf!Held') = Len(Buf!Held) + n
  BY <1>3, <1>8
<1> QED
  BY <1>1, <1>3, <1>6, <1>7, <1>9, <1>10, <1>11, IsPut

\* And at lmt while it drains.
LEMMA AddLmtStep ==
  ASSUME Cap \in Nat \ {0}, BufType, NEW d \in Buf!Data, Buf!AddLmt(d)
  PROVE  BufType' /\ Buf!Fifo!Next
<1> DEFINE n == Buf!LesserOf(Len(d), Cap - buf.lmt)
           mem == Buf!Copy(buf.data, buf.lmt, SubSeq(d, 1, n))
<1>1. /\ use = "drain" /\ use' = "drain" /\ out' = <<n, <<>>>>
      /\ buf' = [buf EXCEPT !.data = mem, !.lmt = buf.lmt + n]
  BY DEF Buf!AddLmt
<1>2. /\ buf.data \in Memory /\ buf.lmt \in 0..Cap /\ buf.pos \in 0..buf.lmt
      /\ d \in Seq(Value) /\ Len(d) \in Nat
  BY <1>1, Offered DEF BufType
<1>3. n \in 0..Len(d) /\ buf.lmt \in Nat /\ buf.lmt + n <= Cap
  BY <1>2 DEF Buf!LesserOf
<1> HIDE DEF n
<1>4. /\ mem \in Memory
      /\ \A i \in 0..Cap - 1 : (i < buf.lmt \/ i >= buf.lmt + n) => mem[i] = buf.data[i]
      /\ \A j \in 1..n : mem[buf.lmt + (j - 1)] = d[j]
  <2>1. Patched(buf.data, buf.lmt, d, n, mem)
    BY <1>2, <1>3, Copied
  <2> QED
    BY <2>1 DEF Patched
<1> HIDE DEF mem
<1>5. buf.lmt + n \in 0..Cap /\ buf.pos <= buf.lmt + n /\ buf.pos \in 0..Cap
  BY <1>2, <1>3
<1>6. BufType' /\ buf'.data = mem /\ buf'.lmt = buf.lmt + n /\ buf'.pos = buf.pos
  BY <1>1, <1>4, <1>5 DEF BufType
<1>7. BufHeld /\ BufHeld'
  BY <1>6, HeldPlaces, HeldPlacesNext
<1>8. /\ Len(Buf!Held) = buf.lmt - buf.pos /\ Len(Buf!Held') = (buf.lmt + n) - buf.pos
      /\ \A i \in 1..buf.lmt - buf.pos : Buf!Held[i] = buf.data[buf.pos + (i - 1)]
      /\ \A i \in 1..(buf.lmt + n) - buf.pos : Buf!Held'[i] = mem[buf.pos + (i - 1)]
  BY <1>1, <1>6, <1>7 DEF BufHeld
<1>9. ASSUME NEW i \in 1..Len(Buf!Held) PROVE Buf!Held'[i] = Buf!Held[i]
  <2>1. /\ i \in 1..buf.lmt - buf.pos /\ i \in 1..(buf.lmt + n) - buf.pos
        /\ buf.pos + (i - 1) \in 0..Cap - 1 /\ buf.pos + (i - 1) < buf.lmt
    <3>1. i \in 1..buf.lmt - buf.pos
      BY <1>8
    <3>2. n \in Nat /\ buf.lmt <= Cap /\ buf.pos \in Nat /\ buf.pos <= buf.lmt
      BY <1>2, <1>3
    <3>3. buf.pos + (i - 1) \in Nat /\ buf.pos + (i - 1) < buf.lmt
      BY <1>3, <3>1, <3>2
    <3>4. i \in 1..(buf.lmt + n) - buf.pos
      BY <1>3, <3>1, <3>2
    <3>5. buf.pos + (i - 1) \in 0..Cap - 1
      BY <1>2, <3>2, <3>3
    <3> QED
      BY <3>1, <3>3, <3>4, <3>5
  <2> QED
    BY <1>4, <1>8, <2>1
<1>10. ASSUME NEW j \in 1..n PROVE Buf!Held'[Len(Buf!Held) + j] = d[j]
  <2>1. /\ (buf.lmt - buf.pos) + j \in 1..(buf.lmt + n) - buf.pos
        /\ buf.pos + (((buf.lmt - buf.pos) + j) - 1) = buf.lmt + (j - 1)
    BY <1>2, <1>3
  <2> QED
    BY <1>4, <1>8, <2>1
<1>11. Len(Buf!Held) + n <= Cap /\ Len(Buf!Held') = Len(Buf!Held) + n
  BY <1>2, <1>3, <1>8
<1> QED
  BY <1>1, <1>3, <1>6, <1>7, <1>9, <1>10, <1>11, IsPut

LEMMA DrainStep ==
  ASSUME Cap \in Nat \ {0}, BufType, NEW sz \in 0..Cap + 1, Buf!Drain(sz)
  PROVE  BufType' /\ Buf!Fifo!Next
<1> DEFINE n == Buf!LesserOf(sz, buf.lmt - buf.pos)
           got == Buf!From(buf, buf.pos, n)
<1>1. /\ use = "drain" /\ use' = "drain" /\ out' = <<n, got>>
      /\ buf' = [buf EXCEPT !.pos = buf.pos + n]
      /\ n = Buf!LesserOf(sz, buf.lmt - buf.pos)
  BY DEF Buf!Drain
<1>2. buf.data \in Memory /\ buf.lmt \in 0..Cap /\ buf.pos \in 0..buf.lmt
  BY <1>1 DEF BufType
<1>3. n \in 0..buf.lmt - buf.pos
  BY <1>2 DEF Buf!LesserOf
<1> HIDE DEF n
<1>4. /\ n \in Nat /\ buf.pos \in Nat /\ buf.pos + n <= Cap
      /\ buf.pos + n \in 0..Cap /\ buf.pos + n <= buf.lmt
  BY <1>2, <1>3
<1>5. /\ got \in Seq(Value) /\ Len(got) = n
      /\ \A i \in 1..n : got[i] = buf.data[buf.pos + (i - 1)]
  <2>1. TakenOut(buf.data, buf.pos, n, got)
    BY <1>2, <1>4, FromMemory
  <2> QED
    BY <2>1 DEF TakenOut
<1> HIDE DEF got
<1>6. /\ BufType' /\ buf'.data = buf.data /\ buf'.pos = buf.pos + n
      /\ buf'.lmt = buf.lmt
  BY <1>1, <1>2, <1>4 DEF BufType
<1>7. BufHeld /\ BufHeld'
  BY <1>6, HeldPlaces, HeldPlacesNext
<1>8. /\ Len(Buf!Held) = buf.lmt - buf.pos /\ Len(Buf!Held') = buf.lmt - (buf.pos + n)
      /\ \A i \in 1..buf.lmt - buf.pos : Buf!Held[i] = buf.data[buf.pos + (i - 1)]
      /\ \A i \in 1..buf.lmt - (buf.pos + n) :
           Buf!Held'[i] = buf.data[(buf.pos + n) + (i - 1)]
  BY <1>1, <1>6, <1>7 DEF BufHeld
<1>9. ASSUME NEW i \in 1..Len(Buf!Held) - n PROVE Buf!Held'[i] = Buf!Held[n + i]
  <2>1. /\ i \in 1..buf.lmt - (buf.pos + n) /\ n + i \in 1..buf.lmt - buf.pos
        /\ buf.pos + ((n + i) - 1) = (buf.pos + n) + (i - 1)
    <3>1. /\ buf.pos \in Nat /\ buf.lmt \in Nat /\ n \in Nat /\ i \in Nat \ {0}
          /\ i <= (buf.lmt - buf.pos) - n
      BY <1>2, <1>3, <1>8
    <3> QED
      BY <3>1
  <2> QED
    BY <1>8, <2>1
<1>10. ASSUME NEW j \in 1..n PROVE got[j] = Buf!Held[j]
  <2>1. j \in 1..buf.lmt - buf.pos
    BY <1>2, <1>3
  <2> QED
    BY <1>5, <1>8, <2>1
<1>11. Len(Buf!Held') = Len(Buf!Held) - n /\ n = Buf!LesserOf(sz, Len(Buf!Held))
  BY <1>1, <1>2, <1>4, <1>8
<1> QED
  BY <1>1, <1>5, <1>6, <1>7, <1>9, <1>10, <1>11, IsGet

\* Turning the buffer round and moving what it holds are not seen.
LEMMA QuietStep ==
  ASSUME Cap \in Nat \ {0}, BufType, Buf!Flip \/ Buf!Rewind
  PROVE  BufType' /\ Buf!Fifo!Next
<1>1. /\ buf.data \in Memory /\ buf.lmt \in 0..Cap /\ buf.pos \in 0..Cap
      /\ out' = Buf!Fifo!Nothing
  BY DEF BufType, Buf!Flip, Buf!Rewind, Buf!Nothing, Buf!Fifo!Nothing
<1>2. SUFFICES BufType' /\ Buf!Held' = Buf!Held
  BY <1>1 DEF Buf!Fifo!Next, Buf!Fifo!Quiet
<1>3. BufHeld /\ (BufType' => BufHeld')
  BY HeldPlaces, HeldPlacesNext
<1>4. CASE Buf!Flip
  <2>1. /\ use = "fill" /\ use' = "drain" /\ 0 \in 0..Cap
        /\ buf' = [buf EXCEPT !.lmt = buf.pos, !.pos = 0]
    BY <1>4 DEF Buf!Flip
  <2>2. BufType' /\ buf'.data = buf.data /\ buf'.pos = 0 /\ buf'.lmt = buf.pos
    <3>1. buf \in [data : Memory, lmt : 0..Cap, pos : 0..Cap]
      BY DEF BufType
    <3>2. /\ buf' \in [data : Memory, lmt : 0..Cap, pos : 0..Cap]
          /\ buf'.data = buf.data /\ buf'.pos = 0 /\ buf'.lmt = buf.pos
      BY <1>1, <2>1, <3>1
    <3> QED
      BY <1>1, <2>1, <3>2 DEF BufType
  <2>3. /\ Len(Buf!Held) = buf.pos /\ Len(Buf!Held') = buf.pos - 0
        /\ Buf!Held \in Seq(Value) /\ Buf!Held' \in Seq(Value)
        /\ \A i \in 1..buf.pos : Buf!Held[i] = buf.data[i - 1]
        /\ \A i \in 1..buf.pos - 0 : Buf!Held'[i] = buf.data[0 + (i - 1)]
    BY <1>3, <2>1, <2>2 DEF BufHeld
  <2>4. ASSUME NEW i \in 1..Len(Buf!Held) PROVE Buf!Held[i] = Buf!Held'[i]
    <3>1. i \in 1..buf.pos /\ i \in 1..buf.pos - 0 /\ 0 + (i - 1) = i - 1
      BY <1>1, <2>3
    <3> QED
      BY <2>3, <3>1
  <2>5. Len(Buf!Held) = Len(Buf!Held')
    BY <1>1, <2>3
  <2> QED
    BY <2>2, <2>3, <2>4, <2>5, SeqEqual
<1>5. CASE Buf!Rewind
  <2>1. use = "drain" /\ use' = "drain" /\ buf' = Buf!Rewound
        /\ buf.pos \in 0..buf.lmt
    BY <1>1, <1>5 DEF Buf!Rewind, BufType
  <2>2. CASE buf.pos = 0
    BY <2>1, <2>2 DEF Buf!Rewound, BufType, Buf!Held
  <2>3. CASE buf.pos # 0
    <3>1. PICK n \in 0..Cap : n = buf.lmt - buf.pos /\ buf.pos + n = buf.lmt
      BY <1>1, <2>1
    <3> DEFINE rest == Buf!From(buf, buf.pos, n)
               mem == Buf!Copy(buf.data, 0, SubSeq(rest, 1, n))
    <3>2. /\ rest \in Seq(Value) /\ Len(rest) = n
          /\ \A i \in 1..n : rest[i] = buf.data[buf.pos + (i - 1)]
      <4>1. n \in Nat /\ buf.pos \in Nat /\ buf.pos + n <= Cap
        BY <1>1, <3>1
      <4> QED
        BY <1>1, <4>1, FromMemory DEF TakenOut
    <3>3. buf' = [data |-> mem, lmt |-> n, pos |-> 0]
      <4>1. buf' = [data |-> Buf!Copy(buf.data, 0, rest), lmt |-> n, pos |-> 0]
        BY <2>1, <2>3, <3>1 DEF Buf!Rewound
      <4> HIDE DEF rest
      <4>2. SubSeq(rest, 1, n) = rest
        BY <3>2, SubSeqFull
      <4> QED
        BY <4>1, <4>2
    <3> HIDE DEF rest
    <3>4. mem \in Memory /\ \A j \in 1..n : mem[0 + (j - 1)] = rest[j]
      <4>1. 0 \in Nat /\ n \in 0..Len(rest) /\ 0 + n <= Cap
        BY <3>1, <3>2
      <4> QED
        BY <1>1, <3>2, <4>1, Copied DEF Patched
    <3> HIDE DEF mem
    <3>5. BufType' /\ buf'.data = mem /\ buf'.lmt = n /\ buf'.pos = 0
      BY <2>1, <3>1, <3>3, <3>4 DEF BufType
    <3>6. /\ Len(Buf!Held) = n /\ Len(Buf!Held') = n - 0
          /\ Buf!Held \in Seq(Value) /\ Buf!Held' \in Seq(Value)
          /\ \A i \in 1..n : Buf!Held[i] = buf.data[buf.pos + (i - 1)]
          /\ \A i \in 1..n - 0 : Buf!Held'[i] = mem[0 + (i - 1)]
      BY <1>3, <2>1, <3>1, <3>5 DEF BufHeld
    <3>7. Len(Buf!Held) = Len(Buf!Held') /\ n - 0 = n
      BY <3>1, <3>6
    <3>8. ASSUME NEW i \in 1..Len(Buf!Held) PROVE Buf!Held[i] = Buf!Held'[i]
      BY <3>2, <3>4, <3>6, <3>7
    <3> QED
      BY <3>5, <3>6, <3>7, <3>8, SeqEqual
  <2> QED
    BY <2>2, <2>3
<1> QED
  BY <1>4, <1>5

\* A clear drops what is held.
LEMMA Cleared ==
  ASSUME Cap \in Nat \ {0},
         NEW b \in [data : Memory, lmt : 0..Cap, pos : 0..Cap]
  PROVE  /\ Buf!Clear(b) \in [data : Memory, lmt : 0..Cap, pos : 0..Cap]
         /\ Buf!Clear(b).lmt = Cap /\ Buf!Clear(b).pos = 0
<1>1. Cap \in 0..Cap /\ 0 \in 0..Cap
  OBVIOUS
<1>2. Buf!Clear(b) = [b EXCEPT !.lmt = Cap, !.pos = 0]
  BY DEF Buf!Clear
<1> QED
  BY <1>1, <1>2

LEMMA ClearStep ==
  ASSUME Cap \in Nat \ {0}, BufType, Buf!ClearAll
  PROVE  BufType' /\ Buf!Fifo!Next
<1>1. use' = "fill" /\ out' = Buf!Fifo!Nothing /\ buf' = Buf!Clear(buf)
  BY DEF Buf!ClearAll, Buf!Nothing, Buf!Fifo!Nothing
<1>2. BufType' /\ buf'.pos = 0
  <2>1. buf \in [data : Memory, lmt : 0..Cap, pos : 0..Cap]
    BY DEF BufType
  <2>2. /\ buf' \in [data : Memory, lmt : 0..Cap, pos : 0..Cap]
        /\ buf'.lmt = Cap /\ buf'.pos = 0
    BY <1>1, <2>1, Cleared
  <2> QED
    BY <1>1, <2>2 DEF BufType
<1>3. BufHeld'
  BY <1>2, HeldPlacesNext
<1>4. Buf!Held' \in Seq(Value) /\ Len(Buf!Held') = 0
  BY <1>1, <1>2, <1>3 DEF BufHeld
<1>5. Buf!Held' = <<>>
  BY <1>4, EmptySeq
<1> QED
  BY <1>1, <1>2, <1>5 DEF Buf!Fifo!Next, Buf!Fifo!Drop

\* Through a ring that wraps, and in line through flips and rewinds, bytes come
\* out as they went in and every amount told is true, for a buffer of any size.
THEOREM BufferImplementsFifo ==
  Buf!Init /\ [][Buf!Next]_Buf!vars => BufferIsFifo
<1>0. Cap \in Nat \ {0}
  BY BufferAssumption DEF BufferHolds
<1>1. Buf!Init => BufType /\ Buf!Fifo!Init
  <2> SUFFICES ASSUME Buf!Init PROVE BufType /\ Buf!Fifo!Init
    OBVIOUS
  <2>1. /\ use \in {"ring", "fill"} /\ buf.pos = 0
        /\ buf.lmt = (IF use = "ring" THEN 0 ELSE Cap)
        /\ buf \in [data : Memory, lmt : 0..Cap, pos : 0..Cap]
    <3>1. Buf!Empty \in [data : Memory, lmt : 0..Cap, pos : 0..Cap]
          /\ Buf!Empty.lmt = 0 /\ Buf!Empty.pos = 0
      BY <1>0 DEF Buf!Empty, Memory, Value
    <3> QED
      BY <1>0, <3>1, Cleared DEF Buf!Init
  <2>2. BufType
    BY <1>0, <2>1 DEF BufType
  <2>3. BufHeld
    BY <1>0, <2>2, HeldPlaces
  <2>4. Buf!Held \in Seq(Value) /\ Len(Buf!Held) = 0
    BY <2>1, <2>3 DEF BufHeld
  <2>5. Buf!Held = <<>>
    BY <2>4, EmptySeq
  <2> QED
    BY <2>2, <2>5 DEF Buf!Init, Buf!Fifo!Init, Buf!Nothing, Buf!Fifo!Nothing
<1>2. BufType /\ [Buf!Next]_Buf!vars => BufType' /\ [Buf!Fifo!Next]_Buf!Fifo!vars
  <2> SUFFICES ASSUME BufType, [Buf!Next]_Buf!vars
               PROVE  BufType' /\ [Buf!Fifo!Next]_Buf!Fifo!vars
    OBVIOUS
  <2>1. CASE UNCHANGED Buf!vars
    BY <2>1 DEF Buf!vars, BufType, Buf!Fifo!vars, Buf!Held
  <2>2. CASE \E d \in Buf!Data : Buf!RingWrite(d) \/ Buf!AddPos(d) \/ Buf!AddLmt(d)
    BY <1>0, <2>2, RingWriteStep, AddPosStep, AddLmtStep
  <2>3. CASE \E n \in 0..Cap + 1 : Buf!RingRead(n) \/ Buf!Drain(n)
    BY <1>0, <2>3, RingReadStep, DrainStep
  <2>4. CASE Buf!Flip \/ Buf!Rewind
    BY <1>0, <2>4, QuietStep
  <2>5. CASE Buf!ClearAll
    BY <1>0, <2>5, ClearStep
  <2> QED
    BY <2>1, <2>2, <2>3, <2>4, <2>5 DEF Buf!Next
<1> QED
  BY <1>1, <1>2, PTL DEF BufferIsFifo, Buf!BufferIsFifo, Buf!Fifo!Spec

-----------------------------------------------------------------------------
(* The LED.                                                                *)

LEMMA Quotient ==
  ASSUME NEW m \in Nat \ {0}, NEW n \in Int
  PROVE  /\ n \div m \in Int
         /\ m * (n \div m) \in Int
         /\ m * (n \div m) <= n /\ n < (m * (n \div m)) + m
<1>1. n \div m \in Int /\ n % m \in 0..m - 1 /\ n = (m * (n \div m)) + (n % m)
  OBVIOUS
<1>2. m * (n \div m) \in Int
  BY <1>1
<1> QED
  BY <1>1, <1>2

LEMMA QuotientIs ==
  ASSUME NEW m \in Nat \ {0}, NEW n \in Int, NEW q \in Int,
         m * q <= n, n < (m * q) + m
  PROVE  n \div m = q
<1>1. PICK p \in Int : p = n \div m /\ m * p <= n /\ n < (m * p) + m
  BY Quotient
<1>2. m * p \in Int /\ m * q \in Int
  OBVIOUS
<1>3. ~(p < q)
  <2> SUFFICES ASSUME p + 1 <= q PROVE FALSE
    OBVIOUS
  <2>1. m * (p + 1) <= m * q
    OBVIOUS
  <2>2. m * (p + 1) = (m * p) + m
    OBVIOUS
  <2> QED
    BY <1>1, <1>2, <2>1, <2>2
<1>4. ~(q < p)
  <2> SUFFICES ASSUME q + 1 <= p PROVE FALSE
    OBVIOUS
  <2>1. m * (q + 1) <= m * p
    OBVIOUS
  <2>2. m * (q + 1) = (m * q) + m
    OBVIOUS
  <2> QED
    BY <1>1, <1>2, <2>1, <2>2
<1> QED
  BY <1>1, <1>3, <1>4

\* Adding y moves the quotient by that of y, or by one more.
LEMMA QuotientMoves ==
  ASSUME NEW m \in Nat \ {0}, NEW x \in Int, NEW y \in Int
  PROVE  (x + y) \div m \in {(x \div m) + (y \div m), (x \div m) + (y \div m) + 1}
<1>1. PICK p \in Int : p = x \div m /\ m * p <= x /\ x < (m * p) + m
  BY Quotient
<1>2. PICK q \in Int : q = y \div m /\ m * q <= y /\ y < (m * q) + m
  BY Quotient
<1>3. PICK a \in Int, b \in Int : a = m * p /\ b = m * q
  OBVIOUS
<1>4. m * (p + q) = a + b /\ m * (p + q + 1) = a + b + m
  BY <1>3
<1>5. x + y \in Int /\ p + q \in Int /\ p + q + 1 \in Int
  OBVIOUS
<1>6. CASE x + y < a + b + m
  <2>1. m * (p + q) <= x + y /\ x + y < (m * (p + q)) + m
    BY <1>1, <1>2, <1>3, <1>4, <1>6
  <2>2. (x + y) \div m = p + q
    BY <1>5, <2>1, QuotientIs
  <2> QED
    BY <1>1, <1>2, <2>2
<1>7. CASE x + y >= a + b + m
  <2>1. m * (p + q + 1) <= x + y /\ x + y < (m * (p + q + 1)) + m
    BY <1>1, <1>2, <1>3, <1>4, <1>7
  <2>2. (x + y) \div m = p + q + 1
    BY <1>5, <2>1, QuotientIs
  <2> QED
    BY <1>1, <1>2, <2>2
<1> QED
  BY <1>3, <1>6, <1>7

\* The register's value is one rounded quotient, at both ends too.
LEMMA LevelIs ==
  ASSUME LedAsBuilt, NEW d \in 0..Halves
  PROVE  Led!Level(d) = (2 * d * DutyMax + Halves) \div (2 * Halves)
<1>1. Halves \in Nat \ {0} /\ DutyMax \in Nat /\ 2 * Halves \in Nat \ {0}
  BY DEF LedAsBuilt
<1>2. CASE d = 0
  <2>1. 2 * d * DutyMax + Halves = Halves /\ (2 * Halves) * 0 = 0
    BY <1>1, <1>2
  <2>2. Halves \in Int /\ (2 * Halves) * 0 <= Halves /\ Halves < ((2 * Halves) * 0) + 2 * Halves
    BY <1>1, <2>1
  <2>3. Halves \div (2 * Halves) = 0
    BY <1>1, <2>2, QuotientIs
  <2> QED
    BY <1>2, <2>1, <2>3 DEF Led!Level
<1>3. CASE d = Halves
  <2>1. PICK n \in Nat : n = Halves * DutyMax
    BY <1>1
  <2>2. 2 * d * DutyMax + Halves = 2 * n + Halves /\ (2 * Halves) * DutyMax = 2 * n
    BY <1>1, <1>3, <2>1
  <2>3. 2 * n + Halves \in Int /\ (2 * Halves) * DutyMax <= 2 * n + Halves
        /\ 2 * n + Halves < ((2 * Halves) * DutyMax) + 2 * Halves
    BY <1>1, <2>2
  <2>4. (2 * n + Halves) \div (2 * Halves) = DutyMax
    BY <1>1, <2>3, QuotientIs
  <2> QED
    BY <1>1, <1>3, <2>2, <2>4 DEF Led!Level
<1>4. CASE d # 0 /\ d # Halves
  <2>1. ~(d <= 0) /\ ~(d >= Halves)
    BY <1>1, <1>4
  <2> QED
    BY <2>1 DEF Led!Level
<1> QED
  BY <1>2, <1>3, <1>4

\* A step up of the duty moves the register up by a step's worth at most.
LEMMA LevelMoves ==
  ASSUME LedAsBuilt, NEW d \in 0..Halves - 1
  PROVE  /\ Led!Level(d) \in Int /\ Led!Level(d + 1) \in Int
         /\ Led!Level(d + 1) - Led!Level(d) \in 0..(DutyMax \div Halves) + 1
<1>1. /\ Halves \in Nat \ {0} /\ DutyMax \in Nat /\ 2 * Halves \in Nat \ {0}
      /\ d \in 0..Halves /\ d + 1 \in 0..Halves
  BY DEF LedAsBuilt
<1>2. PICK x \in Int : x = 2 * d * DutyMax + Halves
  BY <1>1
<1>3. 2 * (d + 1) * DutyMax + Halves = x + 2 * DutyMax
  BY <1>1, <1>2
<1>4. PICK q \in Int : q = DutyMax \div Halves /\ Halves * q <= DutyMax
                       /\ DutyMax < (Halves * q) + Halves
  BY <1>1, Quotient
<1>5. (2 * DutyMax) \div (2 * Halves) = q
  <2>1. PICK n \in Int : n = Halves * q
    BY <1>1
  <2>2. (2 * Halves) * q = 2 * n
    BY <1>1, <2>1
  <2>3. 2 * DutyMax \in Int /\ (2 * Halves) * q <= 2 * DutyMax
        /\ 2 * DutyMax < ((2 * Halves) * q) + 2 * Halves
    BY <1>1, <1>4, <2>1, <2>2
  <2> QED
    BY <1>1, <2>3, QuotientIs
<1>6. q >= 0
  <2> SUFFICES ASSUME q <= -1 PROVE FALSE
    OBVIOUS
  <2>1. Halves * q <= Halves * (-1) /\ Halves * q \in Int
    BY <1>1
  <2> QED
    BY <1>1, <1>4, <2>1
<1>7. PICK p \in Int : p = x \div (2 * Halves)
  BY <1>1, Quotient
<1>8. (x + 2 * DutyMax) \div (2 * Halves) \in {p + q, p + q + 1}
  <2>1. 2 * DutyMax \in Int
    BY <1>1
  <2> QED
    BY <1>1, <1>5, <1>7, <2>1, QuotientMoves
<1>9. Led!Level(d) = p /\ Led!Level(d + 1) \in {p + q, p + q + 1}
  BY <1>1, <1>2, <1>3, <1>7, <1>8, LevelIs
<1> QED
  BY <1>4, <1>6, <1>9

\* Where in its period the LED is gives the duty and the way it goes.
LedWay ==
  /\ calls \in 0..2 * Halves - 1
  /\ duty = (IF calls <= Halves THEN calls ELSE 2 * Halves - calls)
  /\ calls = 0 => step \in {0, 1}
  /\ calls > 0 /\ calls < Halves => step = 1
  /\ calls >= Halves => step = -1
  /\ level = Led!Level(duty)

LEMMA LedStep ==
  ASSUME LedAsBuilt, LedWay, Led!Pulse(1)
  PROVE  LedWay' /\ Led!Size(level' - level) <= (DutyMax \div Halves) + 1
<1>1. Halves \in Nat \ {0} /\ DutyMax \in Nat /\ calls \in 0..2 * Halves - 1
  BY DEF LedAsBuilt, LedWay
<1>2. calls' = (IF calls = 2 * Halves - 1 THEN 0 ELSE calls + 1)
  <2>1. calls' = (calls + 1) % (2 * Halves) /\ 2 * Halves \in Nat \ {0}
    BY <1>1 DEF Led!Pulse
  <2>2. CASE calls = 2 * Halves - 1
    <3>1. calls + 1 = 2 * Halves
      BY <1>1, <2>2
    <3>2. ((2 * Halves) * 1) + 0 = 2 * Halves /\ 0 \in 0..(2 * Halves) - 1
      BY <1>1
    <3>3. (((2 * Halves) * 1) + 0) % (2 * Halves) = 0
      BY <2>1, <3>2, RemainderIs
    <3> QED
      BY <2>1, <2>2, <3>1, <3>2, <3>3
  <2>3. CASE calls # 2 * Halves - 1
    <3>1. calls + 1 \in 0..(2 * Halves) - 1
      BY <1>1, <2>3
    <3> QED
      BY <2>1, <2>3, <3>1, RemainderSmall
  <2> QED
    BY <2>2, <2>3
<1>3. /\ duty' = (IF calls < Halves THEN duty + 1 ELSE duty - 1)
      /\ step' = (IF duty' = Halves THEN -1 ELSE IF duty' = 0 THEN 1
                  ELSE IF calls < Halves THEN 1 ELSE -1)
      /\ level' = Led!Level(duty')
  <2> DEFINE s == IF calls < Halves THEN 1 ELSE -1
  <2>1. Led!StepFor(Led!Asked(1)) = s
    BY <1>1 DEF LedWay, Led!StepFor, Led!Asked, Led!Size
  <2>2. duty + s \in 0..Halves /\ s \in {1, -1}
    BY <1>1 DEF LedWay
  <2>3. /\ duty' = (IF duty + s <= 0 THEN 0 ELSE IF duty + s >= Halves THEN Halves ELSE duty + s)
        /\ step' = Led!Turned(duty + s, s) /\ level' = Led!Level(duty')
    BY <2>1 DEF Led!Pulse
  <2>4. duty' = duty + s
    BY <1>1, <2>2, <2>3
  <2>5. step' = (IF duty' = Halves THEN -1 ELSE IF duty' = 0 THEN 1 ELSE s)
    <3> HIDE DEF s
    <3>1. Led!Size(s) = 1 /\ -1 \in Int /\ (s = 1 \/ s = -1)
      BY <2>2 DEF Led!Size
    <3>2. step' = IF duty + s <= 0 THEN 1 ELSE IF duty + s >= Halves THEN -1 ELSE s
      BY <2>3, <3>1 DEF Led!Turned
    <3> QED
      BY <1>1, <2>2, <2>4, <3>2
  <2> QED
    BY <2>3, <2>4, <2>5 DEF LedWay
<1>4. LedWay'
  BY <1>1, <1>2, <1>3 DEF LedWay
<1>5. CASE calls < Halves
  <2>1. duty \in 0..Halves - 1 /\ duty' = duty + 1
    BY <1>1, <1>3, <1>5 DEF LedWay
  <2>2. level' - level \in 0..(DutyMax \div Halves) + 1
    BY <1>3, <2>1, LevelMoves DEF LedWay
  <2> QED
    BY <1>4, <2>2 DEF Led!Size
<1>6. CASE calls >= Halves
  <2>1. duty' \in 0..Halves - 1 /\ duty = duty' + 1
    BY <1>1, <1>3, <1>6 DEF LedWay
  <2>2. level - level' \in 0..(DutyMax \div Halves) + 1 /\ level \in Int /\ level' \in Int
    BY <1>3, <2>1, LevelMoves DEF LedWay
  <2> QED
    <3>0. PICK a \in Int, b \in Int : a = level /\ b = level'
      BY <2>2
    <3>1. PICK x \in Int : x = level - level' /\ level' - level = -x
      <4>1. a - b \in Int /\ b - a = -(a - b)
        OBVIOUS
      <4> QED
        BY <3>0, <4>1
    <3>2. x \in 0..(DutyMax \div Halves) + 1
      BY <2>2, <3>1
    <3>3. Led!Size(-x) = x
      BY <3>2 DEF Led!Size
    <3>4. x <= (DutyMax \div Halves) + 1
      BY <3>2
    <3> QED
      BY <1>4, <3>1, <3>3, <3>4
<1> QED
  BY <1>1, <1>4, <1>5, <1>6

\* The LED goes from dark to full and back in 2 * Halves calls, and the register
\* never moves by more than a step's worth: for any resolution of either.
THEOREM LedBreathes ==
  Led!Init /\ [][Led!Next]_Led!lvars => Breathes
<1>0. LedAsBuilt
  BY LedAssumption
<1>1. Led!Init => LedWay
  <2>1. 0 \in 0..2 * Halves - 1 /\ 0 <= Halves /\ ~(0 >= Halves)
    BY <1>0 DEF LedAsBuilt
  <2> QED
    BY <2>1 DEF Led!Init, LedWay, Led!Level
<1>2. LedWay /\ [Led!Next]_Led!lvars =>
        LedWay' /\ [Led!Size(level' - level) <= DutyMax \div Halves + 1]_Led!lvars
  <2> SUFFICES ASSUME LedWay, [Led!Next]_Led!lvars
               PROVE  LedWay' /\ [Led!Size(level' - level) <= DutyMax \div Halves + 1]_Led!lvars
    OBVIOUS
  <2>1. CASE Led!Next
    BY <1>0, <2>1, LedStep DEF Led!Next, LedAsBuilt
  <2>2. CASE UNCHANGED Led!lvars
    BY <2>2 DEF Led!lvars, LedWay
  <2> QED
    BY <2>1, <2>2
<1>3. LedWay => duty = IF calls <= Halves THEN calls ELSE 2 * Halves - calls
  BY DEF LedWay
<1> QED
  BY <1>1, <1>2, <1>3, PTL DEF Breathes, Led!Breathes

-----------------------------------------------------------------------------
(* Log lines.                                                              *)

LEMMA Repeated ==
  ASSUME NEW S, NEW c \in S, NEW n \in Nat
  PROVE  Text!Rep(c, n) \in Seq(S) /\ Len(Text!Rep(c, n)) = n
<1>1. Text!Rep(c, n) \in [1..n -> S]
  BY DEF Text!Rep
<1> QED
  BY <1>1, SeqDef, LenProperties

\* The start of the start of a sequence.
LEMMA StartOfStart ==
  ASSUME NEW S, NEW s \in Seq(S), NEW n \in 0..Len(s), NEW k \in 0..n
  PROVE  SubSeq(SubSeq(s, 1, n), 1, k) = SubSeq(s, 1, k)
<1>1. Len(s) \in Nat /\ \A i \in 1..n : s[i] \in S
  BY ElementOfSeq, LenProperties
<1>2. /\ SubSeq(s, 1, n) \in Seq(S)
      /\ Len(SubSeq(s, 1, n)) = IF 1 <= n THEN n - 1 + 1 ELSE 0
      /\ \A i \in 1..n - 1 + 1 : SubSeq(s, 1, n)[i] = s[1 + i - 1]
  BY <1>1, SubSeqProperties
<1>3. \A i \in 1..k : SubSeq(s, 1, n)[i] = s[i] /\ s[i] \in S /\ (1 + i) - 1 = i
  BY <1>1, <1>2
<1>4. /\ SubSeq(s, 1, k) \in Seq(S)
      /\ Len(SubSeq(s, 1, k)) = IF 1 <= k THEN k - 1 + 1 ELSE 0
      /\ \A i \in 1..k - 1 + 1 : SubSeq(s, 1, k)[i] = s[1 + i - 1]
  BY <1>1, <1>3, SubSeqProperties
<1>5. /\ Len(SubSeq(s, 1, n)) = n /\ Len(SubSeq(s, 1, k)) = k
      /\ \A i \in 1..k : SubSeq(s, 1, k)[i] = s[i]
  BY <1>1, <1>2, <1>4
<1>6. /\ 1 \in 1..Len(SubSeq(s, 1, n)) + 1 /\ k \in 1 - 1..Len(SubSeq(s, 1, n))
      /\ Len(SubSeq(s, 1, k)) = (k - 1) + 1
      /\ \A i \in 1..Len(SubSeq(s, 1, k)) :
           SubSeq(s, 1, k)[i] = SubSeq(s, 1, n)[(1 + i) - 1]
  BY <1>1, <1>3, <1>5
<1>7. PICK h \in Seq(S) : h = SubSeq(s, 1, n)
  BY <1>2
<1>8. SubSeq(s, 1, k) = SubSeq(h, 1, k)
  BY <1>4, <1>6, <1>7, IsPart
<1> QED
  BY <1>7, <1>8

\* What is right for a line that has all characters, whole.
RightFor(size, all, whole, r) ==
  IF all < size THEN r = [text |-> whole, ret |-> all]
  ELSE IF size <= AbbrLen THEN r.ret = 0
  ELSE /\ r.ret = size - 1 /\ Len(r.text) = r.ret
       /\ r.text = SubSeq(whole, 1, r.ret - AbbrLen) \o Text!Rep("a", AbbrLen)

All(line) == line[1] + IF line[2] > 0 THEN line[2] ELSE 0
Whole(line) == Text!Rep("p", line[1]) \o Text!Rep("m", All(line) - line[1])

LEMMA LoggedRight ==
  ASSUME LineLengths, NEW size \in Sizes, NEW line \in Lines
  PROVE  RightFor(size, All(line), Whole(line), Text!Logged(size, line))
<1>1. PICK a \in Nat, b \in Nat :
        a = line[1] /\ b = (IF line[2] > 0 THEN line[2] ELSE 0)
  BY DEF LineLengths
<1>2. AbbrLen \in Nat /\ size \in Nat
  BY DEF LineLengths
<1> DEFINE S == {"p", "m", "a"}
           whole == Text!Rep("p", a) \o Text!Rep("m", b)
           text == SubSeq(whole, 1, Text!SmallerOf(a + b, size - 1))
           sz == a + IF a < size THEN b ELSE 0
           r == IF sz >= size THEN Text!Abbreviated(size, text)
                ELSE [text |-> text, ret |-> sz]
<1>3. whole \in Seq(S) /\ Len(whole) = a + b
  <2>1. /\ Text!Rep("p", a) \in Seq(S) /\ Len(Text!Rep("p", a)) = a
        /\ Text!Rep("m", b) \in Seq(S) /\ Len(Text!Rep("m", b)) = b
    BY Repeated
  <2> QED
    BY <2>1, ConcatProperties
<1>4. Text!Logged(size, line) = r
  <2>1. line[1] + (IF line[1] < size /\ line[2] > 0 THEN line[2] ELSE 0) = sz
    BY <1>1, <1>2
  <2>2. Text!Printed(size, line) = text
    BY <1>1, <1>3 DEF Text!Printed
  <2> HIDE DEF text, sz
  <2> QED
    BY <2>1, <2>2 DEF Text!Logged
<1>5. All(line) = a + b /\ Whole(line) = whole
  <2>1. All(line) = a + b /\ (a + b) - a = b
    BY <1>1 DEF All
  <2> QED
    BY <1>1, <2>1 DEF Whole
<1> SUFFICES RightFor(size, a + b, whole, r)
  BY <1>4, <1>5
<1> HIDE DEF whole, S
<1>6. CASE a + b < size
  <2>1. sz = a + b /\ ~(sz >= size) /\ Text!SmallerOf(a + b, size - 1) = a + b
    BY <1>1, <1>2, <1>6 DEF Text!SmallerOf
  <2>2. text = whole
    BY <1>3, <2>1, SubSeqFull
  <2>3. r = [text |-> whole, ret |-> a + b]
    BY <2>1, <2>2
  <2> QED
    BY <1>6, <2>3 DEF RightFor
<1>7. CASE a + b >= size
  <2>1. sz >= size /\ Text!SmallerOf(a + b, size - 1) = size - 1
    BY <1>1, <1>2, <1>7 DEF Text!SmallerOf
  <2>2. r = Text!Abbreviated(size, SubSeq(whole, 1, size - 1))
    BY <2>1
  <2> HIDE DEF r
  <2>3. CASE size <= AbbrLen
    <3>1. r.ret = 0
      BY <1>2, <2>2, <2>3 DEF Text!Abbreviated
    <3> QED
      BY <1>1, <1>2, <1>7, <2>3, <3>1 DEF RightFor
  <2>4. CASE size > AbbrLen
    <3>1. size - 1 \in 0..Len(whole) /\ (size - 1) - AbbrLen \in 0..size - 1
          /\ size - 1 - AbbrLen = (size - 1) - AbbrLen
      BY <1>1, <1>2, <1>3, <1>7, <2>4
    <3>2. SubSeq(SubSeq(whole, 1, size - 1), 1, (size - 1) - AbbrLen)
            = SubSeq(whole, 1, (size - 1) - AbbrLen)
      BY <1>3, <3>1, StartOfStart
    <3>3. /\ r.ret = size - 1
          /\ r.text = SubSeq(whole, 1, (size - 1) - AbbrLen) \o Text!Rep("a", AbbrLen)
      BY <1>2, <2>2, <2>4, <3>1, <3>2 DEF Text!Abbreviated
    <3>4. Len(r.text) = size - 1
      <4>1. /\ Text!Rep("a", AbbrLen) \in Seq(S)
            /\ Len(Text!Rep("a", AbbrLen)) = AbbrLen
        BY <1>2, Repeated DEF S
      <4>2. PICK k \in 0..Len(whole) : k = (size - 1) - AbbrLen
        BY <1>2, <3>1
      <4>3. SubSeq(whole, 1, k) \in Seq(S) /\ Len(SubSeq(whole, 1, k)) = k
        <5>1. Len(whole) \in Nat /\ \A i \in 1..k : whole[i] \in S
          BY <1>3, <4>2, ElementOfSeq, LenProperties
        <5>2. /\ SubSeq(whole, 1, k) \in Seq(S)
              /\ Len(SubSeq(whole, 1, k)) = IF 1 <= k THEN k - 1 + 1 ELSE 0
          BY <5>1, SubSeqProperties
        <5> QED
          BY <5>1, <5>2
      <4>4. Len(SubSeq(whole, 1, k) \o Text!Rep("a", AbbrLen)) = k + AbbrLen
        BY <4>1, <4>3, ConcatProperties
      <4> QED
        BY <1>2, <3>3, <4>2, <4>4
    <3> QED
      BY <1>1, <1>2, <1>7, <2>4, <3>3, <3>4 DEF RightFor
  <2> QED
    BY <1>2, <2>3, <2>4
<1> QED
  BY <1>1, <1>2, <1>6, <1>7

-----------------------------------------------------------------------------
(* Dumps.                                                                  *)

\* A digit is read as what it was written for.
LEMMA HexIs ==
  ASSUME NEW n \in 0..15
  PROVE  (CHOOSE m \in 0..15 : Text!Hex[m + 1] = Text!Hex[1 + n]) = n
<1>1. ASSUME NEW m \in 0..15, Text!Hex[m + 1] = Text!Hex[1 + n] PROVE m = n
  BY <1>1 DEF Text!Hex
<1>2. Text!Hex[n + 1] = Text!Hex[1 + n]
  OBVIOUS
<1> QED
  BY <1>1, <1>2

\* What is left of v when digits of it have been taken away, from the last.
TakenOff(left, d, v) ==
  /\ left \in [0..d -> Nat] /\ left[0] = v
  /\ \A k \in 1..d : left[k] = left[k - 1] \div 16

Digit(left, d, j) == Text!Hex[1 + (left[d - j] % 16)]

LEMMA DigitsAre ==
  ASSUME NEW d \in {2, 4, 8}, NEW v \in Nat
  PROVE  \E left : /\ TakenOff(left, d, v)
                   /\ Text!Digits(v, d) = [j \in 1..d |-> Digit(left, d, j)]
<1> DEFINE up == [p \in Nat \X (1..d) |-> p[1] \div 16]
           Is(g) == g = [k \in 0..d |-> IF k = 0 THEN v ELSE g[k - 1] \div 16]
<1>1. up \in [Nat \X (1..d) -> Nat] /\ d \in Nat
  OBVIOUS
<1> HIDE DEF up
<1>2. \E g \in [0..d -> Nat] : Stepwise(g, d, v, up)
  BY <1>1, StepwiseExists
<1>3. PICK g \in [0..d -> Nat] :
        \A i \in 0..d : g[i] = IF i = 0 THEN v ELSE up[<<g[i - 1], i>>]
  BY <1>2 DEF Stepwise
<1>4. ASSUME NEW i \in 0..d, i # 0 PROVE up[<<g[i - 1], i>>] = g[i - 1] \div 16
  <2>1. g[i - 1] \in Nat /\ i \in 1..d
    BY <1>3, <1>4
  <2> QED
    BY <2>1 DEF up
<1>5. Is(g)
  <2>1. g = [i \in 0..d |-> g[i]]
    BY <1>3
  <2>2. \A i \in 0..d : g[i] = IF i = 0 THEN v ELSE g[i - 1] \div 16
    BY <1>3, <1>4
  <2> QED
    BY <2>1, <2>2
<1>6. PICK left : left = CHOOSE f : Is(f)
  OBVIOUS
<1>7. Is(left)
  <2> HIDE DEF Is
  <2> QED
    BY <1>5, <1>6
<1>8. Text!Digits(v, d) =
        [i \in 1..d |-> IF d - i >= 8 THEN "?" ELSE Text!Hex[1 + (left[d - i] % 16)]]
  <2>1. Text!Digits(v, d) =
          [i \in 1..d |-> IF d - i >= 8 THEN "?"
                          ELSE Text!Hex[1 + ((CHOOSE f : Is(f))[d - i] % 16)]]
    BY DEF Text!Digits
  <2> HIDE DEF Is
  <2> QED
    BY <1>6, <2>1
<1>9. Text!Digits(v, d) = [j \in 1..d |-> Digit(left, d, j)]
  BY <1>8 DEF Digit
<1>10. \A i \in 0..d : left[i] = IF i = 0 THEN v ELSE left[i - 1] \div 16
  BY <1>7
<1>11. DOMAIN left = 0..d /\ left = [i \in 0..d |-> left[i]]
  BY <1>7
<1>12. \A i \in 0..d : left[i] = g[i]
  <2> DEFINE H == {i \in 0..d : left[i] = g[i]}
  <2>1. 0 \in H
    <3>1. 0 \in 0..d
      BY <1>1
    <3>2. g[0] = v /\ left[0] = v
      BY <1>3, <1>10, <3>1
    <3> QED
      BY <3>1, <3>2
  <2>2. ASSUME NEW i \in 0..d, i < d, i \in H PROVE i + 1 \in H
    <3>1. i + 1 \in 0..d /\ i + 1 # 0 /\ (i + 1) - 1 = i
      BY <1>1, <2>2
    <3>2. g[i + 1] = g[i] \div 16 /\ left[i + 1] = left[i] \div 16
      BY <1>3, <1>4, <1>10, <3>1
    <3> QED
      BY <2>2, <3>1, <3>2
  <2> HIDE DEF H
  <2>3. \A i \in 0..d : i \in H
    BY <1>1, <2>1, <2>2, AllNumbers
  <2> QED
    BY <2>3 DEF H
<1>13. TakenOff(left, d, v)
  <2>1. left \in [0..d -> Nat]
    <3>1. \A i \in 0..d : left[i] \in Nat
      BY <1>3, <1>12
    <3> QED
      BY <1>11, <3>1
  <2>2. left[0] = v
    BY <1>1, <1>10
  <2>3. \A k \in 1..d : left[k] = left[k - 1] \div 16
    BY <1>1, <1>10
  <2> QED
    BY <2>1, <2>2, <2>3 DEF TakenOff
<1> QED
  BY <1>9, <1>13

LEMMA FourDigits ==
  ASSUME NEW a \in Nat
  PROVE  (((a \div 16) \div 16) \div 16) \div 16 = a \div 65536
<1>1. \A b \in Nat : (b \div 16) \div 16 = b \div 256
  OBVIOUS
<1>2. (a \div 256) \div 256 = a \div 65536
  OBVIOUS
<1>3. a \div 256 \in Nat
  OBVIOUS
<1> QED
  BY <1>1, <1>2, <1>3

\* The digits are as many as the number can have.
LEMMA NothingLeft ==
  ASSUME NEW w \in {1, 2, 4}, NEW v, Fits(v, w), NEW left, TakenOff(left, 2 * w, v)
  PROVE  left[2 * w] = 0
<1>1. v \in Nat
  BY DEF Fits
<1>2. CASE w = 1
  <2>1. v < 256
    BY <1>2 DEF Fits
  <2>2. left[1] = v \div 16 /\ left[2] = left[1] \div 16
    BY <1>2 DEF TakenOff
  <2> QED
    BY <1>1, <1>2, <2>1, <2>2
<1>3. CASE w = 2
  <2>1. v < 65536
    BY <1>3 DEF Fits
  <2>2. /\ left[1] = v \div 16 /\ left[2] = left[1] \div 16
        /\ left[3] = left[2] \div 16 /\ left[4] = left[3] \div 16
    BY <1>3 DEF TakenOff
  <2> QED
    BY <1>1, <1>3, <2>1, <2>2
<1>4. CASE w = 4
  <2>1. v \div 65536 < 65536
    BY <1>4 DEF Fits
  <2>2. /\ left[1] = v \div 16 /\ left[2] = left[1] \div 16
        /\ left[3] = left[2] \div 16 /\ left[4] = left[3] \div 16
        /\ left[5] = left[4] \div 16 /\ left[6] = left[5] \div 16
        /\ left[7] = left[6] \div 16 /\ left[8] = left[7] \div 16
    BY <1>4 DEF TakenOff
  <2>3. left[4] = v \div 65536
    <3>1. left[4] = (((v \div 16) \div 16) \div 16) \div 16
      BY <2>2
    <3> QED
      BY <1>1, <3>1, FourDigits
  <2>4. left[4] \in Nat
    BY <1>1, <2>3
  <2>5. left[8] = left[4] \div 65536
    <3>1. left[8] = (((left[4] \div 16) \div 16) \div 16) \div 16
      BY <2>2
    <3> QED
      BY <2>4, <3>1, FourDigits
  <2>6. left[8] = 0
    BY <2>1, <2>3, <2>4, <2>5
  <2>7. 2 * w = 8
    BY <1>4
  <2> QED
    BY <2>6, <2>7
<1> QED
  BY <1>2, <1>3, <1>4

\* t has the digits of v behind its first at characters.
Writes(t, at, d, v) == \A j \in 1..d : t[at + j] = Text!Digits(v, d)[j]

LEMMA ReadIs ==
  ASSUME NEW w \in {1, 2, 4}, NEW v, Fits(v, w), NEW at \in Nat, NEW t,
         Writes(t, at, 2 * w, v)
  PROVE  Text!Read(t, at + 1, at + 2 * w) = v
<1>1. v \in Nat /\ 2 * w \in {2, 4, 8}
  BY DEF Fits
<1>2. PICK d \in {2, 4, 8} : d = 2 * w
  BY <1>1
<1>3. PICK left : /\ TakenOff(left, d, v)
                  /\ Text!Digits(v, d) = [j \in 1..d |-> Digit(left, d, j)]
  BY <1>1, DigitsAre
<1>4. /\ left \in [0..d -> Nat] /\ left[0] = v /\ left[d] = 0 /\ d \in Nat
      /\ \A k \in 1..d : left[k] = left[k - 1] \div 16
  <2>1. TakenOff(left, 2 * w, v)
    BY <1>2, <1>3
  <2>2. left[2 * w] = 0
    BY <2>1, NothingLeft
  <2> QED
    BY <1>2, <1>3, <2>2 DEF TakenOff
<1> DEFINE Val(c) == CHOOSE n \in 0..15 : Text!Hex[n + 1] = c
<1>5. ASSUME NEW j \in 1..d PROVE Val(t[at + j]) = left[d - j] % 16
  <2>1. d - j \in 0..d /\ left[d - j] \in Nat
    BY <1>4
  <2>2. left[d - j] % 16 \in 0..15
    BY <2>1
  <2>3. t[at + j] = Text!Hex[1 + (left[d - j] % 16)]
    BY <1>2, <1>3 DEF Writes, Digit
  <2> QED
    BY <2>2, <2>3, HexIs
<1> DEFINE Upto(f) == f = [k \in at + 1 - 1..at + d |->
                             IF k = at + 1 - 1 THEN 0 ELSE 16 * f[k - 1] + Val(t[k])]
           g == [k \in at + 1 - 1..at + d |-> left[d - (k - at)]]
<1> HIDE DEF Val
<1>6. ASSUME NEW k \in at + 1 - 1..at + d, k # at + 1 - 1
      PROVE  left[d - (k - at)] = 16 * left[d - ((k - 1) - at)] + Val(t[k])
  <2>1. PICK j \in 1..d : j = k - at
    BY <1>4, <1>6
  <2>2. k = at + j /\ d - ((k - 1) - at) = d - j + 1 /\ d - j \in 0..d /\ d - j + 1 \in 1..d
    BY <1>4, <2>1
  <2>3. PICK a \in Nat : a = left[d - j]
    BY <1>4, <2>2
  <2>4. left[d - j + 1] = a \div 16
    BY <1>4, <2>2, <2>3
  <2>5. Val(t[k]) = a % 16
    BY <1>5, <2>2, <2>3
  <2>6. a = 16 * (a \div 16) + (a % 16)
    OBVIOUS
  <2> QED
    BY <2>1, <2>2, <2>3, <2>4, <2>5, <2>6
<1>7. Upto(g)
  <2>1. ASSUME NEW k \in at + 1 - 1..at + d
        PROVE  g[k] = IF k = at + 1 - 1 THEN 0 ELSE 16 * g[k - 1] + Val(t[k])
    <3>1. CASE k = at + 1 - 1
      BY <1>4, <3>1
    <3>2. CASE k # at + 1 - 1
      <4>1. k - 1 \in at + 1 - 1..at + d
        BY <1>4, <3>2
      <4> QED
        BY <1>6, <3>2, <4>1
    <3> QED
      BY <3>1, <3>2
  <2>2. g = [k \in at + 1 - 1..at + d |-> g[k]]
    OBVIOUS
  <2> HIDE DEF g
  <2> QED
    BY <2>1, <2>2
<1>8. PICK f : f = CHOOSE h : Upto(h)
  OBVIOUS
<1>9. Upto(f)
  <2> HIDE DEF Upto, g
  <2> QED
    BY <1>7, <1>8
<1>10. \A j \in 0..d : f[at + j] = left[d - j]
  <2> DEFINE H == {j \in 0..d : f[at + j] = left[d - j]}
  <2>1. 0 \in H
    <3>1. at + 0 \in at + 1 - 1..at + d /\ at + 0 = at + 1 - 1 /\ d - 0 = d /\ 0 \in 0..d
      BY <1>4
    <3>2. f[at + 0] = 0
      BY <1>9, <3>1
    <3> QED
      BY <1>4, <3>1, <3>2
  <2>2. ASSUME NEW j \in 0..d, j < d, j \in H PROVE j + 1 \in H
    <3>1. /\ at + (j + 1) \in at + 1 - 1..at + d /\ at + (j + 1) # at + 1 - 1
          /\ (at + (j + 1)) - 1 = at + j /\ j + 1 \in 0..d
      BY <1>4, <2>2
    <3>2. f[at + (j + 1)] = 16 * f[at + j] + Val(t[at + (j + 1)])
      BY <1>9, <3>1
    <3>3. left[d - ((at + (j + 1)) - at)]
            = 16 * left[d - (((at + (j + 1)) - 1) - at)] + Val(t[at + (j + 1)])
      BY <1>6, <3>1
    <3>4. d - ((at + (j + 1)) - at) = d - (j + 1) /\ d - (((at + (j + 1)) - 1) - at) = d - j
      BY <1>4
    <3> QED
      BY <2>2, <3>1, <3>2, <3>3, <3>4
  <2> HIDE DEF H
  <2>3. \A j \in 0..d : j \in H
    BY <1>4, <2>1, <2>2, AllNumbers
  <2> QED
    BY <2>3 DEF H
<1>11. f[at + d] = v
  <2>1. d \in 0..d /\ d - d = 0
    BY <1>4
  <2> QED
    BY <1>4, <1>10, <2>1
<1>12. Text!Read(t, at + 1, at + d) = f[at + d]
  <2>1. Text!Read(t, at + 1, at + d) = (CHOOSE h : Upto(h))[at + d]
    BY DEF Text!Read, Val
  <2> HIDE DEF Upto
  <2> QED
    BY <1>8, <2>1
<1> QED
  BY <1>2, <1>11, <1>12

Chars == {" "} \cup {Text!Hex[1 + n] : n \in 0..15}

LEMMA FrontAndBack ==
  ASSUME NEW S, NEW y \in Seq(S), NEW x \in Seq(S)
  PROVE  /\ y \o x \in Seq(S) /\ Len(y \o x) = Len(y) + Len(x)
         /\ \A q \in 1..Len(y) : (y \o x)[q] = y[q]
         /\ \A q \in 1..Len(x) : (y \o x)[Len(y) + q] = x[q]
<1>1. PICK a \in Nat, b \in Nat : a = Len(y) /\ b = Len(x)
  BY LenProperties
<1>2. PICK z : z = y \o x
  OBVIOUS
<1>3. /\ z \in Seq(S) /\ Len(z) = a + b
      /\ \A q \in 1..a + b : z[q] = IF q <= a THEN y[q] ELSE x[q - a]
  BY <1>1, <1>2, ConcatProperties
<1>4. ASSUME NEW q \in 1..a PROVE z[q] = y[q]
  <2>1. q \in 1..a + b /\ q <= a
    OBVIOUS
  <2> QED
    BY <1>3, <2>1
<1>5. ASSUME NEW q \in 1..b PROVE z[a + q] = x[q]
  <2>1. a + q \in 1..a + b /\ ~(a + q <= a) /\ (a + q) - a = q
    OBVIOUS
  <2> QED
    BY <1>3, <2>1
<1> QED
  BY <1>1, <1>2, <1>3, <1>4, <1>5

LEMMA NumberIs ==
  ASSUME NEW d \in {2, 4, 8}, NEW v \in Nat
  PROVE  Text!Digits(v, d) \in Seq(Chars) /\ Len(Text!Digits(v, d)) = d
<1>1. PICK dg : dg = Text!Digits(v, d)
  OBVIOUS
<1>2. PICK lf : TakenOff(lf, d, v) /\ dg = [j \in 1..d |-> Digit(lf, d, j)]
  BY <1>1, DigitsAre
<1>3. lf \in [0..d -> Nat]
  BY <1>2 DEF TakenOff
<1>4. ASSUME NEW j \in 1..d PROVE Digit(lf, d, j) \in Chars
  <2>1. PICK r \in Nat : r = lf[d - j]
    <3>1. d - j \in 0..d
      OBVIOUS
    <3> QED
      BY <1>3, <3>1
  <2>2. r % 16 \in 0..15
    OBVIOUS
  <2>3. Digit(lf, d, j) = Text!Hex[1 + (r % 16)]
    BY <2>1 DEF Digit
  <2> QED
    BY <2>2, <2>3 DEF Chars
<1>5. dg \in [1..d -> Chars] /\ d \in Nat
  BY <1>2, <1>4
<1> QED
  BY <1>1, <1>5, SeqDef, LenProperties

\* x lists n items, of d digits each, that come behind the first at items.
Lists(x, items, at, n, d) ==
  /\ x \in Seq(Chars) /\ Len(x) = n * (d + 1)
  /\ \A k \in 1..n :
       /\ x[(k - 1) * (d + 1) + 1] = " "
       /\ Writes(x, (k - 1) * (d + 1) + 1, d, items[at + k])

Item(v, d) == <<" ">> \o Text!Digits(v, d)

LEMMA ItemIs ==
  ASSUME NEW d \in {2, 4, 8}, NEW v \in Nat, NEW y, y = Item(v, d)
  PROVE  /\ y \in Seq(Chars) /\ Len(y) = d + 1 /\ y[1] = " "
         /\ Writes(y, 1, d, v)
<1>1. PICK dg : dg = Text!Digits(v, d)
  OBVIOUS
<1>2. dg \in Seq(Chars) /\ Len(dg) = d /\ d \in Nat
  <2>1. Text!Digits(v, d) \in Seq(Chars) /\ Len(Text!Digits(v, d)) = d
    BY NumberIs
  <2> QED
    BY <1>1, <2>1
<1>3. PICK s : s = <<" ">>
  OBVIOUS
<1>4. s \in Seq(Chars) /\ Len(s) = 1 /\ s[1] = " "
  <2>1. " " \in Chars
    BY DEF Chars
  <2>2. \A c \in Chars : <<c>> \in Seq(Chars) /\ Len(<<c>>) = 1 /\ <<c>>[1] = c
    OBVIOUS
  <2> QED
    BY <1>3, <2>1, <2>2
<1>5. y = s \o dg
  BY <1>1, <1>3 DEF Item
<1>6. /\ y \in Seq(Chars) /\ Len(y) = 1 + d
      /\ \A q \in 1..1 : y[q] = s[q]
      /\ \A q \in 1..d : y[1 + q] = dg[q]
  <2>0. s \in Seq(Chars) /\ dg \in Seq(Chars)
    BY <1>2, <1>4
  <2>1. s \o dg \in Seq(Chars)
    BY <2>0, FrontAndBack
  <2>2. Len(s \o dg) = Len(s) + Len(dg)
    BY <2>0, FrontAndBack
  <2>3. \A q \in 1..Len(s) : (s \o dg)[q] = s[q]
    BY <2>0, FrontAndBack
  <2>4. \A q \in 1..Len(dg) : (s \o dg)[Len(s) + q] = dg[q]
    BY <2>0, FrontAndBack
  <2> QED
    BY <1>2, <1>4, <1>5, <2>1, <2>2, <2>3, <2>4
<1>7. 1 \in 1..1 /\ 1 + d = d + 1
  OBVIOUS
<1> QED
  BY <1>1, <1>4, <1>6, <1>7 DEF Writes

LEMMA OneMoreItem ==
  ASSUME NEW d \in {2, 4, 8}, NEW items, NEW i \in Nat \ {0}, NEW j \in Nat,
         NEW x, Lists(x, items, i, j, d), items[i] \in Nat,
         NEW z, z = Item(items[i], d) \o x
  PROVE  Lists(z, items, i - 1, j + 1, d)
<1>1. PICK e \in {3, 5, 9} : e = d + 1
  OBVIOUS
<1>2. PICK y : y = Item(items[i], d)
  OBVIOUS
<1>3. /\ y \in Seq(Chars) /\ Len(y) = e /\ y[1] = " "
      /\ Writes(y, 1, d, items[i])
  BY <1>1, <1>2, ItemIs
<1>4. /\ x \in Seq(Chars) /\ Len(x) = j * e
      /\ \A k \in 1..j :
           /\ x[(k - 1) * e + 1] = " "
           /\ Writes(x, (k - 1) * e + 1, d, items[i + k])
  BY <1>1 DEF Lists
<1>5. PICK b \in Nat : b = j * e
  BY <1>1
<1>6. /\ z \in Seq(Chars) /\ Len(z) = e + b
      /\ \A q \in 1..e : z[q] = y[q]
      /\ \A q \in 1..b : z[e + q] = x[q]
  <2>0. y \in Seq(Chars) /\ x \in Seq(Chars)
    BY <1>3, <1>4
  <2>1. y \o x \in Seq(Chars)
    BY <2>0, FrontAndBack
  <2>2. Len(y \o x) = Len(y) + Len(x)
    BY <2>0, FrontAndBack
  <2>3. \A q \in 1..Len(y) : (y \o x)[q] = y[q]
    BY <2>0, FrontAndBack
  <2>4. \A q \in 1..Len(x) : (y \o x)[Len(y) + q] = x[q]
    BY <2>0, FrontAndBack
  <2>5. z = y \o x /\ Len(y) = e /\ Len(x) = b
    BY <1>2, <1>3, <1>4, <1>5
  <2> QED
    BY <2>1, <2>2, <2>3, <2>4, <2>5
<1>7. e + b = (j + 1) * e
  BY <1>1, <1>5
<1>8. ASSUME NEW k \in 1..j + 1
      PROVE  /\ z[(k - 1) * e + 1] = " "
             /\ Writes(z, (k - 1) * e + 1, d, items[i - 1 + k])
  <2>1. CASE k = 1
    <3>1. (k - 1) * e + 1 = 1 /\ i - 1 + k = i
      BY <1>1, <2>1
    <3>2. 1 \in 1..e /\ \A q \in 1..d : 1 + q \in 1..e
      BY <1>1
    <3>3. z[1] = " "
      BY <1>3, <1>6, <3>2
    <3>4. Writes(z, 1, d, items[i])
      BY <1>3, <1>6, <3>2 DEF Writes
    <3> QED
      BY <3>1, <3>3, <3>4
  <2>2. CASE k # 1
    <3>1. PICK n \in 1..j : n = k - 1
      BY <2>2
    <3>2. PICK a \in Nat : a = (n - 1) * e
      BY <1>1, <3>1
    <3>3. (k - 1) * e = e + a /\ a + e <= b
      BY <1>1, <1>5, <3>1, <3>2
    <3>4. ASSUME NEW q \in 1..e PROVE z[(e + a) + q] = x[a + q]
      <4>1. a + q \in 1..b /\ (e + a) + q = e + (a + q)
        BY <1>1, <3>3
      <4> QED
        BY <1>6, <4>1
    <3>5. x[a + 1] = " " /\ Writes(x, a + 1, d, items[i + n])
      BY <1>4, <3>2
    <3>6. i + n = i - 1 + k /\ 1 \in 1..e
      BY <1>1, <3>1
    <3>7. z[(e + a) + 1] = " "
      BY <3>4, <3>5, <3>6
    <3>8. ASSUME NEW q \in 1..d PROVE z[((e + a) + 1) + q] = x[(a + 1) + q]
      <4>1. /\ 1 + q \in 1..e /\ ((e + a) + 1) + q = (e + a) + (1 + q)
            /\ (a + 1) + q = a + (1 + q)
        BY <1>1
      <4> QED
        BY <3>4, <4>1
    <3>9. Writes(z, (e + a) + 1, d, items[i - 1 + k])
      BY <3>5, <3>6, <3>8 DEF Writes
    <3> QED
      BY <3>3, <3>7, <3>9
  <2> QED
    BY <2>1, <2>2
<1> QED
  BY <1>1, <1>6, <1>7, <1>8 DEF Lists

\* Behind the first item each has its separator and its digits, when there is
\* room for one.
LEMMA FurtherIs ==
  ASSUME NEW w \in {1, 2, 4}, NEW items \in Seq(Nat), NEW left \in Int,
         left >= 1 + 2 * w + 1
  PROVE  Lists(Text!Further(left, items, w), items, 0, Len(items), 2 * w)
<1>1. PICK d \in {2, 4, 8} : d = 2 * w
  OBVIOUS
<1>2. PICK m \in Nat : m = Len(items)
  BY LenProperties
<1> DEFINE V == Seq(Chars)
           up == [p \in V \X (1..m) |-> Item(items[m + 1 - p[2]], d) \o p[1]]
           Is(f) == f = [i \in 1..Len(items) + 1 |->
                           IF i > Len(items) \/ left < 1 + 2 * w + 1 THEN <<>>
                           ELSE <<" ">> \o Text!Digits(items[i], 2 * w) \o f[i + 1]]
<1>3. ASSUME NEW i \in 1..m PROVE items[i] \in Nat
  <2>1. i \in 1..Len(items)
    BY <1>2
  <2> QED
    BY <2>1, ElementOfSeq
<1>4. up \in [V \X (1..m) -> V]
  <2>1. ASSUME NEW x \in V, NEW i \in 1..m PROVE Item(items[m + 1 - i], d) \o x \in V
    <3>1. m + 1 - i \in 1..m
      OBVIOUS
    <3>2. items[m + 1 - i] \in Nat
      BY <1>3, <3>1
    <3>3. PICK y : y = Item(items[m + 1 - i], d)
      OBVIOUS
    <3>4. y \in Seq(Chars)
      BY <3>2, <3>3, ItemIs
    <3>5. y \o x \in Seq(Chars)
      BY <3>4, FrontAndBack
    <3> QED
      BY <3>3, <3>5
  <2> HIDE DEF V
  <2> QED
    BY <2>1
<1>5. <<>> \in V
  BY EmptySeq
<1> HIDE DEF V, up, Is
<1>6. \E g \in [0..m -> V] : Stepwise(g, m, <<>>, up)
  BY <1>4, <1>5, StepwiseExists
<1>7. PICK g \in [0..m -> V] :
        \A i \in 0..m : g[i] = IF i = 0 THEN <<>> ELSE up[<<g[i - 1], i>>]
  BY <1>6 DEF Stepwise
<1>8. ASSUME NEW i \in 1..m PROVE g[i] = Item(items[m + 1 - i], d) \o g[i - 1]
  <2>1. i - 1 \in 0..m /\ i \in 0..m /\ i # 0
    OBVIOUS
  <2>2. g[i - 1] \in V
    BY <1>7, <2>1
  <2>3. up[<<g[i - 1], i>>] = Item(items[m + 1 - i], d) \o g[i - 1]
    BY <2>2 DEF up
  <2> QED
    BY <1>7, <2>1, <2>3
<1>9. g[0] = <<>>
  <2>1. 0 \in 0..m
    OBVIOUS
  <2> QED
    BY <1>7, <2>1
<1>10. PICK h : h = [i \in 1..m + 1 |-> g[m + 1 - i]]
  OBVIOUS
<1>11. ASSUME NEW i \in 1..m + 1
       PROVE  h[i] = IF i > m \/ left < 1 + 2 * w + 1 THEN <<>>
                     ELSE Item(items[i], d) \o h[i + 1]
  <2>1. CASE i > m
    <3>1. m + 1 - i = 0
      BY <2>1
    <3> QED
      BY <1>9, <1>10, <2>1, <3>1
  <2>2. CASE ~(i > m)
    <3>1. /\ m + 1 - i \in 1..m /\ i + 1 \in 1..m + 1
          /\ m + 1 - (m + 1 - i) = i /\ (m + 1 - i) - 1 = m + 1 - (i + 1)
      BY <2>2
    <3>2. g[m + 1 - i] = Item(items[i], d) \o g[m + 1 - (i + 1)]
      BY <1>8, <3>1
    <3>3. h[i] = g[m + 1 - i] /\ h[i + 1] = g[m + 1 - (i + 1)]
      BY <1>10, <3>1
    <3>4. ~(left < 1 + 2 * w + 1)
      OBVIOUS
    <3>5. h[i] = Item(items[i], d) \o h[i + 1]
      BY <3>2, <3>3
    <3> QED
      BY <2>2, <3>4, <3>5
  <2> QED
    BY <2>1, <2>2
<1>12. Is(h)
  <2>1. h = [i \in 1..m + 1 |-> h[i]]
    BY <1>10
  <2>2. h = [i \in 1..m + 1 |-> IF i > m \/ left < 1 + 2 * w + 1 THEN <<>>
                                ELSE Item(items[i], d) \o h[i + 1]]
    BY <1>11, <2>1
  <2> QED
    BY <1>1, <1>2, <2>2 DEF Is, Item
<1>13. PICK f : f = CHOOSE x : Is(x)
  OBVIOUS
<1>14. Is(f)
  BY <1>12, <1>13
<1>15. Text!Further(left, items, w) = f[1]
  <2>1. Text!Further(left, items, w) = (CHOOSE x : Is(x))[1]
    BY DEF Text!Further, Is
  <2> QED
    BY <1>13, <2>1
<1>16. \A i \in 1..m + 1 : f[i] = IF i > m \/ left < 1 + 2 * w + 1 THEN <<>>
                                  ELSE Item(items[i], d) \o f[i + 1]
  BY <1>1, <1>2, <1>14 DEF Is, Item
<1>17. f[m + 1] = <<>>
  <2>1. m + 1 \in 1..m + 1 /\ m + 1 > m
    OBVIOUS
  <2> QED
    BY <1>16, <2>1
<1>18. ASSUME NEW i \in 1..m PROVE f[i] = Item(items[i], d) \o f[i + 1]
  <2>1. i \in 1..m + 1 /\ ~(i > m) /\ ~(left < 1 + 2 * w + 1)
    OBVIOUS
  <2> QED
    BY <1>16, <2>1
<1> DEFINE H == {j \in 0..m : Lists(f[m + 1 - j], items, m - j, j, d)}
<1>19. 0 \in H
  <2>1. m + 1 - 0 = m + 1 /\ m - 0 = m /\ 0 * (d + 1) = 0 /\ 0 \in 0..m
    OBVIOUS
  <2>2. <<>> \in Seq(Chars) /\ Len(<<>>) = 0
    BY EmptySeq
  <2>3. Lists(<<>>, items, m, 0, d)
    BY <2>1, <2>2 DEF Lists
  <2> QED
    BY <1>17, <2>1, <2>3
<1>20. ASSUME NEW j \in 0..m, j < m, j \in H PROVE j + 1 \in H
  <2>1. PICK i \in 1..m : i = m - j
    <3>1. m - j \in 1..m
      BY <1>20
    <3> QED
      BY <3>1
  <2>2. /\ m + 1 - (j + 1) = i /\ m + 1 - j = i + 1 /\ m - (j + 1) = i - 1
        /\ j + 1 \in 0..m /\ i \in Nat \ {0} /\ j \in Nat
    BY <1>20, <2>1
  <2>3. Lists(f[i + 1], items, i, j, d)
    BY <1>20, <2>1, <2>2
  <2>4. PICK x, z : x = f[i + 1] /\ z = f[i]
    OBVIOUS
  <2>5. z = Item(items[i], d) \o x /\ items[i] \in Nat
    BY <1>3, <1>18, <2>4
  <2> HIDE DEF H
  <2>6. Lists(z, items, i - 1, j + 1, d)
    BY <2>2, <2>3, <2>4, <2>5, OneMoreItem
  <2> QED
    BY <2>2, <2>4, <2>6 DEF H
<1> HIDE DEF H
<1>21. \A j \in 0..m : j \in H
  BY <1>19, <1>20, AllNumbers
<1>22. m + 1 - m = 1 /\ m - m = 0 /\ m \in 0..m
  OBVIOUS
<1>23. Lists(f[1], items, 0, m, d)
  BY <1>21, <1>22 DEF H
<1> QED
  BY <1>1, <1>2, <1>15, <1>23

LEMMA NothingFurther ==
  ASSUME NEW w \in {1, 2, 4}, NEW items \in Seq(Nat), NEW left \in Int,
         Len(items) = 0 \/ left < 1 + 2 * w + 1
  PROVE  Text!Further(left, items, w) = <<>>
<1> DEFINE Is(f) == f = [i \in 1..Len(items) + 1 |->
                           IF i > Len(items) \/ left < 1 + 2 * w + 1 THEN <<>>
                           ELSE <<" ">> \o Text!Digits(items[i], 2 * w) \o f[i + 1]]
<1>1. PICK m \in Nat : m = Len(items)
  BY LenProperties
<1>2. PICK h : h = [i \in 1..Len(items) + 1 |-> <<>>]
  OBVIOUS
<1>3. \A i \in 1..Len(items) + 1 : i > Len(items) \/ left < 1 + 2 * w + 1
  BY <1>1
<1>4. Is(h)
  BY <1>2, <1>3
<1>5. PICK f : f = CHOOSE x : Is(x)
  OBVIOUS
<1>6. Is(f)
  <2> HIDE DEF Is
  <2> QED
    BY <1>4, <1>5
<1>7. Text!Further(left, items, w) = f[1]
  <2>1. Text!Further(left, items, w) = (CHOOSE x : Is(x))[1]
    BY DEF Text!Further
  <2> HIDE DEF Is
  <2> QED
    BY <1>5, <2>1
<1>8. f[1] = <<>>
  <2>1. \A i \in 1..Len(items) + 1 : f[i] = <<>>
    BY <1>3, <1>6
  <2>2. 1 \in 1..Len(items) + 1
    BY <1>1
  <2> QED
    BY <2>1, <2>2
<1> QED
  BY <1>7, <1>8

\* The text of so many items, of d digits each: how it is made, and how it is
\* laid out.
Made(t, items, shown, d) ==
  \E x : Lists(x, Tail(items), 0, shown - 1, d) /\ t = Text!Digits(Head(items), d) \o x
LaidOut(t, items, shown, d) ==
  /\ Len(t) = shown * (d + 1) - 1
  /\ \A i \in 1..shown :
       /\ Writes(t, (i - 1) * (d + 1), d, items[i])
       /\ i > 1 => t[(i - 1) * (d + 1)] = " "

LEMMA MadeIs ==
  ASSUME NEW d \in {2, 4, 8}, NEW items \in Seq(Nat), NEW shown \in 1..Len(items),
         NEW t, Made(t, items, shown, d)
  PROVE  LaidOut(t, items, shown, d)
<1>0. PICK x : Lists(x, Tail(items), 0, shown - 1, d) /\ t = Text!Digits(Head(items), d) \o x
  BY DEF Made
<1>1. PICK e \in {3, 5, 9} : e = d + 1
  OBVIOUS
<1>2. PICK n \in Nat \ {0} : n = Len(items) /\ shown \in 1..n
  BY LenProperties
<1>3. items # <<>>
  BY <1>2, EmptySeq
<1>4. /\ Head(items) = items[1]
      /\ \A i \in 1..n - 1 : Tail(items)[i] = items[i + 1]
  BY <1>2, <1>3, HeadTailProperties
<1>5. \A i \in 1..n : items[i] \in Nat
  BY <1>2, ElementOfSeq
<1>6. PICK y : y = Text!Digits(items[1], d)
  OBVIOUS
<1>7. y \in Seq(Chars) /\ Len(y) = d
  <2>1. items[1] \in Nat
    BY <1>5
  <2> QED
    BY <1>6, <2>1, NumberIs
<1>8. /\ x \in Seq(Chars) /\ Len(x) = (shown - 1) * e
      /\ \A k \in 1..shown - 1 :
           /\ x[(k - 1) * e + 1] = " "
           /\ Writes(x, (k - 1) * e + 1, d, Tail(items)[0 + k])
  BY <1>0, <1>1 DEF Lists
<1>9. PICK b \in Nat : b = (shown - 1) * e
  BY <1>1
<1>10. Len(t) = d + b /\ (\A q \in 1..d : t[q] = y[q]) /\ \A q \in 1..b : t[d + q] = x[q]
  <2>0. y \in Seq(Chars) /\ x \in Seq(Chars)
    BY <1>7, <1>8
  <2>1. Len(y \o x) = Len(y) + Len(x)
    BY <2>0, FrontAndBack
  <2>2. \A q \in 1..Len(y) : (y \o x)[q] = y[q]
    BY <2>0, FrontAndBack
  <2>3. \A q \in 1..Len(x) : (y \o x)[Len(y) + q] = x[q]
    BY <2>0, FrontAndBack
  <2>4. t = y \o x
    BY <1>0, <1>4, <1>6
  <2> QED
    BY <1>7, <1>8, <1>9, <2>1, <2>2, <2>3, <2>4
<1>11. Len(t) = shown * e - 1
  BY <1>1, <1>9, <1>10
<1>12. ASSUME NEW i \in 1..shown
       PROVE  /\ Writes(t, (i - 1) * e, d, items[i])
              /\ i > 1 => t[(i - 1) * e] = " "
  <2>1. CASE i = 1
    <3>1. (i - 1) * e = 0
      BY <1>1, <2>1
    <3>2. ASSUME NEW j \in 1..d PROVE t[0 + j] = Text!Digits(items[1], d)[j]
      <4>1. 0 + j = j
        OBVIOUS
      <4> QED
        BY <1>6, <1>10, <4>1
    <3>3. Writes(t, 0, d, items[1])
      BY <3>2 DEF Writes
    <3> QED
      BY <2>1, <3>1, <3>3
  <2>2. CASE i # 1
    <3>1. PICK k \in 1..shown - 1 : k = i - 1
      BY <2>2
    <3>2. PICK a \in Nat : a = (k - 1) * e
      BY <1>1, <3>1
    <3>3. (i - 1) * e = d + (a + 1) /\ a + e <= b
      BY <1>1, <1>9, <3>1, <3>2
    <3>4. x[a + 1] = " " /\ Writes(x, a + 1, d, Tail(items)[0 + k])
      BY <1>8, <3>2
    <3>5. Tail(items)[0 + k] = items[i]
      <4>1. 0 + k = k /\ k \in 1..n - 1 /\ k + 1 = i
        BY <1>2, <3>1
      <4> QED
        BY <1>4, <4>1
    <3>6. t[d + (a + 1)] = " "
      <4>1. a + 1 \in 1..b
        BY <1>1, <3>3
      <4> QED
        BY <1>10, <3>4, <4>1
    <3>7. ASSUME NEW j \in 1..d PROVE t[(d + (a + 1)) + j] = x[(a + 1) + j]
      <4>1. (a + 1) + j \in 1..b /\ (d + (a + 1)) + j = d + ((a + 1) + j)
        BY <1>1, <3>3
      <4> QED
        BY <1>10, <4>1
    <3>8. Writes(t, d + (a + 1), d, items[i])
      BY <3>4, <3>5, <3>7 DEF Writes
    <3> QED
      BY <3>3, <3>6, <3>8
  <2> QED
    BY <2>1, <2>2
<1> QED
  BY <1>1, <1>11, <1>12 DEF LaidOut

\* Text t of length ret shows k of the items.
Shows(t, ret, k, items, size, d) ==
  /\ ret = Len(t)
  /\ Len(t) = (IF k = 0 THEN 0 ELSE k * (d + 1) - 1)
  /\ Len(t) > 0 => Len(t) < size
  /\ \A i \in 1..k : LET at == (i - 1) * (d + 1) IN
       /\ Text!Read(t, at + 1, at + d) = items[i]
       /\ i > 1 => t[at] = " "

\* What is right for a dump in a buffer.
RightDump(size, items, width, r) ==
  LET d == 2 * Text!Width(width)
      n == Len(items)
      shown == IF size > n * (d + 1) - 1 THEN n ELSE IF size > d THEN 1 ELSE 0
  IN size > n * (d + 1) - 1 \/ size < 2 * (d + 1) =>
       Shows(r.text, r.ret, shown, items, size, d)

LEMMA DumpedRight ==
  ASSUME LineLengths, DumpsFit,
         NEW size \in Sizes, NEW items \in Items, NEW width \in Widths
  PROVE  RightDump(size, items, width, Text!Dumped(size, items, width))
<1>1. size \in Nat /\ items \in Seq(Nat)
  BY DEF LineLengths, DumpsFit
<1>2. PICK w \in {1, 2, 4} : w = Text!Width(width)
  BY DEF Text!Width
<1>3. PICK d \in {2, 4, 8} : d = 2 * w
  OBVIOUS
<1>4. PICK e \in {3, 5, 9} : e = d + 1
  OBVIOUS
<1>5. PICK n \in Nat : n = Len(items)
  BY <1>1, LenProperties
<1>6. PICK r : r = Text!Dumped(size, items, width)
  OBVIOUS
<1> DEFINE all == size > n * e - 1
           shown == IF all THEN n ELSE IF size > d THEN 1 ELSE 0
<1> SUFFICES ASSUME all \/ size < 2 * e
             PROVE  Shows(r.text, r.ret, shown, items, size, d)
  <2>1. 2 * Text!Width(width) = d /\ d + 1 = e
    BY <1>2, <1>3, <1>4
  <2> QED
    BY <1>5, <1>6, <2>1 DEF RightDump
<1>7. CASE items = <<>> \/ size < 2 * w + 1
  <2>1. r = [text |-> <<>>, ret |-> 0]
    BY <1>2, <1>6, <1>7 DEF Text!Dumped
  <2>2. shown = 0
    <3>1. CASE items = <<>>
      <4>1. n = 0
        BY <1>5, <3>1, EmptySeq
      <4> QED
        BY <1>1, <1>4, <4>1
    <3>2. CASE items # <<>> /\ size < d + 1
      <4>1. n # 0
        BY <1>1, <1>5, <3>2, EmptySeq
      <4>2. n * e - 1 >= d /\ ~(size > d)
        BY <1>1, <1>4, <3>2, <4>1
      <4> QED
        BY <1>1, <1>4, <3>2, <4>2
    <3> QED
      BY <1>3, <1>7, <3>1, <3>2
  <2>3. Len(<<>>) = 0
    BY EmptySeq
  <2>4. Shows(<<>>, 0, 0, items, size, d)
    BY <1>1, <2>3 DEF Shows
  <2>5. r.text = <<>> /\ r.ret = 0
    BY <2>1
  <2> HIDE DEF shown, all
  <2> QED
    BY <2>2, <2>4, <2>5
<1>8. CASE items # <<>> /\ size >= 2 * w + 1
  <2>1. n # 0 /\ size >= e
    BY <1>1, <1>3, <1>4, <1>5, <1>8, EmptySeq
  <2>2. Tail(items) \in Seq(Nat) /\ Len(Tail(items)) = n - 1
    BY <1>1, <1>5, <1>8, HeadTailProperties
  <2>3. PICK x : x = Text!Further(size - 2 * w, Tail(items), w)
    OBVIOUS
  <2>4. PICK t : t = Text!Digits(Head(items), d) \o x
    OBVIOUS
  <2>5. PICK k \in 1..n : k = shown
    <3>1. shown \in 1..n
      BY <1>1, <1>4, <2>1
    <3> QED
      BY <3>1
  <2>6. Lists(x, Tail(items), 0, k - 1, d)
    <3>1. CASE n = 1 \/ size < 2 * e
      <4>1. k = 1
        <5>1. CASE n = 1
          BY <2>5, <5>1
        <5>2. CASE n # 1 /\ size < 2 * e
          <6>1. n * e - 1 >= 2 * e - 1
            BY <1>4, <2>1, <5>2
          <6>2. ~all /\ size > d
            BY <1>1, <1>4, <2>1, <5>2, <6>1
          <6> QED
            BY <2>5, <6>2
        <5> QED
          BY <3>1, <5>1, <5>2
      <4>2. x = <<>>
        <5>1. Len(Tail(items)) = 0 \/ size - 2 * w < 1 + 2 * w + 1
          BY <1>1, <1>3, <1>4, <2>2, <3>1
        <5>2. size - 2 * w \in Int
          BY <1>1
        <5> QED
          BY <2>2, <2>3, <5>1, <5>2, NothingFurther
      <4>3. <<>> \in Seq(Chars) /\ Len(<<>>) = 0
        BY EmptySeq
      <4>4. k - 1 = 0 /\ 0 * (d + 1) = 0
        BY <4>1
      <4>5. Lists(<<>>, Tail(items), 0, 0, d)
        BY <4>3, <4>4 DEF Lists
      <4> QED
        BY <4>2, <4>4, <4>5
    <3>2. CASE n # 1 /\ ~(size < 2 * e)
      <4>1. k = n
        BY <2>5, <3>2
      <4>2. size - 2 * w \in Int /\ size - 2 * w >= 1 + 2 * w + 1
        BY <1>1, <1>3, <1>4, <3>2
      <4> QED
        BY <1>3, <2>2, <2>3, <4>1, <4>2, FurtherIs
    <3> QED
      BY <3>1, <3>2
  <2>7. /\ Len(t) = k * e - 1
        /\ \A i \in 1..k :
             /\ Writes(t, (i - 1) * e, d, items[i])
             /\ i > 1 => t[(i - 1) * e] = " "
    <3>1. k \in 1..Len(items)
      BY <1>5
    <3>2. items \in Seq(Nat)
      BY <1>1
    <3>3. Made(t, items, k, d)
      BY <2>4, <2>6 DEF Made
    <3>4. LaidOut(t, items, k, d)
      BY <3>1, <3>2, <3>3, MadeIs
    <3> QED
      BY <1>4, <3>4 DEF LaidOut
  <2>8. r = [text |-> t, ret |-> k * e - 1]
    <3>1. (Len(t) + 1) \div (2 * w + 1) = k
      <4>1. Len(t) + 1 = k * e
        <5>1. PICK p \in Int : p = k * e
          BY <1>4
        <5>2. Len(t) = p - 1
          BY <2>7, <5>1
        <5> QED
          BY <5>1, <5>2
      <4>2. (k * e) \div e = k
        BY <1>4
      <4> QED
        BY <1>3, <1>4, <4>1, <4>2
    <3>2. (k - 1) + k * w * 2 = k * e - 1
      BY <1>3, <1>4
    <3>3. ~(items = <<>> \/ size < 2 * w + 1)
      BY <1>1, <1>8
    <3>4. Text!Digits(Head(items), 2 * w) \o Text!Further(size - 2 * w, Tail(items), w) = t
      BY <1>3, <2>3, <2>4
    <3>5. r = LET m == (Len(t) + 1) \div (2 * w + 1)
              IN  [text |-> t, ret |-> (m - 1) + m * w * 2]
      BY <1>2, <1>6, <3>3, <3>4 DEF Text!Dumped
    <3> QED
      BY <3>1, <3>2, <3>5
  <2>9. k * e - 1 > 0 /\ k * e - 1 < size
    <3>1. CASE all
      BY <1>1, <1>4, <2>5, <3>1
    <3>2. CASE ~all
      <4>1. k = 1
        BY <1>1, <1>4, <2>1, <2>5, <3>2
      <4> QED
        BY <1>1, <1>4, <2>1, <4>1
    <3> QED
      BY <3>1, <3>2
  <2>10. ASSUME NEW i \in 1..k
         PROVE  Text!Read(t, (i - 1) * e + 1, (i - 1) * e + d) = items[i]
    <3>1. PICK at \in Nat : at = (i - 1) * e
      BY <1>4
    <3>2. Writes(t, at, 2 * w, items[i])
      BY <1>3, <2>7, <3>1
    <3>3. Fits(items[i], w)
      <4>1. i \in 1..Len(items)
        BY <1>5
      <4> QED
        BY <1>2, <4>1 DEF DumpsFit
    <3>4. Text!Read(t, at + 1, at + 2 * w) = items[i]
      BY <3>2, <3>3, ReadIs
    <3> QED
      BY <1>3, <3>1, <3>4
  <2>11. Shows(t, k * e - 1, k, items, size, d)
    <3>1. k # 0 /\ d + 1 = e
      BY <1>4
    <3> QED
      BY <2>7, <2>9, <2>10, <3>1 DEF Shows
  <2>12. r.text = t /\ r.ret = k * e - 1
    BY <2>8
  <2> HIDE DEF shown, all
  <2> QED
    BY <2>5, <2>11, <2>12
<1>9. size < 2 * w + 1 \/ size >= 2 * w + 1
  BY <1>1
<1> HIDE DEF shown, all
<1> QED
  BY <1>7, <1>8, <1>9

-----------------------------------------------------------------------------
(* Texts.                                                                  *)

\* The last call, with what it returned.
Called ==
  /\ call.of = "log" =>
       \E size \in Sizes, line \in Lines :
         /\ call.size = size /\ call.line = line
         /\ call.out = Text!Logged(size, line)
  /\ call.of = "dump" =>
       \E size \in Sizes, items \in Items, width \in Widths :
         /\ call.size = size /\ call.items = items /\ call.width = width
         /\ call.out = Text!Dumped(size, items, width)

\* A line of the log is whole, or it ends in the abbreviation and just fills
\* the buffer, and a dump that the buffer takes all of, or one item only, reads
\* back as what was dumped; the length told is that of the text.  Lines,
\* dumps, buffers and abbreviations are of any length.
THEOREM TextsRight == Text!Init /\ [][Text!Next]_call => []TextRight
<1>1. LineLengths /\ DumpsFit
  BY TextAssumption, DumpAssumption
<1>2. Text!Init => Called
  BY DEF Text!Init, Called
<1>3. Called /\ [Text!Next]_call => Called'
  BY DEF Called, Text!Next, Text!Log, Text!Dump
<1>4. ASSUME Called, call.of = "log" PROVE Text!LineRight
  <2>1. PICK size \in Sizes, line \in Lines :
          /\ call.size = size /\ call.line = line
          /\ call.out = Text!Logged(size, line)
    BY <1>4 DEF Called
  <2>2. RightFor(call.size, All(call.line), Whole(call.line), call.out)
    BY <1>1, <2>1, LoggedRight
  <2>3. RightFor(call.size, All(call.line), Whole(call.line), call.out) = Text!LineRight
    BY DEF Text!LineRight, RightFor, All, Whole
  <2> QED
    BY <2>2, <2>3
<1>5. ASSUME Called, call.of = "dump" PROVE Text!DumpRight
  <2>1. PICK size \in Sizes, items \in Items, width \in Widths :
          /\ call.size = size /\ call.items = items /\ call.width = width
          /\ call.out = Text!Dumped(size, items, width)
    BY <1>5 DEF Called
  <2>2. RightDump(call.size, call.items, call.width, call.out)
    BY <1>1, <2>1, DumpedRight
  <2>3. RightDump(call.size, call.items, call.width, call.out) => Text!DumpRight
    BY DEF Text!DumpRight, RightDump, Shows
  <2> QED
    BY <2>2, <2>3
<1>6. Called => TextRight
  BY <1>4, <1>5 DEF TextRight, Text!TextRight
<1> QED
  BY <1>2, <1>3, <1>6, PTL
-----------------------------------------------------------------------------
(* The due times of the service.                                           *)

Even == {2 * k : k \in Nat}

LEMMA EvenTimes ==
  ASSUME PollAsBuilt, NEW n \in Even
  PROVE  /\ Poll!Limit \in Nat \ {0} /\ Poll!Wrap(n) \in Poll!Times
         /\ Poll!Wrap(n) # Poll!Infinite
         /\ n < Poll!Limit => Poll!Wrap(n) = n
<1> DEFINE L == Poll!Limit
<1>1. PICK k \in Nat : L = 2 * k
  BY DEF PollAsBuilt
<1>2. L \in Nat \ {0}
  BY <1>1 DEF PollAsBuilt
<1>3. Poll!Wrap(n) = n % L /\ Poll!Times = 0..L - 1 /\ Poll!Infinite = L - 1
  BY DEF Poll!Wrap, Poll!Times, Poll!Infinite
<1> HIDE DEF L
<1>4. PICK m \in Nat : n = 2 * m
  BY DEF Even
<1>5. n % L \in 0..L - 1 /\ \E q \in Int : n = (L * q) + (n % L)
  <2>1. n \in Int
    BY <1>4
  <2> QED
    BY <1>2, <2>1, Remainder
<1>6. PICK q \in Int : n = (L * q) + (n % L)
  BY <1>5
<1>7. n % L # L - 1
  <2> SUFFICES ASSUME n % L = L - 1 PROVE FALSE
    OBVIOUS
  <2> DEFINE p == k * q
  <2>1. p \in Int /\ L * q = 2 * p
    BY <1>1
  <2> HIDE DEF p
  <2>2. 2 * m = (2 * p) + (2 * k) - 1
    BY <1>1, <1>4, <1>6, <2>1
  <2> QED
    BY <2>1, <2>2
<1>8. n < L => n % L = n
  BY <1>2, <1>4
<1> QED
  BY <1>2, <1>3, <1>5, <1>7, <1>8 DEF L

\* A socket's due time is never, or that of an even time not wrapped.
Dues ==
  /\ now \in Even /\ polling \in BOOLEAN
  /\ \A s \in 1..Socks :
       \/ due[s] = Poll!Infinite /\ real[s] = -1
       \/ real[s] \in Even /\ due[s] = Poll!Wrap(real[s])

LEMMA DueTimes ==
  ASSUME PollAsBuilt, Dues
  PROVE  /\ Poll!Limit \in Nat \ {0} /\ Poll!Infinite \in Poll!Times
         /\ Poll!Ts \in Poll!Times
         /\ \A s \in 1..Socks : due[s] \in Poll!Times
<1>1. Poll!Limit \in Nat \ {0} /\ Poll!Ts \in Poll!Times
  BY EvenTimes DEF Dues, Poll!Ts
<1>2. Poll!Infinite \in Poll!Times
  BY <1>1 DEF Poll!Infinite, Poll!Times
<1> QED
  BY <1>1, <1>2, EvenTimes DEF Dues

LEMMA DueUpToIs ==
  ASSUME PollAsBuilt, Dues
  PROVE  \A i \in 0..Socks :
           Poll!DueUpTo[i] = IF i = 0 THEN Poll!Wrap(Poll!Ts + PollMax)
                             ELSE Poll!Earlier(Poll!DueUpTo[i - 1], Poll!Ts, due[i])
<1> DEFINE c == Poll!Wrap(Poll!Ts + PollMax)
           V == Poll!Times
           up == [p \in V \X (1..Socks) |-> Poll!Earlier(p[1], Poll!Ts, due[p[2]])]
           Is(g) == g = [i \in 0..Socks |->
                           IF i = 0 THEN c ELSE Poll!Earlier(g[i - 1], Poll!Ts, due[i])]
<1>1. c \in V
  <2>1. Poll!Ts + PollMax \in Int /\ Poll!Limit \in Nat \ {0}
    BY DueTimes DEF PollAsBuilt, Poll!Times
  <2> QED
    BY <2>1, Remainder DEF Poll!Wrap, Poll!Times
<1>2. up \in [V \X (1..Socks) -> V]
  BY DueTimes DEF Poll!Earlier
<1>3. Socks \in Nat
  BY DEF PollAsBuilt
<1> HIDE DEF c, V, up
<1>4. \E g \in [0..Socks -> V] : Stepwise(g, Socks, c, up)
  BY <1>1, <1>2, <1>3, StepwiseExists
<1>5. PICK g \in [0..Socks -> V] :
        \A i \in 0..Socks : g[i] = IF i = 0 THEN c ELSE up[<<g[i - 1], i>>]
  BY <1>4 DEF Stepwise
<1>6. Is(g)
  <2>1. ASSUME NEW i \in 0..Socks, i # 0
        PROVE  up[<<g[i - 1], i>>] = Poll!Earlier(g[i - 1], Poll!Ts, due[i])
    <3>1. g[i - 1] \in V /\ i \in 1..Socks
      BY <1>3, <1>5, <2>1
    <3> QED
      BY <3>1 DEF up
  <2>2. g = [i \in 0..Socks |-> g[i]]
    BY <1>5
  <2>3. \A i \in 0..Socks :
          g[i] = IF i = 0 THEN c ELSE Poll!Earlier(g[i - 1], Poll!Ts, due[i])
    BY <1>5, <2>1
  <2> QED
    BY <2>2, <2>3
<1>7. Poll!DueUpTo = CHOOSE f : Is(f)
  BY DEF Poll!DueUpTo, c
<1>8. Is(Poll!DueUpTo)
  <2> HIDE DEF Is
  <2> QED
    BY <1>6, <1>7
<1> QED
  BY <1>8 DEF c

\* What the due time of the poll is after the first i sockets: at most PollMax
\* from now, now only because of a socket that is due, and after no due time
\* of a socket unless it is now.
DueSoFar(i) ==
  LET t == Poll!DueUpTo[i] IN
  /\ t \in Poll!Times /\ t # Poll!Infinite /\ t <= Poll!Ts + PollMax
  /\ now + PollMax < Poll!Limit /\ t <= Poll!Ts =>
       \E s \in 1..i : Poll!IsDue(Poll!Ts, due[s])
  /\ \A s \in 1..i : t <= Poll!Ts \/ t <= due[s]

LEMMA PollDueIs ==
  ASSUME PollAsBuilt, Dues
  PROVE  \A i \in 0..Socks : DueSoFar(i)
<1> DEFINE L == Poll!Limit
           H == {i \in 0..Socks : DueSoFar(i)}
<1>1. /\ PollMax \in Nat \ {0} /\ Socks \in Nat /\ L \in Nat \ {0}
      /\ Poll!Ts \in 0..L - 1 /\ Poll!Infinite = L - 1 /\ Poll!Times = 0..L - 1
      /\ \A s \in 1..Socks : due[s] \in 0..L - 1
  BY DueTimes DEF PollAsBuilt, Poll!Times, Poll!Infinite
<1>2. Poll!Infinite > 0
  <2>1. PICK k \in Nat : L = 2 * k
    BY DEF PollAsBuilt
  <2> QED
    BY <1>1, <2>1
<1>3. DueSoFar(0)
  <2>1. Poll!DueUpTo[0] = Poll!Wrap(Poll!Ts + PollMax)
    BY <1>1, DueUpToIs
  <2>2. Poll!Ts + PollMax \in Even
    \* Ts is even as well.
    <3>1. PICK k \in Nat, m \in Nat, j \in Nat : L = 2 * k /\ now = 2 * m /\ PollMax = 2 * j
      BY DEF PollAsBuilt, Dues, Even
    <3>2. PICK q \in Int : now = (L * q) + Poll!Ts
      <4>1. now \in Int /\ L \in Nat \ {0} /\ Poll!Ts = now % L
        BY <1>1, <3>1 DEF Poll!Ts, Poll!Wrap
      <4> HIDE DEF L
      <4> QED
        BY <4>1, Remainder
    <3> DEFINE p == k * q
    <3>3. p \in Int /\ L * q = 2 * p
      BY <3>1, <3>2
    <3> HIDE DEF p
    <3>4. Poll!Ts + PollMax = 2 * ((m - p) + j)
      BY <1>1, <3>1, <3>2, <3>3
    <3>5. (m - p) + j \in Nat
      BY <1>1, <3>1, <3>3, <3>4
    <3> QED
      BY <3>4, <3>5 DEF Even
  <2>3. /\ Poll!DueUpTo[0] \in Poll!Times /\ Poll!DueUpTo[0] # Poll!Infinite
        /\ Poll!DueUpTo[0] <= Poll!Ts + PollMax
    <3>1. Poll!Wrap(Poll!Ts + PollMax) <= Poll!Ts + PollMax
      <4>1. Poll!Ts + PollMax \in Nat
        BY <1>1
      <4> QED
        BY <1>1, <4>1 DEF Poll!Wrap
    <3> QED
      BY <2>1, <2>2, <3>1, EvenTimes
  <2>4. now + PollMax < L => ~(Poll!DueUpTo[0] <= Poll!Ts)
    <3> SUFFICES ASSUME now + PollMax < L PROVE ~(Poll!DueUpTo[0] <= Poll!Ts)
      OBVIOUS
    <3>1. now \in Nat /\ now < L
      BY <1>1 DEF Dues, Even
    <3>2. Poll!Ts = now
      BY <3>1, EvenTimes DEF Dues, Poll!Ts
    <3>3. Poll!DueUpTo[0] = Poll!Ts + PollMax
      BY <2>1, <2>2, <3>2, EvenTimes
    <3> QED
      BY <1>1, <3>1, <3>2, <3>3
  <2> QED
    BY <2>3, <2>4 DEF DueSoFar
<1>4. ASSUME NEW i \in 0..Socks, i < Socks, DueSoFar(i) PROVE DueSoFar(i + 1)
  <2> DEFINE t == Poll!DueUpTo[i]
             u == Poll!DueUpTo[i + 1]
             d == due[i + 1]
  <2>1. i + 1 \in 1..Socks /\ i + 1 \in 0..Socks /\ i + 1 # 0 /\ (i + 1) - 1 = i
    BY <1>1, <1>4
  <2>2. u = Poll!Earlier(t, Poll!Ts, d)
    BY <2>1, DueUpToIs
  <2>3. /\ t \in 0..L - 1 /\ t # L - 1 /\ t <= Poll!Ts + PollMax
        /\ now + PollMax < L /\ t <= Poll!Ts =>
             \E s \in 1..i : Poll!IsDue(Poll!Ts, due[s])
        /\ \A s \in 1..i : t <= Poll!Ts \/ t <= due[s]
    BY <1>1, <1>4 DEF DueSoFar
  <2>4. d \in 0..L - 1
    BY <1>1, <2>1
  <2> HIDE DEF t, u, d, L
  <2>5. \/ u = t /\ (t <= Poll!Ts \/ t <= d)
        \/ u <= Poll!Ts /\ u \in 0..L - 1 /\ u # L - 1 /\ d # L - 1 /\ d <= Poll!Ts
        \/ u = d /\ d < t /\ d # L - 1
    BY <1>1, <1>2, <2>2, <2>3, <2>4 DEF Poll!Earlier
  <2>6. \A s \in 1..i + 1 : s \in 1..i \/ s = i + 1
    BY <2>1
  <2>7. 1..i \subseteq 1..i + 1 /\ i + 1 \in 1..i + 1
    BY <2>1
  <2>8. u \in 0..L - 1 /\ u # L - 1 /\ u <= Poll!Ts + PollMax
    BY <1>1, <2>3, <2>4, <2>5
  <2>9. now + PollMax < L /\ u <= Poll!Ts =>
          \E s \in 1..i + 1 : Poll!IsDue(Poll!Ts, due[s])
    <3>1. u # t /\ u <= Poll!Ts => Poll!IsDue(Poll!Ts, d)
      BY <1>1, <2>3, <2>4, <2>5 DEF Poll!IsDue
    <3> QED
      BY <2>3, <2>7, <3>1 DEF d
  <2>10. ASSUME NEW s \in 1..i + 1 PROVE u <= Poll!Ts \/ u <= due[s]
    <3>1. CASE s \in 1..i
      <4>1. due[s] \in 0..L - 1
        BY <1>1, <2>1, <3>1
      <4> QED
        BY <1>1, <2>3, <2>4, <2>5, <3>1, <4>1
    <3>2. CASE s = i + 1
      BY <1>1, <2>3, <2>4, <2>5, <3>2 DEF d
    <3> QED
      BY <2>6, <3>1, <3>2
  <2> QED
    BY <1>1, <2>8, <2>9, <2>10 DEF DueSoFar, u, L
<1>5. 0 \in H /\ \A i \in 0..Socks : i < Socks /\ i \in H => i + 1 \in H
  BY <1>1, <1>3, <1>4
<1> HIDE DEF H
<1>6. \A i \in 0..Socks : i \in H
  BY <1>1, <1>5, AllNumbers
<1> QED
  BY <1>6 DEF H

\* While no time has wrapped: an armed socket's due time is not past, a poll
\* ends at most MinWait after it, and one that returns at once has a reason.
PollWay ==
  /\ Dues
  /\ wait \in 0..PollMax
  /\ now + PollMax < Poll!Limit =>
       /\ \A s \in 1..Socks :
            real[s] # -1 /\ real[s] < Poll!Limit =>
              /\ now <= real[s]
              /\ polling => now + wait <= real[s] + MinWait
       /\ polling /\ wait = 0 => \E s \in 1..Socks : Poll!IsDue(Poll!Ts, due[s])

LEMMA PollWayInit ==
  ASSUME PollAsBuilt, Poll!Init
  PROVE  PollWay
<1>1. 0 \in Even
  BY DEF Even
<1>2. 0 \in 0..PollMax
  BY DEF PollAsBuilt
<1> QED
  BY <1>1, <1>2 DEF Poll!Init, PollWay, Dues

LEMMA PollWayPoll ==
  ASSUME PollAsBuilt, PollWay, Poll!Poll
  PROVE  PollWay'
<1> DEFINE L == Poll!Limit
           t == Poll!PollDue
           ts == Poll!Ts
<1>1. /\ PollMax \in Nat \ {0} /\ MinWait \in 1..PollMax /\ L \in Nat \ {0}
      /\ ts \in 0..L - 1 /\ now \in Nat /\ Socks \in Nat
  BY DueTimes DEF PollAsBuilt, Poll!Times, PollWay, Dues, Even
<1>2. DueSoFar(Socks)
  BY <1>1, PollDueIs DEF PollWay
<1>3. /\ t \in 0..L - 1 /\ t # Poll!Infinite /\ t <= ts + PollMax
      /\ now + PollMax < L /\ t <= ts => \E s \in 1..Socks : Poll!IsDue(ts, due[s])
      /\ \A s \in 1..Socks : t <= ts \/ t <= due[s]
  BY <1>2 DEF DueSoFar, Poll!PollDue, Poll!Times
<1>4. /\ polling' = TRUE /\ wait' = Poll!Timeout(t, ts)
      /\ now' = now /\ due' = due /\ real' = real
  BY DEF Poll!Poll
<1> HIDE DEF L, t, ts
<1>5. \/ wait' = 0 /\ t <= ts
      \/ wait' = MinWait
      \/ wait' = t - ts /\ t > ts
  BY <1>1, <1>3, <1>4 DEF Poll!Timeout
<1>6. Dues'
  BY <1>4 DEF PollWay, Dues, Even, Poll!Infinite, Poll!Wrap, Poll!Limit
<1>7. wait' \in 0..PollMax
  BY <1>1, <1>3, <1>5
<1>8. ASSUME now + PollMax < L, NEW s \in 1..Socks, real[s] # -1, real[s] < L
      PROVE  now <= real[s] /\ now + wait' <= real[s] + MinWait
  <2>1. now <= real[s]
    BY <1>8 DEF PollWay, L
  <2>2. real[s] \in Even /\ due[s] = Poll!Wrap(real[s])
    BY <1>8 DEF PollWay, Dues
  <2>3. due[s] = real[s] /\ real[s] \in Nat
    BY <1>8, <2>2, EvenTimes DEF Even, L
  <2>4. ts = now
    <3>1. now < L /\ now \in Even
      BY <1>1, <1>8 DEF PollWay, Dues
    <3> QED
      BY <3>1, EvenTimes DEF L, ts, Poll!Ts
  <2>5. now + wait' <= real[s] + MinWait
    <3>1. CASE wait' = 0 \/ wait' = MinWait
      BY <1>1, <2>1, <2>3, <3>1
    <3>2. CASE wait' = t - ts /\ t > ts
      BY <1>1, <1>3, <2>3, <2>4, <3>2
    <3> QED
      BY <1>5, <3>1, <3>2
  <2> QED
    BY <2>1, <2>5
<1>9. now + PollMax < L /\ wait' = 0 => \E s \in 1..Socks : Poll!IsDue(ts, due[s])
  <2>1. wait' = 0 => t <= ts
    BY <1>1, <1>3, <1>5
  <2> QED
    BY <1>3, <2>1
<1> QED
  <2>1. ts' = ts /\ L' = L
    BY <1>4 DEF ts, L, Poll!Ts, Poll!Wrap, Poll!Limit
  <2>2. \A s \in 1..Socks : Poll!IsDue(ts, due[s]) => Poll!IsDue(ts', due'[s])
    BY <1>4, <2>1
  <2> QED
    BY <1>4, <1>6, <1>7, <1>8, <1>9, <2>1, <2>2 DEF PollWay, Poll!IsDue, Poll!Infinite, ts, L

LEMMA PollWayAct ==
  ASSUME PollAsBuilt, PollWay, Poll!Act
  PROVE  PollWay'
<1> DEFINE L == Poll!Limit
           Acts(busy) == busy \cup {s \in 1..Socks : Poll!IsDue(Poll!Ts', due[s])}
<1>1. /\ PollMax \in Nat \ {0} /\ L \in Nat \ {0}
      /\ now \in Even /\ wait \in 0..PollMax /\ Durs \subseteq Even
  BY DueTimes DEF PollAsBuilt, PollWay, Dues, Even
<1>2. PICK acts \in SUBSET (1..Socks), n \in {k \in 0..wait : k % 2 = 0} :
        /\ {s \in 1..Socks : Poll!IsDue(Poll!Ts', due[s])} \subseteq acts
        /\ polling' = FALSE /\ wait' = wait /\ now' = now + n
        /\ \E dur \in [acts -> Durs \cup {-1}] :
             /\ due' = [s \in 1..Socks |->
                  IF s \notin acts THEN due[s]
                  ELSE IF dur[s] = -1 THEN Poll!Infinite ELSE Poll!Wrap(Poll!Ts' + dur[s])]
             /\ real' = [s \in 1..Socks |->
                  IF s \notin acts THEN real[s]
                  ELSE IF dur[s] = -1 THEN -1 ELSE now' + dur[s]]
  <2>1. PICK busy \in SUBSET (1..Socks), n \in {k \in 0..wait : k % 2 = 0} :
          /\ now' = now + n
          /\ \E dur \in [Acts(busy) -> Durs \cup {-1}] :
               /\ due' = [s \in 1..Socks |->
                    IF s \notin Acts(busy) THEN due[s]
                    ELSE IF dur[s] = -1 THEN Poll!Infinite ELSE Poll!Wrap(Poll!Ts' + dur[s])]
               /\ real' = [s \in 1..Socks |->
                    IF s \notin Acts(busy) THEN real[s]
                    ELSE IF dur[s] = -1 THEN -1 ELSE now' + dur[s]]
    BY DEF Poll!Act, Poll!Tdue, Poll!Infinite, Poll!Wrap, Poll!Limit
  <2>2. polling' = FALSE /\ wait' = wait
    BY DEF Poll!Act
  <2>3. Acts(busy) \in SUBSET (1..Socks)
        /\ {s \in 1..Socks : Poll!IsDue(Poll!Ts', due[s])} \subseteq Acts(busy)
    OBVIOUS
  <2> HIDE DEF Acts
  <2> QED
    BY <2>1, <2>2, <2>3
<1>3. PICK dur \in [acts -> Durs \cup {-1}] :
        /\ due' = [s \in 1..Socks |->
             IF s \notin acts THEN due[s]
             ELSE IF dur[s] = -1 THEN Poll!Infinite ELSE Poll!Wrap(Poll!Ts' + dur[s])]
        /\ real' = [s \in 1..Socks |->
             IF s \notin acts THEN real[s]
             ELSE IF dur[s] = -1 THEN -1 ELSE now' + dur[s]]
  BY <1>2
<1>4. now' \in Even
  <2>1. PICK m \in Nat : now = 2 * m
    BY <1>1 DEF Even
  <2>2. n \in Nat /\ n % 2 = 0
    BY <1>1
  <2>3. PICK j \in Int : n = (2 * j) + (n % 2)
    BY <2>2, Remainder
  <2>4. now' = 2 * (m + j) /\ m + j \in Nat
    BY <1>2, <2>1, <2>2, <2>3
  <2> QED
    BY <2>4 DEF Even
<1>5. ASSUME NEW s \in 1..Socks, s \in acts, dur[s] # -1
      PROVE  /\ real'[s] \in Even /\ due'[s] = Poll!Wrap(real'[s])
             /\ real'[s] >= now'
  <2>1. dur[s] \in Even
    BY <1>1, <1>5
  <2>2. PICK m \in Nat, j \in Nat : now' = 2 * m /\ dur[s] = 2 * j
    BY <1>4, <2>1 DEF Even
  <2>3. real'[s] = now' + dur[s] /\ due'[s] = Poll!Wrap(Poll!Ts' + dur[s])
    BY <1>3, <1>5
  <2>4. real'[s] = 2 * (m + j) /\ m + j \in Nat
    BY <2>2, <2>3
  <2>5. Poll!Ts' = now' % L /\ L' = L
    BY DEF Poll!Ts, Poll!Wrap, Poll!Limit
  <2>6. now' \in Int /\ now' % L \in Int
    BY <1>1, <2>2
  <2> HIDE DEF L
  <2>7. PICK q \in Int : now' = (L * q) + (now' % L)
    BY <1>1, <2>6, Remainder
  <2>8. L * q \in Int
    BY <1>1
  <2>9. ((now' % L) + dur[s]) + (L * q) = real'[s] /\ (now' % L) + dur[s] \in Int
    BY <2>2, <2>3, <2>6, <2>7, <2>8
  <2>10. real'[s] % L = ((now' % L) + dur[s]) % L
    BY <1>1, <2>9, RemainderShift
  <2>11. due'[s] = Poll!Wrap(real'[s])
    BY <2>3, <2>5, <2>10 DEF Poll!Wrap, L
  <2>12. real'[s] \in Even
    BY <2>4 DEF Even
  <2>13. real'[s] >= now'
    BY <2>2, <2>3
  <2> QED
    BY <2>11, <2>12, <2>13
<1>6. ASSUME NEW s \in 1..Socks, s \in acts, dur[s] = -1
      PROVE  real'[s] = -1 /\ due'[s] = Poll!Infinite
  BY <1>3, <1>6
<1>7. ASSUME NEW s \in 1..Socks, s \notin acts
      PROVE  real'[s] = real[s] /\ due'[s] = due[s] /\ ~Poll!IsDue(Poll!Ts', due[s])
  BY <1>2, <1>3, <1>7
<1>8. Dues'
  <2>1. ASSUME NEW s \in 1..Socks
        PROVE  \/ due'[s] = Poll!Infinite /\ real'[s] = -1
               \/ real'[s] \in Even /\ due'[s] = Poll!Wrap(real'[s])
    BY <1>5, <1>6, <1>7 DEF PollWay, Dues
  <2> QED
    BY <1>2, <1>4, <2>1 DEF Dues, Even, Poll!Infinite, Poll!Wrap, Poll!Limit
<1>9. ASSUME now' + PollMax < L, NEW s \in 1..Socks, real'[s] # -1, real'[s] < L
      PROVE  now' <= real'[s]
  <2>1. now' \in Nat /\ now' < L
    BY <1>1, <1>4, <1>9 DEF Even
  <2>2. CASE s \in acts
    BY <1>5, <1>6, <1>9, <2>1, <2>2 DEF Even
  <2>3. CASE s \notin acts
    <3>1. real[s] \in Even /\ real[s] < L /\ due[s] = Poll!Wrap(real[s]) /\ real'[s] = real[s]
      BY <1>7, <1>9, <2>3 DEF PollWay, Dues
    <3>2. due[s] = real[s] /\ due[s] # Poll!Infinite /\ real[s] \in Nat
      BY <3>1, EvenTimes DEF Even, L
    <3>3. Poll!Ts' = now'
      <4>1. Poll!Wrap(now') = now'
        BY <1>4, <2>1, EvenTimes DEF L
      <4> QED
        BY <4>1 DEF Poll!Ts, Poll!Wrap, Poll!Limit
    <3>4. ~(now' >= real[s])
      BY <1>7, <2>3, <3>2, <3>3 DEF Poll!IsDue
    <3> QED
      BY <2>1, <3>1, <3>2, <3>4
  <2> QED
    BY <2>2, <2>3
<1> QED
  <2>1. L' = L
    BY DEF L, Poll!Limit
  <2> QED
    BY <1>1, <1>2, <1>8, <1>9, <2>1 DEF PollWay, L

\* Every poll ends, after PollMax at the latest; and until a time wraps no poll
\* goes on for longer than MinWait after a due time, no socket is called due
\* before its time, and no poll returns at once without one that is: for any
\* number of sockets and any width of the time.
THEOREM PollsAreTimely ==
  Poll!Init /\ [][Poll!Next]_Poll!pvars => []PollTimely
<1>0. PollAsBuilt
  BY PollAssumption
<1>1. Poll!Init => PollWay
  BY <1>0, PollWayInit
<1>2. PollWay /\ [Poll!Next]_Poll!pvars => PollWay'
  <2> SUFFICES ASSUME PollWay, [Poll!Next]_Poll!pvars PROVE PollWay'
    OBVIOUS
  <2>1. CASE Poll!Poll
    BY <1>0, <2>1, PollWayPoll
  <2>2. CASE Poll!Act
    BY <1>0, <2>2, PollWayAct
  <2>3. CASE Poll!Restart
    <3>1. 0 \in Even
      BY DEF Even
    <3>2. 0 \in 0..PollMax
      BY <1>0 DEF PollAsBuilt
    <3> QED
      BY <2>3, <3>1, <3>2 DEF Poll!Restart, PollWay, Dues, Even, Poll!Infinite, Poll!Limit
  <2>4. CASE UNCHANGED Poll!pvars
    BY <2>4 DEF Poll!pvars, PollWay, Dues, Even, Poll!Infinite, Poll!Wrap, Poll!Limit,
                Poll!IsDue, Poll!Ts
  <2> QED
    BY <2>1, <2>2, <2>3, <2>4 DEF Poll!Next
<1>3. PollWay => PollTimely
  <2> SUFFICES ASSUME PollWay PROVE PollTimely
    OBVIOUS
  <2>1. Poll!PollEnds
    BY DEF PollWay, Poll!PollEnds
  <2>2. ASSUME Poll!NotWrapped, NEW s \in 1..Socks
        PROVE  /\ real[s] # -1 => now + (IF polling THEN wait ELSE 0) <= real[s] + MinWait
               /\ Poll!IsDue(Poll!Ts, due[s]) <=> (real[s] # -1 /\ now >= real[s])
    <3>1. /\ now \in Nat /\ PollMax \in Nat /\ MinWait \in Nat /\ wait \in Nat
          /\ polling \in BOOLEAN /\ now < Poll!Limit /\ now \in Even
          /\ now + PollMax < Poll!Limit /\ real[s] < Poll!Limit
      BY <1>0, <2>2, DueTimes DEF PollAsBuilt, PollWay, Dues, Even, Poll!NotWrapped
    <3>2. Poll!Ts = now
      BY <1>0, <3>1, EvenTimes DEF Poll!Ts
    <3>3. CASE due[s] = Poll!Infinite /\ real[s] = -1
      BY <3>3 DEF Poll!IsDue
    <3>4. CASE real[s] \in Even /\ due[s] = Poll!Wrap(real[s])
      <4>1. real[s] \in Nat /\ real[s] # -1
        BY <3>4 DEF Even
      <4>2. due[s] = real[s] /\ due[s] # Poll!Infinite
        BY <1>0, <3>1, <3>4, EvenTimes
      <4>3. now <= real[s] /\ (polling => now + wait <= real[s] + MinWait)
        BY <3>1, <4>1 DEF PollWay
      <4>4. Poll!IsDue(Poll!Ts, due[s]) <=> now >= real[s]
        BY <3>2, <4>2 DEF Poll!IsDue
      <4>5. now + (IF polling THEN wait ELSE 0) <= real[s] + MinWait
        BY <3>1, <4>1, <4>3
      <4> QED
        BY <4>1, <4>4, <4>5
    <3> QED
      BY <3>3, <3>4 DEF PollWay, Dues
  <2>3. Poll!NotWrapped =>
          (polling /\ wait = 0 => \E s \in 1..Socks : Poll!IsDue(Poll!Ts, due[s]))
    BY DEF PollWay, Poll!NotWrapped
  <2> QED
    BY <2>1, <2>2, <2>3 DEF PollTimely, Poll!PollTimely, Poll!TimersExact
<1> QED
  BY <1>1, <1>2, <1>3, PTL

-----------------------------------------------------------------------------
(* The tail queue.                                                         *)

LEMMA MostIs == Queue!Most = Cardinality(Elems)
  BY DEF Queue!Most, Queue!Cardinality, Cardinality

LEMMA SlotFacts ==
  /\ \A h \in Heads : Queue!First(h) \in Queue!Slots
  /\ \A e \in Elems : Queue!Nxt(e) \in Queue!Slots
  /\ \A h \in Heads, e \in Elems : Queue!First(h) # Queue!Nxt(e)
  /\ \A h, g \in Heads : Queue!First(h) = Queue!First(g) => h = g
  /\ \A e, f \in Elems : Queue!Nxt(e) = Queue!Nxt(f) => e = f
  /\ \A e \in Elems : Queue!Nxt(e) \in Queue!Nexts /\ Queue!Nxt(e)[2] = e
  /\ \A h \in Heads : Queue!First(h) \notin Queue!Nexts
  /\ \A s \in Queue!Nexts : \E e \in Elems : s = Queue!Nxt(e)
  /\ Queue!Nexts \subseteq Queue!Slots /\ Queue!NoSlot \notin Queue!Nexts
BY DEF Queue!First, Queue!Nxt, Queue!Slots, Queue!Nexts, Queue!NoSlot

QueueType ==
  /\ slot \in [Queue!Slots -> Elems \cup {Null}]
  /\ last \in [Heads -> Queue!Slots]
  /\ prev \in [Elems -> Queue!Slots \cup {Queue!NoSlot}]

\* The slot that follows the first i elements of list s at head h.
Place(h, s, i) == IF i = 0 THEN Queue!First(h) ELSE Queue!Nxt(s[i])

\* The elements of s, once each, hang from head h in that order: each place
\* points to the next element, which knows the place, and the last to none.
Strung(h, s) ==
  /\ s \in Seq(Elems)
  /\ \A i, j \in 1..Len(s) : s[i] = s[j] => i = j
  /\ \A i \in 1..Len(s) : slot[Place(h, s, i - 1)] = s[i] /\ prev[s[i]] = Place(h, s, i - 1)
  /\ slot[Place(h, s, Len(s))] = Null
  /\ last[h] = Place(h, s, Len(s))

\* A list without repetition is no longer than there are elements.
LEMMA ListFits ==
  ASSUME ElementsFinite, NEW s \in Seq(Elems),
         \A i, j \in 1..Len(s) : s[i] = s[j] => i = j
  PROVE  Queue!Most \in Nat /\ Len(s) \in Nat /\ Len(s) <= Queue!Most
<1>1. Queue!Most \in Nat /\ Len(s) \in Nat
  BY MostIs, FS_CardinalityType, LenProperties DEF ElementsFinite
<1>2. s \in [1..Len(s) -> Elems] /\ IsInjective(s)
  BY DEF IsInjective
<1>3. s \in Injection(1..Len(s), Elems)
  BY <1>2 DEF Injection
<1>4. IsFiniteSet(1..Len(s)) /\ Cardinality(1..Len(s)) = Len(s)
  <2>1. 1 <= Len(s) => Len(s) - 1 + 1 = Len(s)
    BY <1>1
  <2>2. ~(1 <= Len(s)) => Len(s) = 0
    BY <1>1
  <2> QED
    BY <1>1, <2>1, <2>2, FS_Interval
<1>5. Cardinality(1..Len(s)) <= Cardinality(Elems)
  BY <1>3, FS_Injection DEF ElementsFinite, ExistsInjection
<1> QED
  BY <1>1, <1>4, <1>5, MostIs

LEMMA WalkFromIs ==
  ASSUME ElementsFinite, QueueType
  PROVE  \A n \in 0..Queue!Most : Queue!WalkFrom[n] =
           [s \in Queue!Slots |->
              IF slot[s] = Null \/ n = 0 THEN <<>>
              ELSE <<slot[s]>> \o Queue!WalkFrom[n - 1][Queue!Nxt(slot[s])]]
<1> DEFINE V == [Queue!Slots -> Seq(Elems)]
           c == [s \in Queue!Slots |-> <<>>]
           Longer(f) == [s \in Queue!Slots |->
             IF slot[s] = Null THEN <<>> ELSE <<slot[s]>> \o f[Queue!Nxt(slot[s])]]
           up == [p \in V \X (1..Queue!Most) |-> Longer(p[1])]
           Of(f, n) == [s \in Queue!Slots |->
             IF slot[s] = Null \/ n = 0 THEN <<>>
             ELSE <<slot[s]>> \o f[n - 1][Queue!Nxt(slot[s])]]
           Is(g) == g = [n \in 0..Queue!Most |-> Of(g, n)]
<1>1. Queue!Most \in Nat
  BY MostIs, FS_CardinalityType DEF ElementsFinite
<1>2. c \in V
  OBVIOUS
<1>3. ASSUME NEW f \in V PROVE Longer(f) \in V
  <2>1. ASSUME NEW s \in Queue!Slots, slot[s] # Null
        PROVE  <<slot[s]>> \o f[Queue!Nxt(slot[s])] \in Seq(Elems)
    <3>1. slot[s] \in Elems
      BY <2>1 DEF QueueType
    <3>2. f[Queue!Nxt(slot[s])] \in Seq(Elems)
      BY <3>1, SlotFacts
    <3> QED
      BY <3>1, <3>2
  <2> QED
    BY <2>1
<1> HIDE DEF V, Longer, c
<1>4. up \in [V \X (1..Queue!Most) -> V]
  BY <1>3
<1> HIDE DEF up
<1>5. \E g \in [0..Queue!Most -> V] : Stepwise(g, Queue!Most, c, up)
  BY <1>1, <1>2, <1>4, StepwiseExists
<1>6. PICK g \in [0..Queue!Most -> V] :
        \A n \in 0..Queue!Most : g[n] = IF n = 0 THEN c ELSE up[<<g[n - 1], n>>]
  BY <1>5 DEF Stepwise
<1>7. Is(g)
  <2>1. ASSUME NEW n \in 0..Queue!Most PROVE g[n] = Of(g, n)
    <3>1. CASE n = 0
      BY <1>6, <3>1 DEF c
    <3>2. CASE n # 0
      <4>1. g[n - 1] \in V /\ n \in 1..Queue!Most
        BY <1>1, <1>6, <3>2
      <4>2. g[n] = Longer(g[n - 1])
        BY <1>6, <3>2, <4>1 DEF up
      <4> QED
        BY <3>2, <4>2 DEF Longer
    <3> QED
      BY <3>1, <3>2
  <2>2. g = [n \in 0..Queue!Most |-> g[n]]
    BY <1>6
  <2> HIDE DEF Of
  <2> QED
    BY <2>1, <2>2
<1>8. Queue!WalkFrom = CHOOSE f : Is(f)
  BY DEF Queue!WalkFrom
<1>9. Is(Queue!WalkFrom)
  <2> HIDE DEF Is
  <2> QED
    BY <1>7, <1>8
<1> QED
  BY <1>9

LEMMA BackFromIs ==
  ASSUME ElementsFinite, QueueType
  PROVE  \A n \in 0..Queue!Most : Queue!BackFrom[n] =
           [s \in Queue!Slots \cup {Queue!NoSlot} |->
              IF s \notin Queue!Nexts \/ n = 0 THEN <<>>
              ELSE Queue!BackFrom[n - 1][prev[s[2]]] \o <<s[2]>>]
<1> DEFINE W == Queue!Slots \cup {Queue!NoSlot}
           V == [W -> Seq(Elems)]
           c == [s \in W |-> <<>>]
           Longer(f) == [s \in W |->
             IF s \notin Queue!Nexts THEN <<>> ELSE f[prev[s[2]]] \o <<s[2]>>]
           up == [p \in V \X (1..Queue!Most) |-> Longer(p[1])]
           Of(f, n) == [s \in W |->
             IF s \notin Queue!Nexts \/ n = 0 THEN <<>>
             ELSE f[n - 1][prev[s[2]]] \o <<s[2]>>]
           Is(g) == g = [n \in 0..Queue!Most |-> Of(g, n)]
<1>1. Queue!Most \in Nat
  BY MostIs, FS_CardinalityType DEF ElementsFinite
<1>2. c \in V
  OBVIOUS
<1>3. ASSUME NEW f \in V PROVE Longer(f) \in V
  <2>1. ASSUME NEW s \in Queue!Nexts
        PROVE  f[prev[s[2]]] \o <<s[2]>> \in Seq(Elems)
    <3>1. s[2] \in Elems
      BY SlotFacts
    <3>2. prev[s[2]] \in W
      BY <3>1 DEF QueueType
    <3>3. f[prev[s[2]]] \in Seq(Elems)
      BY <3>2
    <3> QED
      BY <3>1, <3>3
  <2> QED
    BY <2>1
<1> HIDE DEF V, Longer, c
<1>4. up \in [V \X (1..Queue!Most) -> V]
  BY <1>3
<1> HIDE DEF up
<1>5. \E g \in [0..Queue!Most -> V] : Stepwise(g, Queue!Most, c, up)
  BY <1>1, <1>2, <1>4, StepwiseExists
<1>6. PICK g \in [0..Queue!Most -> V] :
        \A n \in 0..Queue!Most : g[n] = IF n = 0 THEN c ELSE up[<<g[n - 1], n>>]
  BY <1>5 DEF Stepwise
<1>7. Is(g)
  <2>1. ASSUME NEW n \in 0..Queue!Most PROVE g[n] = Of(g, n)
    <3>1. CASE n = 0
      BY <1>6, <3>1 DEF c
    <3>2. CASE n # 0
      <4>1. g[n - 1] \in V /\ n \in 1..Queue!Most
        BY <1>1, <1>6, <3>2
      <4>2. g[n] = Longer(g[n - 1])
        BY <1>6, <3>2, <4>1 DEF up
      <4> QED
        BY <3>2, <4>2 DEF Longer
    <3> QED
      BY <3>1, <3>2
  <2>2. g = [n \in 0..Queue!Most |-> g[n]]
    BY <1>6
  <2> HIDE DEF Of
  <2> QED
    BY <2>1, <2>2
<1>8. Queue!BackFrom = CHOOSE f : Is(f)
  BY DEF Queue!BackFrom
<1>9. Is(Queue!BackFrom)
  <2> HIDE DEF Is
  <2> QED
    BY <1>7, <1>8
<1> QED
  BY <1>9

LEMMA CutSeq ==
  ASSUME NEW S, NEW s \in Seq(S)
  PROVE  /\ \A i \in 1..Len(s) :
              /\ <<s[i]>> \o SubSeq(s, i + 1, Len(s)) = SubSeq(s, i, Len(s))
              /\ SubSeq(s, 1, i - 1) \o <<s[i]>> = SubSeq(s, 1, i)
         /\ SubSeq(s, 1, Len(s)) = s
         /\ SubSeq(s, Len(s) + 1, Len(s)) = <<>> /\ SubSeq(s, 1, 0) = <<>>
<1> DEFINE m == Len(s)
<1>1. m \in Nat /\ \A i \in 1..m : s[i] \in S
  BY LenProperties, ElementOfSeq
<1>2. ASSUME NEW a \in Int, NEW b \in Int, 1 <= a, b <= m
      PROVE  /\ SubSeq(s, a, b) \in Seq(S)
             /\ Len(SubSeq(s, a, b)) = IF a <= b THEN b - a + 1 ELSE 0
             /\ \A i \in 1..b - a + 1 : SubSeq(s, a, b)[i] = s[a + i - 1]
  <2>1. \A i \in a..b : s[i] \in S
    BY <1>1, <1>2
  <2> QED
    BY <2>1, SubSeqProperties
<1> HIDE DEF m
<1>3. ASSUME NEW i \in 1..m PROVE <<s[i]>> \o SubSeq(s, i + 1, m) = SubSeq(s, i, m)
  <2> DEFINE t == SubSeq(s, i + 1, m)
             u == SubSeq(s, i, m)
  <2>1. t \in Seq(S) /\ Len(t) = m - i /\ \A j \in 1..m - i : t[j] = s[i + j]
    <3>1. \A j \in Int : (i + 1) + j - 1 = i + j
      BY <1>1
    <3> QED
      BY <1>1, <1>2, <3>1
  <2>2. u \in Seq(S) /\ Len(u) = m - i + 1 /\ \A j \in 1..m - i + 1 : u[j] = s[i + j - 1]
    BY <1>1, <1>2
  <2>3. <<s[i]>> \in Seq(S) /\ Len(<<s[i]>>) = 1 /\ <<s[i]>>[1] = s[i]
    BY <1>1
  <2> HIDE DEF t, u
  <2>4. /\ <<s[i]>> \o t \in Seq(S) /\ Len(<<s[i]>> \o t) = m - i + 1
        /\ \A j \in 1..m - i + 1 :
             (<<s[i]>> \o t)[j] = IF j <= 1 THEN s[i] ELSE t[j - 1]
    <3>1. 1 + (m - i) = m - i + 1
      BY <1>1
    <3>2. \A j \in 1..m - i + 1 : j <= 1 => j = 1
      BY <1>1
    <3> QED
      BY <2>1, <2>3, <3>1, <3>2, ConcatProperties
  <2>5. ASSUME NEW j \in 1..m - i + 1 PROVE (<<s[i]>> \o t)[j] = u[j]
    <3>1. CASE j = 1
      <4>1. i + 1 - 1 = i
        BY <1>1
      <4> QED
        BY <1>1, <2>2, <2>4, <3>1, <4>1
    <3>2. CASE j # 1
      <4>1. j - 1 \in 1..m - i /\ i + (j - 1) = i + j - 1 /\ ~(j <= 1)
        BY <1>1, <3>2
      <4> QED
        BY <2>1, <2>2, <2>4, <4>1
    <3> QED
      BY <3>1, <3>2
  <2>6. <<s[i]>> \o t = u
    BY <2>2, <2>4, <2>5, SeqEqual
  <2> QED
    BY <2>6 DEF t, u
<1>4. ASSUME NEW i \in 1..m PROVE SubSeq(s, 1, i - 1) \o <<s[i]>> = SubSeq(s, 1, i)
  <2> DEFINE t == SubSeq(s, 1, i - 1)
             u == SubSeq(s, 1, i)
  <2>1. t \in Seq(S) /\ Len(t) = i - 1 /\ \A j \in 1..i - 1 : t[j] = s[j]
    <3>1. /\ i - 1 \in Int /\ i - 1 <= m /\ (i - 1) - 1 + 1 = i - 1
          /\ \A j \in Int : 1 + j - 1 = j
      BY <1>1
    <3>2. ~(1 <= i - 1) => i - 1 = 0
      BY <1>1
    <3> QED
      BY <1>2, <3>1, <3>2
  <2>2. u \in Seq(S) /\ Len(u) = i /\ \A j \in 1..i : u[j] = s[j]
    <3>1. i \in Int /\ i <= m /\ i - 1 + 1 = i /\ \A j \in Int : 1 + j - 1 = j
      BY <1>1
    <3> QED
      BY <1>2, <3>1
  <2>3. <<s[i]>> \in Seq(S) /\ Len(<<s[i]>>) = 1 /\ <<s[i]>>[1] = s[i]
    BY <1>1
  <2> HIDE DEF t, u
  <2>4. /\ t \o <<s[i]>> \in Seq(S) /\ Len(t \o <<s[i]>>) = i
        /\ \A j \in 1..i :
             (t \o <<s[i]>>)[j] = IF j <= i - 1 THEN t[j] ELSE <<s[i]>>[j - (i - 1)]
    <3>1. (i - 1) + 1 = i
      BY <1>1
    <3> QED
      BY <2>1, <2>3, <3>1, ConcatProperties
  <2>5. ASSUME NEW j \in 1..i PROVE (t \o <<s[i]>>)[j] = u[j]
    <3>1. CASE j = i
      <4>1. ~(j <= i - 1) /\ j - (i - 1) = 1
        BY <1>1, <3>1
      <4> QED
        BY <2>2, <2>3, <2>4, <3>1, <4>1
    <3>2. CASE j # i
      <4>1. j \in 1..i - 1 /\ j <= i - 1
        BY <1>1, <3>2
      <4> QED
        BY <2>1, <2>2, <2>4, <4>1
    <3> QED
      BY <3>1, <3>2
  <2>6. t \o <<s[i]>> = u
    BY <2>2, <2>4, <2>5, SeqEqual
  <2> QED
    BY <2>6 DEF t, u
<1>5. SubSeq(s, 1, m) = s
  <2> DEFINE t == SubSeq(s, 1, m)
  <2>1. t \in Seq(S) /\ Len(t) = m /\ \A j \in 1..m : t[j] = s[j]
    <3>1. m - 1 + 1 = m /\ (\A j \in Int : 1 + j - 1 = j) /\ (~(1 <= m) => m = 0)
      BY <1>1
    <3> QED
      BY <1>1, <1>2, <3>1
  <2> HIDE DEF t
  <2>2. t = s
    BY <2>1, SeqEqual DEF m
  <2> QED
    BY <2>2 DEF t
<1>6. SubSeq(s, m + 1, m) = <<>> /\ SubSeq(s, 1, 0) = <<>>
  BY <1>1, SubSeqEmpty
<1> QED
  BY <1>3, <1>4, <1>5, <1>6 DEF m

LEMMA PlaceIn ==
  ASSUME NEW h \in Heads, NEW s \in Seq(Elems), NEW i \in 0..Len(s)
  PROVE  /\ Place(h, s, i) \in Queue!Slots
         /\ i # 0 => s[i] \in Elems /\ Place(h, s, i) = Queue!Nxt(s[i])
         /\ i = 0 => Place(h, s, i) = Queue!First(h)
<1>1. i # 0 => s[i] \in Elems
  BY LenProperties, ElementOfSeq
<1> QED
  BY <1>1, SlotFacts DEF Place

\* The way along what hangs from a head gives the list, and so does the way
\* back.
LEMMA WalkIs ==
  ASSUME ElementsFinite, QueueType, NEW h \in Heads, NEW s, Strung(h, s)
  PROVE  Queue!Walk(h) = s
<1> DEFINE m == Len(s)
           N == Queue!Most
           Right(j) == \A n \in j..N :
             Queue!WalkFrom[n][Place(h, s, m - j)] = SubSeq(s, m - j + 1, m)
           H == {j \in 0..m : Right(j)}
<1>1. /\ s \in Seq(Elems) /\ m \in Nat /\ N \in Nat /\ m <= N
      /\ \A i \in 1..m : s[i] \in Elems /\ slot[Place(h, s, i - 1)] = s[i]
      /\ slot[Place(h, s, m)] = Null
  BY ListFits, ElementOfSeq DEF Strung
<1> HIDE DEF m, N
<1>2. ASSUME NEW n \in 0..N, NEW x \in Queue!Slots
      PROVE  Queue!WalkFrom[n][x] =
               IF slot[x] = Null \/ n = 0 THEN <<>>
               ELSE <<slot[x]>> \o Queue!WalkFrom[n - 1][Queue!Nxt(slot[x])]
  BY WalkFromIs DEF N
<1>3. Right(0)
  <2>1. SubSeq(s, m - 0 + 1, m) = <<>> /\ m - 0 = m
    <3>1. m - 0 + 1 = m + 1 /\ m - 0 = m
      BY <1>1
    <3> QED
      BY <1>1, <3>1, CutSeq DEF m
  <2>2. Place(h, s, m) \in Queue!Slots
    BY <1>1, PlaceIn DEF m
  <2> QED
    BY <1>1, <1>2, <2>1, <2>2
<1>4. ASSUME NEW j \in 0..m, j < m, Right(j) PROVE Right(j + 1)
  <2> DEFINE i == m - j
  <2>1. i \in 1..m /\ m - (j + 1) = i - 1 /\ i - 1 \in 0..m /\ m - (j + 1) + 1 = i
    BY <1>1, <1>4
  <2>2. SUFFICES ASSUME NEW n \in j + 1..N
                 PROVE  Queue!WalkFrom[n][Place(h, s, i - 1)] = SubSeq(s, i, m)
    BY <2>1
  <2>3. n \in 0..N /\ n # 0 /\ n - 1 \in j..N
    BY <1>1
  <2>4. Queue!WalkFrom[n - 1][Place(h, s, i)] = SubSeq(s, i + 1, m)
    BY <1>4, <2>3
  <2> HIDE DEF i
  <2>5. /\ Place(h, s, i - 1) \in Queue!Slots /\ Place(h, s, i) = Queue!Nxt(s[i])
        /\ slot[Place(h, s, i - 1)] = s[i] /\ s[i] # Null
    <3>1. i \in 0..m /\ i # 0
      BY <1>1, <2>1
    <3> QED
      BY <1>1, <2>1, <3>1, PlaceIn DEF m, ElementsFinite
  <2>6. Queue!WalkFrom[n][Place(h, s, i - 1)] = <<s[i]>> \o SubSeq(s, i + 1, m)
    BY <1>2, <2>3, <2>4, <2>5
  <2>7. <<s[i]>> \o SubSeq(s, i + 1, m) = SubSeq(s, i, m)
    BY <1>1, <2>1, CutSeq DEF m
  <2> QED
    BY <2>6, <2>7
<1>5. 0 \in H /\ \A j \in 0..m : j < m /\ j \in H => j + 1 \in H
  <2> HIDE DEF Right
  <2> QED
    BY <1>1, <1>3, <1>4
<1> HIDE DEF H
<1>6. m \in H
  <2>1. \A j \in 0..m : j \in H
    BY <1>1, <1>5, AllNumbers
  <2> QED
    BY <1>1, <2>1
<1>7. Queue!WalkFrom[N][Place(h, s, m - m)] = SubSeq(s, m - m + 1, m)
  BY <1>1, <1>6 DEF H
<1>8. m - m = 0 /\ m - m + 1 = 1
  BY <1>1
<1> QED
  BY <1>1, <1>7, <1>8, CutSeq DEF Queue!Walk, Place, N, m

LEMMA WalkBackIs ==
  ASSUME ElementsFinite, QueueType, NEW h \in Heads, NEW s, Strung(h, s)
  PROVE  Queue!WalkBack(h) = s
<1> DEFINE m == Len(s)
           N == Queue!Most
           Right(j) == \A n \in j..N :
             Queue!BackFrom[n][Place(h, s, j)] = SubSeq(s, 1, j)
           H == {j \in 0..m : Right(j)}
<1>1. /\ s \in Seq(Elems) /\ m \in Nat /\ N \in Nat /\ m <= N
      /\ \A i \in 1..m : s[i] \in Elems /\ prev[s[i]] = Place(h, s, i - 1)
      /\ last[h] = Place(h, s, m)
  BY ListFits, ElementOfSeq DEF Strung
<1> HIDE DEF m, N
<1>2. ASSUME NEW n \in 0..N, NEW x \in Queue!Slots
      PROVE  Queue!BackFrom[n][x] =
               IF x \notin Queue!Nexts \/ n = 0 THEN <<>>
               ELSE Queue!BackFrom[n - 1][prev[x[2]]] \o <<x[2]>>
  BY BackFromIs DEF N
<1>3. Right(0)
  <2>1. SubSeq(s, 1, 0) = <<>>
    BY <1>1, CutSeq DEF m
  <2>2. Place(h, s, 0) \in Queue!Slots /\ Place(h, s, 0) \notin Queue!Nexts
    BY SlotFacts DEF Place
  <2> QED
    BY <1>1, <1>2, <2>1, <2>2
<1>4. ASSUME NEW j \in 0..m, j < m, Right(j) PROVE Right(j + 1)
  <2> DEFINE i == j + 1
  <2>1. i \in 1..m /\ i - 1 = j
    BY <1>1, <1>4
  <2>2. SUFFICES ASSUME NEW n \in i..N
                 PROVE  Queue!BackFrom[n][Place(h, s, i)] = SubSeq(s, 1, i)
    OBVIOUS
  <2>3. n \in 0..N /\ n # 0 /\ n - 1 \in j..N
    BY <1>1
  <2>4. Queue!BackFrom[n - 1][Place(h, s, i - 1)] = SubSeq(s, 1, i - 1)
    BY <1>4, <2>1, <2>3
  <2> HIDE DEF i
  <2>5. /\ Place(h, s, i) \in Queue!Slots /\ Place(h, s, i) = Queue!Nxt(s[i])
        /\ Queue!Nxt(s[i]) \in Queue!Nexts /\ Queue!Nxt(s[i])[2] = s[i]
        /\ prev[s[i]] = Place(h, s, i - 1)
    <3>1. i \in 0..m /\ i # 0
      BY <1>1, <2>1
    <3> QED
      BY <1>1, <2>1, <3>1, PlaceIn, SlotFacts DEF m
  <2>6. Queue!BackFrom[n][Place(h, s, i)] = SubSeq(s, 1, i - 1) \o <<s[i]>>
    <3> DEFINE x == Place(h, s, i)
    <3>1. x \in Queue!Slots /\ x \in Queue!Nexts /\ x[2] = s[i]
      BY <2>5
    <3>2. prev[x[2]] = Place(h, s, i - 1)
      BY <2>5, <3>1
    <3> HIDE DEF x
    <3>3. Queue!BackFrom[n][x] = Queue!BackFrom[n - 1][prev[x[2]]] \o <<x[2]>>
      BY <1>2, <2>3, <3>1
    <3> QED
      BY <2>4, <3>1, <3>2, <3>3 DEF x
  <2>7. SubSeq(s, 1, i - 1) \o <<s[i]>> = SubSeq(s, 1, i)
    BY <1>1, <2>1, CutSeq DEF m
  <2> QED
    BY <2>6, <2>7
<1>5. 0 \in H /\ \A j \in 0..m : j < m /\ j \in H => j + 1 \in H
  <2> HIDE DEF Right
  <2> QED
    BY <1>1, <1>3, <1>4
<1> HIDE DEF H
<1>6. m \in H
  <2>1. \A j \in 0..m : j \in H
    BY <1>1, <1>5, AllNumbers
  <2> QED
    BY <1>1, <2>1
<1>7. Queue!BackFrom[N][Place(h, s, m)] = SubSeq(s, 1, m)
  BY <1>1, <1>6 DEF H
<1> QED
  BY <1>1, <1>7, CutSeq DEF Queue!WalkBack, N, m

-----------------------------------------------------------------------------
(* Lists with an element more, less or another.                            *)

LEMMA SubSeqIs ==
  ASSUME NEW S, NEW s \in Seq(S), NEW a \in 1..Len(s) + 1, NEW b \in 0..Len(s), a <= b + 1
  PROVE  /\ SubSeq(s, a, b) \in Seq(S) /\ Len(SubSeq(s, a, b)) = b - a + 1
         /\ \A i \in 1..b - a + 1 : SubSeq(s, a, b)[i] = s[a + i - 1]
<1>1. Len(s) \in Nat /\ \A i \in 1..Len(s) : s[i] \in S
  BY LenProperties, ElementOfSeq
<1>2. a \in Int /\ b \in Int /\ (~(a <= b) => b - a + 1 = 0) /\ a..b \subseteq 1..Len(s)
  BY <1>1
<1> QED
  BY <1>1, <1>2, SubSeqProperties

LEMMA RestIs ==
  ASSUME NEW S, NEW s \in Seq(S), NEW p \in 0..Len(s), NEW y,
         y = SubSeq(s, p + 1, Len(s))
  PROVE  /\ y \in Seq(S) /\ Len(y) = Len(s) - p
         /\ \A i \in 1..Len(s) - p : y[i] = s[p + i]
<1>1. Len(s) \in Nat
  BY LenProperties
<1>2. p + 1 \in 1..Len(s) + 1 /\ Len(s) \in 0..Len(s) /\ p + 1 <= Len(s) + 1
  BY <1>1
<1>3. /\ y \in Seq(S) /\ Len(y) = Len(s) - (p + 1) + 1
      /\ \A i \in 1..Len(s) - (p + 1) + 1 : y[i] = s[(p + 1) + i - 1]
  BY <1>2, SubSeqIs
<1>4. Len(s) - (p + 1) + 1 = Len(s) - p
  BY <1>1
<1>5. ASSUME NEW i \in 1..Len(s) - p PROVE y[i] = s[p + i]
  <2>1. i \in 1..Len(s) - (p + 1) + 1
    BY <1>4
  <2>2. (p + 1) + i - 1 = p + i
    BY <1>1
  <2>3. y[i] = s[(p + 1) + i - 1]
    BY <1>3, <2>1
  <2> QED
    BY <2>2, <2>3
<1>6. Len(y) = Len(s) - p
  BY <1>3, <1>4
<1> QED
  BY <1>3, <1>5, <1>6

\* t is s with e after p elements, in place of the next when d is 1.
PutList(t, s, p, d, e) ==
  /\ t \in Seq(Elems) /\ Len(t) = Len(s) + 1 - d
  /\ \A i \in 1..p : t[i] = s[i]
  /\ t[p + 1] = e
  /\ \A i \in p + 2..Len(t) : t[i] = s[i - 1 + d]

\* t is s without element p.
CutList(t, s, p) ==
  /\ t \in Seq(Elems) /\ Len(t) = Len(s) - 1
  /\ \A i \in 1..p - 1 : t[i] = s[i]
  /\ \A i \in p..Len(s) - 1 : t[i] = s[i + 1]

LEMMA InsertedList ==
  ASSUME NEW s \in Seq(Elems), NEW p \in 0..Len(s), NEW e \in Elems, NEW t,
         t = Queue!SX!InsertAt(s, p + 1, e)
  PROVE  /\ PutList(t, s, p, 0, e)
         /\ p = 0 => t = <<e>> \o s
         /\ p = Len(s) => t = Append(s, e)
<1> DEFINE m == Len(s)
           x == SubSeq(s, 1, p)
           y == SubSeq(s, p + 1, m)
           xe == x \o <<e>>
<1>1. m \in Nat
  BY LenProperties
<1>2. t = xe \o y
  <2>1. (p + 1) - 1 = p
    BY <1>1
  <2> QED
    BY <2>1 DEF Queue!SX!InsertAt
<1>3. x \in Seq(Elems) /\ Len(x) = p /\ \A i \in 1..p : x[i] = s[i]
  <2>1. /\ 1 \in 1..Len(s) + 1 /\ 1 <= p + 1 /\ p - 1 + 1 = p
        /\ \A i \in 1..p : 1 + i - 1 = i
    BY <1>1
  <2> QED
    BY <2>1, SubSeqIs
<1>4. y \in Seq(Elems) /\ Len(y) = m - p /\ \A i \in 1..m - p : y[i] = s[p + i]
  <2>1. p \in 0..Len(s)
    BY <1>1
  <2> QED
    BY <2>1, RestIs
<1>5. <<e>> \in Seq(Elems) /\ Len(<<e>>) = 1 /\ <<e>>[1] = e
  OBVIOUS
<1> HIDE DEF x, y, m
<1>6. /\ xe \in Seq(Elems) /\ Len(xe) = p + 1
      /\ \A i \in 1..p + 1 : xe[i] = IF i <= p THEN x[i] ELSE <<e>>[i - p]
  BY <1>3, <1>5, ConcatProperties
<1> HIDE DEF xe
<1>7. /\ t \in Seq(Elems) /\ Len(t) = m + 1
      /\ \A i \in 1..m + 1 : t[i] = IF i <= p + 1 THEN xe[i] ELSE y[i - (p + 1)]
  <2>1. (p + 1) + (m - p) = m + 1
    BY <1>1 DEF m
  <2>2. xe \o y \in Seq(Elems) /\ Len(xe \o y) = Len(xe) + Len(y)
        /\ \A i \in 1..Len(xe) + Len(y) :
             (xe \o y)[i] = IF i <= Len(xe) THEN xe[i] ELSE y[i - Len(xe)]
    BY <1>4, <1>6, ConcatProperties
  <2>3. Len(xe) = p + 1 /\ Len(xe) + Len(y) = m + 1
    BY <1>4, <1>6, <2>1
  <2> QED
    BY <1>2, <2>2, <2>3
<1>8. ASSUME NEW i \in 1..p PROVE t[i] = s[i]
  <2>1. i \in 1..m + 1 /\ i \in 1..p + 1 /\ i <= p + 1 /\ i <= p
    BY <1>1 DEF m
  <2> QED
    BY <1>3, <1>6, <1>7, <2>1
<1>9. t[p + 1] = e
  <2>1. p + 1 \in 1..m + 1 /\ p + 1 \in 1..p + 1 /\ p + 1 <= p + 1 /\ ~(p + 1 <= p) /\ (p + 1) - p = 1
    BY <1>1 DEF m
  <2> QED
    BY <1>5, <1>6, <1>7, <2>1
<1>10. ASSUME NEW i \in p + 2..m + 1 PROVE t[i] = s[i - 1]
  <2>1. /\ i \in 1..m + 1 /\ ~(i <= p + 1) /\ i - (p + 1) \in 1..m - p
        /\ p + (i - (p + 1)) = i - 1
    BY <1>1 DEF m
  <2> QED
    BY <1>4, <1>7, <2>1
<1>11. p = 0 => t = <<e>> \o s
  <2> SUFFICES ASSUME p = 0 PROVE t = <<e>> \o s
    OBVIOUS
  <2>1. x = <<>> /\ y = s
    BY CutSeq DEF x, y, m
  <2>2. xe = <<e>>
    BY <1>5, <2>1, ConcatEmptySeq DEF xe
  <2> QED
    BY <1>2, <2>1, <2>2
<1>12. p = m => t = Append(s, e)
  <2> SUFFICES ASSUME p = m PROVE t = Append(s, e)
    OBVIOUS
  <2>1. x = s /\ y = <<>>
    BY CutSeq DEF x, y, m
  <2>2. t = s \o <<e>>
    BY <1>2, <1>6, <2>1, ConcatEmptySeq DEF xe
  <2> QED
    BY <2>2, AppendIsConcat
<1>13. PutList(t, s, p, 0, e)
  <2>1. m + 1 - 0 = m + 1 /\ \A i \in p + 2..m + 1 : i - 1 + 0 = i - 1
    BY <1>1
  <2> QED
    BY <1>7, <1>8, <1>9, <1>10, <2>1 DEF PutList, m
<1> QED
  BY <1>11, <1>12, <1>13 DEF m

LEMMA RemovedList ==
  ASSUME NEW s \in Seq(Elems), NEW p \in 1..Len(s), NEW t,
         t = Queue!SX!RemoveAt(s, p)
  PROVE  CutList(t, s, p)
<1> DEFINE m == Len(s)
           x == SubSeq(s, 1, p - 1)
           y == SubSeq(s, p + 1, m)
<1>1. m \in Nat
  BY LenProperties
<1>2. t = x \o y
  BY DEF Queue!SX!RemoveAt
<1>3. x \in Seq(Elems) /\ Len(x) = p - 1 /\ \A i \in 1..p - 1 : x[i] = s[i]
  <2>1. /\ 1 \in 1..Len(s) + 1 /\ p - 1 \in 0..Len(s) /\ 1 <= (p - 1) + 1
        /\ (p - 1) - 1 + 1 = p - 1 /\ \A i \in 1..p - 1 : 1 + i - 1 = i
    BY <1>1
  <2> QED
    BY <2>1, SubSeqIs
<1>4. y \in Seq(Elems) /\ Len(y) = m - p /\ \A i \in 1..m - p : y[i] = s[p + i]
  <2>1. p \in 0..Len(s)
    BY <1>1
  <2> QED
    BY <2>1, RestIs
<1> HIDE DEF x, y, m
<1>5. /\ t \in Seq(Elems) /\ Len(t) = m - 1
      /\ \A i \in 1..m - 1 : t[i] = IF i <= p - 1 THEN x[i] ELSE y[i - (p - 1)]
  <2>1. (p - 1) + (m - p) = m - 1
    BY <1>1 DEF m
  <2> QED
    BY <1>2, <1>3, <1>4, <2>1, ConcatProperties
<1>6. ASSUME NEW i \in 1..p - 1 PROVE t[i] = s[i]
  <2>1. i \in 1..m - 1 /\ i <= p - 1
    BY <1>1 DEF m
  <2> QED
    BY <1>3, <1>5, <2>1
<1>7. ASSUME NEW i \in p..m - 1 PROVE t[i] = s[i + 1]
  <2>1. /\ i \in 1..m - 1 /\ ~(i <= p - 1) /\ i - (p - 1) \in 1..m - p
        /\ p + (i - (p - 1)) = i + 1
    BY <1>1 DEF m
  <2> QED
    BY <1>4, <1>5, <2>1
<1> QED
  BY <1>5, <1>6, <1>7 DEF CutList, m

LEMMA ReplacedList ==
  ASSUME NEW s \in Seq(Elems), NEW p \in 1..Len(s), NEW e \in Elems, NEW t,
         t = Queue!SX!ReplaceAt(s, p, e)
  PROVE  PutList(t, s, p - 1, 1, e)
<1>1. t = [s EXCEPT ![p] = e]
  BY DEF Queue!SX!ReplaceAt
<1>2. /\ t \in Seq(Elems) /\ Len(t) = Len(s)
      /\ \A i \in 1..Len(s) : t[i] = IF i = p THEN e ELSE s[i]
  BY <1>1, ExceptSeq
<1>3. Len(s) \in Nat
  BY LenProperties
<1>4. /\ Len(s) + 1 - 1 = Len(s) /\ (p - 1) + 1 = p
      /\ \A i \in 1..p - 1 : i \in 1..Len(s) /\ i # p
      /\ \A i \in (p - 1) + 2..Len(s) : i \in 1..Len(s) /\ i # p /\ i - 1 + 1 = i
  BY <1>3
<1> QED
  BY <1>2, <1>4 DEF PutList

-----------------------------------------------------------------------------
(* What hangs from the heads.                                              *)

Listed(l) ==
  /\ \A h \in Heads : Strung(h, l[h])
  /\ \A h, g \in Heads : h # g =>
       \A i \in 1..Len(l[h]), j \in 1..Len(l[g]) : l[h][i] # l[g][j]

Outside(l, e) == \A h \in Heads : \A i \in 1..Len(l[h]) : l[h][i] # e

\* What that says of the list s of head h.
Hangs(h, s) ==
  /\ s \in Seq(Elems) /\ Len(s) \in Nat
  /\ \A i \in 1..Len(s) :
       /\ s[i] \in Elems /\ s[i] # Null
       /\ slot[Place(h, s, i - 1)] = s[i] /\ prev[s[i]] = Place(h, s, i - 1)
       /\ Place(h, s, i) = Queue!Nxt(s[i])
  /\ Place(h, s, 0) = Queue!First(h)
  /\ slot[Place(h, s, Len(s))] = Null /\ last[h] = Place(h, s, Len(s))
  /\ \A i \in 0..Len(s) : Place(h, s, i) \in Queue!Slots
  /\ \A i, j \in 1..Len(s) : s[i] = s[j] => i = j
  /\ \A i, j \in 0..Len(s) : Place(h, s, i) = Place(h, s, j) => i = j

LEMMA ListFacts ==
  ASSUME ElementsFinite, QueueType, NEW l \in [Heads -> Seq(Elems)], Listed(l),
         NEW h \in Heads
  PROVE  Hangs(h, l[h])
<1> DEFINE s == l[h]
<1>0. s \in Seq(Elems)
  OBVIOUS
<1> HIDE DEF s
<1>1. Strung(h, s)
  BY DEF Listed, s
<1>2. /\ s \in Seq(Elems) /\ Len(s) \in Nat
      /\ \A i, j \in 1..Len(s) : s[i] = s[j] => i = j
      /\ slot[Place(h, s, Len(s))] = Null /\ last[h] = Place(h, s, Len(s))
  BY <1>1, LenProperties DEF Strung
<1>3. ASSUME NEW i \in 1..Len(s)
      PROVE  /\ s[i] \in Elems /\ s[i] # Null
             /\ slot[Place(h, s, i - 1)] = s[i] /\ prev[s[i]] = Place(h, s, i - 1)
             /\ Place(h, s, i) = Queue!Nxt(s[i])
  <2>1. s[i] \in Elems
    BY <1>2, ElementOfSeq
  <2>2. i # 0
    BY <1>2
  <2> QED
    BY <1>1, <2>1, <2>2 DEF Strung, Place, ElementsFinite
<1>4. Place(h, s, 0) = Queue!First(h)
  BY DEF Place
<1>5. \A i \in 0..Len(s) : Place(h, s, i) \in Queue!Slots
  BY <1>2, PlaceIn
<1>6. ASSUME NEW i \in 0..Len(s), NEW j \in 0..Len(s), Place(h, s, i) = Place(h, s, j)
      PROVE  i = j
  <2>1. CASE i = 0 /\ j = 0
    BY <2>1
  <2>2. CASE i = 0 /\ j # 0
    <3>1. j \in 1..Len(s)
      BY <2>2, <1>2
    <3> QED
      BY <1>3, <1>4, <1>6, <2>2, <3>1, SlotFacts
  <2>3. CASE i # 0 /\ j = 0
    <3>1. i \in 1..Len(s)
      BY <2>3, <1>2
    <3> QED
      BY <1>3, <1>4, <1>6, <2>3, <3>1, SlotFacts
  <2>4. CASE i # 0 /\ j # 0
    <3>1. i \in 1..Len(s) /\ j \in 1..Len(s)
      BY <2>4, <1>2
    <3>2. s[i] = s[j]
      BY <1>3, <1>6, <3>1, SlotFacts
    <3> QED
      BY <1>2, <3>1, <3>2
  <2> QED
    BY <2>1, <2>2, <2>3, <2>4
<1> QED
  BY <1>2, <1>3, <1>4, <1>5, <1>6 DEF Hangs, s

LEMMA ListsApart ==
  ASSUME ElementsFinite, QueueType, NEW l \in [Heads -> Seq(Elems)], Listed(l),
         NEW h \in Heads, NEW g \in Heads, h # g
  PROVE  /\ \A i \in 1..Len(l[h]), j \in 1..Len(l[g]) : l[h][i] # l[g][j]
         /\ \A i \in 0..Len(l[h]), j \in 0..Len(l[g]) :
              Place(h, l[h], i) # Place(g, l[g], j)
<1>1. \A i \in 1..Len(l[h]), j \in 1..Len(l[g]) : l[h][i] # l[g][j]
  BY DEF Listed
<1>2. Len(l[h]) \in Nat /\ Len(l[g]) \in Nat
  BY ListFacts DEF Hangs
<1>3. ASSUME NEW i \in 0..Len(l[h]), NEW j \in 0..Len(l[g])
      PROVE  Place(h, l[h], i) # Place(g, l[g], j)
  <2>1. /\ i # 0 => i \in 1..Len(l[h]) /\ l[h][i] \in Elems
                    /\ Place(h, l[h], i) = Queue!Nxt(l[h][i])
        /\ i = 0 => Place(h, l[h], i) = Queue!First(h)
    BY <1>2, ListFacts, PlaceIn DEF Hangs
  <2>2. /\ j # 0 => j \in 1..Len(l[g]) /\ l[g][j] \in Elems
                    /\ Place(g, l[g], j) = Queue!Nxt(l[g][j])
        /\ j = 0 => Place(g, l[g], j) = Queue!First(g)
    BY <1>2, ListFacts, PlaceIn DEF Hangs
  <2> QED
    BY <1>1, <2>1, <2>2, SlotFacts
<1> QED
  BY <1>1, <1>3

LEMMA OutsideApart ==
  ASSUME ElementsFinite, QueueType, NEW l \in [Heads -> Seq(Elems)], Listed(l),
         NEW e \in Elems, Outside(l, e), NEW h \in Heads
  PROVE  /\ \A i \in 1..Len(l[h]) : l[h][i] # e
         /\ \A i \in 0..Len(l[h]) : Place(h, l[h], i) # Queue!Nxt(e)
<1>1. \A i \in 1..Len(l[h]) : l[h][i] # e
  BY DEF Outside
<1>2. Len(l[h]) \in Nat
  BY ListFacts DEF Hangs
<1>3. ASSUME NEW i \in 0..Len(l[h]) PROVE Place(h, l[h], i) # Queue!Nxt(e)
  <2>1. /\ i # 0 => i \in 1..Len(l[h]) /\ l[h][i] \in Elems
                    /\ Place(h, l[h], i) = Queue!Nxt(l[h][i])
        /\ i = 0 => Place(h, l[h], i) = Queue!First(h)
    BY <1>2, ListFacts, PlaceIn DEF Hangs
  <2> QED
    BY <1>1, <2>1, SlotFacts
<1> QED
  BY <1>1, <1>3

\* A list whose places and elements a step leaves alone stays.
LEMMA Untouched ==
  ASSUME ElementsFinite, QueueType, NEW l \in [Heads -> Seq(Elems)], Listed(l),
         NEW g \in Heads, last'[g] = last[g],
         \A i \in 0..Len(l[g]) : slot'[Place(g, l[g], i)] = slot[Place(g, l[g], i)],
         \A i \in 1..Len(l[g]) : prev'[l[g][i]] = prev[l[g][i]]
  PROVE  Strung(g, l[g])'
<1> DEFINE s == l[g]
<1>1. Strung(g, s) /\ Len(s) \in Nat
  BY ListFacts DEF Listed, Hangs
<1>2. ASSUME NEW i \in 1..Len(s)
      PROVE  slot'[Place(g, s, i - 1)] = s[i] /\ prev'[s[i]] = Place(g, s, i - 1)
  <2>1. i - 1 \in 0..Len(s)
    BY <1>1
  <2> QED
    BY <1>1, <2>1 DEF Strung
<1>3. slot'[Place(g, s, Len(s))] = Null /\ last'[g] = Place(g, s, Len(s))
  BY <1>1 DEF Strung
<1> HIDE DEF s
<1>4. Strung(g, s)'
  BY <1>1, <1>2, <1>3 DEF Strung, Place
<1> QED
  BY <1>4 DEF s

\* The lists once that of h is t: t hangs from h, the others still do, and t
\* holds no element of theirs.
LEMMA NewLists ==
  ASSUME NEW l \in [Heads -> Seq(Elems)], Listed(l), NEW h \in Heads, NEW t,
         Strung(h, t)',
         \A g \in Heads : g # h => Strung(g, l[g])',
         \A g \in Heads : g # h =>
           \A i \in 1..Len(t), j \in 1..Len(l[g]) : t[i] # l[g][j]
  PROVE  Listed([l EXCEPT ![h] = t])'
<1> DEFINE k == [l EXCEPT ![h] = t]
<1>1. \A g \in Heads : k[g] = IF g = h THEN t ELSE l[g]
  OBVIOUS
<1> HIDE DEF k
<1>2. \A g \in Heads : Strung(g, k[g])'
  BY <1>1
<1>3. ASSUME NEW f \in Heads, NEW g \in Heads, f # g,
             NEW i \in 1..Len(k[f]), NEW j \in 1..Len(k[g])
      PROVE  k[f][i] # k[g][j]
  <2>1. CASE f = h
    BY <1>1, <1>3, <2>1
  <2>2. CASE g = h
    BY <1>1, <1>3, <2>2
  <2>3. CASE f # h /\ g # h
    BY <1>1, <1>3, <2>3 DEF Listed
  <2> QED
    BY <2>1, <2>2, <2>3
<1>4. Listed(k)'
  BY <1>2, <1>3 DEF Listed
<1> QED
  BY <1>4 DEF k

\* What an insertion (d = 0) or a replacement (d = 1) of e after p elements of
\* the queue of h does to each pointer.
Put(h, s, p, d, e) ==
  LET f == slot[Place(h, s, p + d)] IN
  /\ \A x \in Queue!Slots :
       slot'[x] = IF x = Place(h, s, p) THEN e
                  ELSE IF x = Queue!Nxt(e) THEN f ELSE slot[x]
  /\ \A x \in Elems :
       prev'[x] = IF x = e THEN Place(h, s, p)
                  ELSE IF x = f THEN Queue!Nxt(e) ELSE prev[x]
  /\ \A g \in Heads :
       last'[g] = IF g = h /\ f = Null THEN Queue!Nxt(e) ELSE last[g]

LEMMA PutStep ==
  ASSUME ElementsFinite, QueueType, NEW l \in [Heads -> Seq(Elems)], Listed(l),
         NEW h \in Heads, NEW e \in Elems, Outside(l, e), NEW d \in 0..1,
         NEW p \in 0..Len(l[h]) - d, Put(h, l[h], p, d, e),
         NEW t, PutList(t, l[h], p, d, e)
  PROVE  Listed([l EXCEPT ![h] = t])'
<1> DEFINE s == l[h]
           m == Len(s)
           f == slot[Place(h, s, p + d)]
           n == m + 1 - d
<1>1. /\ s \in Seq(Elems) /\ m \in Nat
      /\ \A i \in 1..m :
           /\ s[i] \in Elems /\ s[i] # Null /\ s[i] # e
           /\ slot[Place(h, s, i - 1)] = s[i] /\ prev[s[i]] = Place(h, s, i - 1)
           /\ Place(h, s, i) = Queue!Nxt(s[i])
      /\ slot[Place(h, s, m)] = Null /\ last[h] = Place(h, s, m)
      /\ \A i \in 0..m : Place(h, s, i) \in Queue!Slots /\ Place(h, s, i) # Queue!Nxt(e)
      /\ \A i, j \in 1..m : s[i] = s[j] => i = j
      /\ \A i, j \in 0..m : Place(h, s, i) = Place(h, s, j) => i = j
      /\ Place(h, s, 0) = Queue!First(h)
  <2>1. Hangs(h, s)
    BY ListFacts
  <2>2. /\ \A i \in 1..m : s[i] # e
        /\ \A i \in 0..m : Place(h, s, i) # Queue!Nxt(e)
    BY OutsideApart
  <2> HIDE DEF s
  <2> QED
    BY <2>1, <2>2 DEF Hangs
<1>2. /\ t \in Seq(Elems) /\ Len(t) = n
      /\ \A i \in 1..p : t[i] = s[i]
      /\ t[p + 1] = e
      /\ \A i \in p + 2..n : t[i] = s[i - 1 + d]
  BY DEF PutList
<1>3. /\ \A x \in Queue!Slots :
           slot'[x] = IF x = Place(h, s, p) THEN e
                      ELSE IF x = Queue!Nxt(e) THEN f ELSE slot[x]
      /\ \A x \in Elems : x # e /\ x # f => prev'[x] = prev[x]
      /\ \A x \in Elems : x # e /\ x = f => prev'[x] = Queue!Nxt(e)
      /\ prev'[e] = Place(h, s, p)
      /\ \A g \in Heads : last'[g] = IF g = h /\ f = Null THEN Queue!Nxt(e) ELSE last[g]
  BY DEF Put
<1>4. /\ p \in Nat /\ d \in {0, 1} /\ p + d \in 0..m /\ p \in 0..m /\ n \in Nat
      /\ p + 1 \in 1..n
  BY <1>1
<1>5. p + d # m => p + d + 1 \in 1..m /\ f = s[p + d + 1]
  <2>1. p + d # m => p + d + 1 \in 1..m /\ (p + d + 1) - 1 = p + d
    BY <1>1, <1>4
  <2> QED
    BY <1>1, <2>1
<1>6. p + d = m => f = Null
  BY <1>1
<1>7. Queue!Nxt(e) \in Queue!Slots
  BY SlotFacts
<1> HIDE DEF s, m, f, n
<1>8. ASSUME NEW i \in 0..n
      PROVE  Place(h, t, i) = IF i <= p THEN Place(h, s, i)
                              ELSE IF i = p + 1 THEN Queue!Nxt(e)
                              ELSE Place(h, s, i - 1 + d)
  <2>1. CASE i = 0
    BY <1>4, <2>1, <1>1 DEF Place
  <2>2. CASE i \in 1..p
    <3>1. i # 0 /\ t[i] = s[i] /\ i <= p
      BY <1>2, <1>4, <2>2
    <3> QED
      BY <3>1 DEF Place
  <2>3. CASE i = p + 1
    <3>1. i # 0 /\ t[i] = e /\ ~(i <= p)
      BY <1>2, <1>4, <2>3
    <3> QED
      BY <2>3, <3>1 DEF Place
  <2>4. CASE i \in p + 2..n
    <3>1. i # 0 /\ t[i] = s[i - 1 + d] /\ ~(i <= p) /\ i # p + 1 /\ i - 1 + d # 0
      BY <1>2, <1>4, <2>4
    <3> QED
      BY <3>1 DEF Place
  <2> QED
    BY <1>4, <2>1, <2>2, <2>3, <2>4
<1>9. ASSUME NEW i \in 1..n
      PROVE  slot'[Place(h, t, i - 1)] = t[i] /\ prev'[t[i]] = Place(h, t, i - 1)
  <2>1. CASE i <= p
    <3>1. /\ i \in 1..p /\ i \in 1..m /\ i - 1 \in 0..n /\ i - 1 \in 0..m
          /\ i - 1 <= p /\ i - 1 # p
      BY <1>1, <1>4, <2>1 DEF n
    <3>2. Place(h, t, i - 1) = Place(h, s, i - 1) /\ t[i] = s[i]
      BY <1>2, <1>8, <3>1
    <3>3. slot'[Place(h, s, i - 1)] = s[i]
      BY <1>1, <1>3, <1>4, <3>1
    <3>4. s[i] # f
      <4>1. i # p + d + 1
        BY <1>4, <3>1
      <4> QED
        BY <1>1, <1>5, <1>6, <3>1, <4>1
    <3>6. prev'[s[i]] = Place(h, s, i - 1)
      BY <1>1, <1>3, <3>1, <3>4
    <3> QED
      BY <3>2, <3>3, <3>6
  <2>2. CASE i = p + 1
    <3>1. i - 1 = p /\ p \in 0..n /\ p <= p
      BY <1>4, <2>2
    <3>2. Place(h, t, i - 1) = Place(h, s, p) /\ t[i] = e
      BY <1>2, <1>8, <2>2, <3>1
    <3> QED
      BY <1>1, <1>3, <1>4, <3>2
  <2>3. CASE i = p + 2
    <3>1. /\ i - 1 = p + 1 /\ i - 1 \in 0..n /\ ~(i - 1 <= p) /\ i \in p + 2..n
          /\ i - 1 + d = p + d + 1 /\ p + d # m
      BY <1>1, <1>4, <2>3 DEF n
    <3>2. Place(h, t, i - 1) = Queue!Nxt(e) /\ t[i] = f
      BY <1>2, <1>5, <1>8, <3>1
    <3>3. slot'[Queue!Nxt(e)] = f
      BY <1>1, <1>3, <1>4, <1>7
    <3>4. f \in Elems /\ f # e
      BY <1>1, <1>5, <3>1
    <3> QED
      BY <1>3, <3>2, <3>3, <3>4
  <2>4. CASE i > p + 2
    <3>1. /\ i - 1 \in 0..n /\ ~(i - 1 <= p) /\ i - 1 # p + 1 /\ i \in p + 2..n
          /\ (i - 1) - 1 + d = (i - 1 + d) - 1 /\ (i - 1 + d) - 1 \in 0..m
          /\ i - 1 + d \in 1..m /\ (i - 1 + d) - 1 # p /\ i - 1 + d # p + d + 1
      <4>1. /\ i \in Int /\ n \in Int /\ m \in Int /\ p \in Int /\ d \in Int /\ 0 <= p
            /\ d = 0 \/ d = 1
            /\ p + 2 < i /\ i <= n
        BY <1>1, <1>4, <2>4
      <4>2. n = m + 1 - d
        BY DEF n
      <4>3. i - 1 \in 0..n /\ ~(i - 1 <= p) /\ i - 1 # p + 1 /\ i \in p + 2..n
        BY <4>1
      <4>4. (i - 1) - 1 + d = (i - 1 + d) - 1 /\ (i - 1 + d) - 1 \in 0..m
        BY <4>1, <4>2
      <4>5. i - 1 + d \in 1..m /\ (i - 1 + d) - 1 # p /\ i - 1 + d # p + d + 1
        BY <4>1, <4>2
      <4> QED
        BY <4>3, <4>4, <4>5
    <3> DEFINE j == i - 1 + d
    <3>2. Place(h, t, i - 1) = Place(h, s, j - 1) /\ t[i] = s[j]
      BY <1>2, <1>8, <3>1
    <3>3. j \in 1..m /\ j - 1 \in 0..m /\ j - 1 # p /\ j # p + d + 1
      BY <3>1
    <3> HIDE DEF j
    <3>5. slot'[Place(h, s, j - 1)] = s[j]
      BY <1>1, <1>3, <1>4, <3>3
    <3>6. s[j] # f
      BY <1>1, <1>5, <1>6, <3>3
    <3>8. prev'[s[j]] = Place(h, s, j - 1)
      BY <1>1, <1>3, <3>3, <3>6
    <3> QED
      BY <3>2, <3>5, <3>8
  <2> QED
    BY <1>4, <2>1, <2>2, <2>3, <2>4
<1>10. slot'[Place(h, t, n)] = Null /\ last'[h] = Place(h, t, n)
  <2>1. CASE p + d = m
    <3>1. n = p + 1 /\ n \in 0..n /\ ~(n <= p)
      BY <1>1, <1>4, <2>1 DEF n
    <3>2. Place(h, t, n) = Queue!Nxt(e)
      BY <1>8, <3>1
    <3> QED
      BY <1>1, <1>3, <1>4, <1>6, <1>7, <2>1, <3>2
  <2>2. CASE p + d # m
    <3>1. n \in 0..n /\ ~(n <= p) /\ n # p + 1 /\ n - 1 + d = m /\ m # p /\ m \in 0..m
      BY <1>1, <1>4, <2>2 DEF n
    <3>2. Place(h, t, n) = Place(h, s, m)
      BY <1>8, <3>1
    <3>3. f # Null
      BY <1>1, <1>5, <2>2
    <3>4. Place(h, s, m) # Place(h, s, p)
      BY <1>1, <1>4, <3>1
    <3> QED
      BY <1>1, <1>3, <3>1, <3>2, <3>3, <3>4
  <2> QED
    BY <2>1, <2>2
<1>11. ASSUME NEW i \in 1..n
       PROVE  \/ t[i] = e /\ i = p + 1
              \/ \E j \in 1..m : t[i] = s[j] /\ i = IF j <= p THEN j ELSE j + 1 - d
  <2>1. CASE i <= p
    <3>1. i \in 1..p /\ i \in 1..m
      BY <1>1, <1>4, <2>1
    <3> QED
      BY <1>2, <2>1, <3>1
  <2>2. CASE i = p + 1
    BY <1>2, <2>2
  <2>3. CASE i > p + 1
    <3> DEFINE j == i - 1 + d
    <3>1. i \in p + 2..n /\ j \in 1..m /\ ~(j <= p) /\ j + 1 - d = i
      <4>1. m \in Nat /\ p \in Nat /\ n = m + 1 - d
        BY <1>1, <1>4 DEF n
      <4> HIDE DEF n, m
      <4> QED
        BY <2>3, <4>1
    <3>2. t[i] = s[j]
      BY <1>2, <3>1
    <3> HIDE DEF j
    <3> QED
      BY <3>1, <3>2
  <2> QED
    BY <1>4, <2>1, <2>2, <2>3
<1>12. ASSUME NEW i \in 1..n, NEW j \in 1..n, t[i] = t[j] PROVE i = j
  <2>1. CASE t[i] = e
    <3>1. \A k \in 1..n : t[k] = e => k = p + 1
      BY <1>1, <1>11
    <3> QED
      BY <1>12, <2>1, <3>1
  <2>2. CASE t[i] # e
    <3>1. PICK k \in 1..m : t[i] = s[k] /\ i = IF k <= p THEN k ELSE k + 1 - d
      BY <1>11, <2>2
    <3>2. PICK q \in 1..m : t[j] = s[q] /\ j = IF q <= p THEN q ELSE q + 1 - d
      BY <1>11, <1>12, <2>2
    <3>3. s[k] = s[q]
      BY <1>12, <3>1, <3>2
    <3>4. \A x, y \in 1..m : s[x] = s[y] => x = y
      BY <1>1
    <3>5. k = q
      BY <3>3, <3>4
    <3> QED
      BY <3>1, <3>2, <3>5
  <2> QED
    BY <2>1, <2>2
<1>13. Strung(h, t)'
  BY <1>2, <1>9, <1>10, <1>12 DEF Strung, Place
<1>14. ASSUME NEW g \in Heads, g # h
       PROVE  /\ \A i \in 1..n, j \in 1..Len(l[g]) : t[i] # l[g][j]
              /\ Strung(g, l[g])'
  <2>1. /\ \A i \in 1..m, j \in 1..Len(l[g]) : s[i] # l[g][j]
        /\ \A i \in 0..m, j \in 0..Len(l[g]) : Place(h, s, i) # Place(g, l[g], j)
    BY <1>14, ListsApart DEF s, m
  <2>2. /\ \A j \in 1..Len(l[g]) : l[g][j] \in Elems /\ l[g][j] # Null /\ l[g][j] # e
        /\ \A j \in 0..Len(l[g]) :
             Place(g, l[g], j) \in Queue!Slots /\ Place(g, l[g], j) # Queue!Nxt(e)
    <3>1. Hangs(g, l[g])
      BY ListFacts
    <3> QED
      BY <3>1, OutsideApart DEF Hangs
  <2>3. \A j \in 1..Len(l[g]) : l[g][j] # f
    BY <1>5, <1>6, <2>1, <2>2
  <2>5. \A i \in 1..n, j \in 1..Len(l[g]) : t[i] # l[g][j]
    BY <1>11, <2>1, <2>2
  <2>6. last'[g] = last[g]
    BY <1>3, <1>14
  <2>7. \A j \in 0..Len(l[g]) : slot'[Place(g, l[g], j)] = slot[Place(g, l[g], j)]
    BY <1>3, <1>4, <2>1, <2>2
  <2>8. \A j \in 1..Len(l[g]) : prev'[l[g][j]] = prev[l[g][j]]
    BY <1>3, <2>2, <2>3
  <2>9. Strung(g, l[g])'
    BY <2>6, <2>7, <2>8, Untouched
  <2> QED
    BY <2>5, <2>9
<1> QED
  BY <1>2, <1>13, <1>14, NewLists

\* What a removal of element p of the queue of h does to each pointer.
Cut(h, s, p) ==
  LET f == slot[Place(h, s, p)] IN
  /\ \A x \in Queue!Slots : slot'[x] = IF x = Place(h, s, p - 1) THEN f ELSE slot[x]
  /\ \A x \in Elems : prev'[x] = IF x = f THEN Place(h, s, p - 1) ELSE prev[x]
  /\ \A g \in Heads :
       last'[g] = IF g = h /\ f = Null THEN Place(h, s, p - 1) ELSE last[g]

LEMMA CutStep ==
  ASSUME ElementsFinite, QueueType, NEW l \in [Heads -> Seq(Elems)], Listed(l),
         NEW h \in Heads, NEW p \in 1..Len(l[h]), Cut(h, l[h], p),
         NEW t, CutList(t, l[h], p)
  PROVE  Listed([l EXCEPT ![h] = t])'
<1> DEFINE s == l[h]
           m == Len(s)
           f == slot[Place(h, s, p)]
<1>1. /\ s \in Seq(Elems) /\ m \in Nat
      /\ \A i \in 1..m :
           /\ s[i] \in Elems /\ s[i] # Null
           /\ slot[Place(h, s, i - 1)] = s[i] /\ prev[s[i]] = Place(h, s, i - 1)
           /\ Place(h, s, i) = Queue!Nxt(s[i])
      /\ slot[Place(h, s, m)] = Null /\ last[h] = Place(h, s, m)
      /\ \A i \in 0..m : Place(h, s, i) \in Queue!Slots
      /\ \A i, j \in 1..m : s[i] = s[j] => i = j
      /\ \A i, j \in 0..m : Place(h, s, i) = Place(h, s, j) => i = j
      /\ Place(h, s, 0) = Queue!First(h)
  BY ListFacts DEF Hangs
<1>2. /\ t \in Seq(Elems) /\ Len(t) = m - 1
      /\ \A i \in 1..p - 1 : t[i] = s[i]
      /\ \A i \in p..m - 1 : t[i] = s[i + 1]
  BY DEF CutList
<1>3. /\ \A x \in Queue!Slots :
           slot'[x] = IF x = Place(h, s, p - 1) THEN f ELSE slot[x]
      /\ \A x \in Elems : prev'[x] = IF x = f THEN Place(h, s, p - 1) ELSE prev[x]
      /\ \A g \in Heads :
           last'[g] = IF g = h /\ f = Null THEN Place(h, s, p - 1) ELSE last[g]
  BY DEF Cut
<1>4. p \in Int /\ m \in Int /\ 1 <= p /\ p <= m /\ p \in 0..m /\ p - 1 \in 0..m /\ m - 1 \in Nat
  BY <1>1
<1>5. p # m => p + 1 \in 1..m /\ f = s[p + 1]
  <2>1. p # m => p + 1 \in 1..m /\ (p + 1) - 1 = p
    BY <1>4
  <2> QED
    BY <1>1, <2>1
<1>6. p = m => f = Null
  BY <1>1
<1> HIDE DEF s, m, f
<1>7. ASSUME NEW i \in 0..m - 1
      PROVE  Place(h, t, i) = IF i < p THEN Place(h, s, i) ELSE Place(h, s, i + 1)
  <2>1. CASE i = 0
    <3>1. i < p
      BY <1>4, <2>1
    <3> QED
      BY <2>1, <3>1 DEF Place
  <2>2. CASE i \in 1..p - 1
    <3>1. i # 0 /\ t[i] = s[i] /\ i < p
      BY <1>2, <1>4, <2>2
    <3> QED
      BY <3>1 DEF Place
  <2>3. CASE i \in p..m - 1
    <3>1. i # 0 /\ t[i] = s[i + 1] /\ ~(i < p) /\ i + 1 # 0
      BY <1>2, <1>4, <2>3
    <3> QED
      BY <3>1 DEF Place
  <2>4. i = 0 \/ i \in 1..p - 1 \/ i \in p..m - 1
    BY <1>4
  <2> QED
    BY <2>1, <2>2, <2>3, <2>4
<1>8. ASSUME NEW i \in 1..m - 1
      PROVE  slot'[Place(h, t, i - 1)] = t[i] /\ prev'[t[i]] = Place(h, t, i - 1)
  <2>0. i \in Int /\ 1 <= i /\ i <= m - 1
    BY <1>4
  <2>1. CASE i < p
    <3>1. /\ i \in 1..p - 1 /\ i \in 1..m /\ i - 1 \in 0..m - 1 /\ i - 1 \in 0..m
          /\ i - 1 < p /\ i - 1 # p - 1 /\ i # p + 1
      BY <1>4, <2>0, <2>1
    <3>2. Place(h, t, i - 1) = Place(h, s, i - 1) /\ t[i] = s[i]
      BY <1>2, <1>7, <3>1
    <3>3. slot'[Place(h, s, i - 1)] = s[i]
      BY <1>1, <1>3, <1>4, <3>1
    <3>4. s[i] # f
      BY <1>1, <1>5, <1>6, <3>1
    <3>5. prev'[s[i]] = Place(h, s, i - 1)
      BY <1>1, <1>3, <3>1, <3>4
    <3> QED
      BY <3>2, <3>3, <3>5
  <2>2. CASE i = p
    <3>1. /\ i \in p..m - 1 /\ i - 1 \in 0..m - 1 /\ i - 1 < p /\ i - 1 = p - 1
          /\ i + 1 = p + 1 /\ p # m
      BY <1>4, <2>0, <2>2
    <3>2. Place(h, t, i - 1) = Place(h, s, p - 1) /\ t[i] = f
      BY <1>2, <1>5, <1>7, <3>1
    <3>3. f \in Elems
      BY <1>1, <1>5, <3>1
    <3> QED
      BY <1>1, <1>3, <1>4, <3>2, <3>3
  <2>3. CASE i > p
    <3> DEFINE j == i + 1
    <3>1. /\ i \in p..m - 1 /\ j \in 1..m /\ i - 1 \in 0..m - 1 /\ ~(i - 1 < p)
          /\ i - 1 + 1 = j - 1 /\ j - 1 \in 0..m /\ j - 1 # p - 1 /\ j # p + 1
      BY <1>4, <2>0, <2>3
    <3>2. Place(h, t, i - 1) = Place(h, s, j - 1) /\ t[i] = s[j]
      BY <1>2, <1>7, <3>1
    <3> HIDE DEF j
    <3>3. slot'[Place(h, s, j - 1)] = s[j]
      BY <1>1, <1>3, <1>4, <3>1
    <3>4. s[j] # f
      BY <1>1, <1>5, <1>6, <3>1
    <3>5. prev'[s[j]] = Place(h, s, j - 1)
      BY <1>1, <1>3, <3>1, <3>4
    <3> QED
      BY <3>2, <3>3, <3>5
  <2> QED
    BY <1>4, <2>0, <2>1, <2>2, <2>3
<1>9. slot'[Place(h, t, m - 1)] = Null /\ last'[h] = Place(h, t, m - 1)
  <2>1. m - 1 \in 0..m - 1
    BY <1>4
  <2>2. CASE p = m
    <3>1. m - 1 < p /\ m - 1 = p - 1
      BY <1>4, <2>2
    <3>2. Place(h, t, m - 1) = Place(h, s, p - 1)
      BY <1>7, <2>1, <3>1
    <3> QED
      BY <1>1, <1>3, <1>4, <1>6, <2>2, <3>2
  <2>3. CASE p # m
    <3>1. ~(m - 1 < p) /\ (m - 1) + 1 = m /\ m # p - 1 /\ m \in 0..m
      BY <1>4, <2>3
    <3>2. Place(h, t, m - 1) = Place(h, s, m)
      BY <1>7, <2>1, <3>1
    <3>3. f # Null
      BY <1>1, <1>5, <2>3
    <3>4. Place(h, s, m) # Place(h, s, p - 1)
      BY <1>1, <1>4, <3>1
    <3> QED
      BY <1>1, <1>3, <3>1, <3>2, <3>3, <3>4
  <2> QED
    BY <2>2, <2>3
<1>10. ASSUME NEW i \in 1..m - 1
       PROVE  \E j \in 1..m : t[i] = s[j] /\ i = IF j < p THEN j ELSE j - 1
  <2>1. CASE i < p
    <3>1. i \in 1..p - 1 /\ i \in 1..m
      BY <1>4, <2>1
    <3> QED
      BY <1>2, <2>1, <3>1
  <2>2. CASE ~(i < p)
    <3>1. i \in p..m - 1 /\ i + 1 \in 1..m /\ ~(i + 1 < p) /\ (i + 1) - 1 = i
      BY <1>4, <2>2
    <3> QED
      BY <1>2, <3>1
  <2> QED
    BY <2>1, <2>2
<1>11. \A i, j \in 1..m - 1 : t[i] = t[j] => i = j
  BY <1>1, <1>10
<1>12. Strung(h, t)'
  BY <1>2, <1>8, <1>9, <1>11 DEF Strung, Place
<1>13. ASSUME NEW g \in Heads, g # h
       PROVE  /\ \A i \in 1..m - 1, j \in 1..Len(l[g]) : t[i] # l[g][j]
              /\ Strung(g, l[g])'
  <2>1. /\ \A i \in 1..m, j \in 1..Len(l[g]) : s[i] # l[g][j]
        /\ \A i \in 0..m, j \in 0..Len(l[g]) : Place(h, s, i) # Place(g, l[g], j)
    BY <1>13, ListsApart DEF s, m
  <2>2. /\ \A j \in 1..Len(l[g]) : l[g][j] \in Elems /\ l[g][j] # Null
        /\ \A j \in 0..Len(l[g]) : Place(g, l[g], j) \in Queue!Slots
    <3>1. \A j \in 1..Len(l[g]) : l[g][j] \in Elems /\ l[g][j] # Null
      BY ListFacts DEF Hangs
    <3>2. \A j \in 0..Len(l[g]) : Place(g, l[g], j) \in Queue!Slots
      BY ListFacts DEF Hangs
    <3> QED
      BY <3>1, <3>2
  <2>3. \A j \in 1..Len(l[g]) : l[g][j] # f
    BY <1>5, <1>6, <2>1, <2>2
  <2>4. \A i \in 1..m - 1, j \in 1..Len(l[g]) : t[i] # l[g][j]
    BY <1>10, <2>1, <2>2
  <2>5. last'[g] = last[g]
    BY <1>3, <1>13
  <2>6. \A j \in 0..Len(l[g]) : slot'[Place(g, l[g], j)] = slot[Place(g, l[g], j)]
    BY <1>3, <1>4, <2>1, <2>2
  <2>7. \A j \in 1..Len(l[g]) : prev'[l[g][j]] = prev[l[g][j]]
    BY <1>3, <2>2, <2>3
  <2>8. Strung(g, l[g])'
    BY <2>5, <2>6, <2>7, Untouched
  <2> QED
    BY <2>4, <2>8
<1>14. \A g \in Heads : g # h => Strung(g, l[g])'
  BY <1>13
<1>15. \A g \in Heads : g # h =>
         \A i \in 1..Len(t), j \in 1..Len(l[g]) : t[i] # l[g][j]
  BY <1>2, <1>13
<1> QED
  BY <1>12, <1>14, <1>15, NewLists

\* What appending the queue of h to that of g does to each pointer.
Join(l, g, h) ==
  LET f == slot[Queue!First(h)] IN
  /\ f # Null
  /\ \A x \in Queue!Slots :
       slot'[x] = IF x = Queue!First(h) THEN Null
                  ELSE IF x = last[g] THEN f ELSE slot[x]
  /\ \A x \in Elems : prev'[x] = IF x = f THEN last[g] ELSE prev[x]
  /\ \A k \in Heads : last'[k] = IF k = g THEN last[h]
                                 ELSE IF k = h THEN Queue!First(h) ELSE last[k]

LEMMA JoinStep ==
  ASSUME ElementsFinite, QueueType, NEW l \in [Heads -> Seq(Elems)], Listed(l),
         NEW g \in Heads, NEW h \in Heads, g # h, Join(l, g, h)
  PROVE  Listed([l EXCEPT ![g] = l[g] \o l[h], ![h] = <<>>])'
<1> DEFINE s == l[g]
           r == l[h]
           a == Len(s)
           b == Len(r)
           t == s \o r
           f == slot[Queue!First(h)]
<1>1. /\ s \in Seq(Elems) /\ a \in Nat
      /\ \A i \in 1..a :
           /\ s[i] \in Elems /\ s[i] # Null
           /\ slot[Place(g, s, i - 1)] = s[i] /\ prev[s[i]] = Place(g, s, i - 1)
           /\ Place(g, s, i) = Queue!Nxt(s[i])
      /\ slot[Place(g, s, a)] = Null /\ last[g] = Place(g, s, a)
      /\ \A i \in 0..a : Place(g, s, i) \in Queue!Slots
      /\ \A i, j \in 1..a : s[i] = s[j] => i = j
      /\ \A i, j \in 0..a : Place(g, s, i) = Place(g, s, j) => i = j
  BY ListFacts DEF Hangs
<1>2. /\ r \in Seq(Elems) /\ b \in Nat
      /\ \A i \in 1..b :
           /\ r[i] \in Elems /\ r[i] # Null
           /\ slot[Place(h, r, i - 1)] = r[i] /\ prev[r[i]] = Place(h, r, i - 1)
           /\ Place(h, r, i) = Queue!Nxt(r[i])
      /\ slot[Place(h, r, b)] = Null /\ last[h] = Place(h, r, b)
      /\ \A i \in 0..b : Place(h, r, i) \in Queue!Slots
      /\ \A i, j \in 1..b : r[i] = r[j] => i = j
      /\ \A i, j \in 0..b : Place(h, r, i) = Place(h, r, j) => i = j
      /\ Place(h, r, 0) = Queue!First(h)
  BY ListFacts DEF Hangs
<1>3. /\ \A i \in 1..a, j \in 1..b : s[i] # r[j]
      /\ \A i \in 0..a, j \in 0..b : Place(g, s, i) # Place(h, r, j)
  BY ListsApart
<1>4. /\ f # Null
      /\ \A x \in Queue!Slots :
           slot'[x] = IF x = Place(h, r, 0) THEN Null
                      ELSE IF x = Place(g, s, a) THEN f ELSE slot[x]
      /\ \A x \in Elems : prev'[x] = IF x = f THEN Place(g, s, a) ELSE prev[x]
      /\ \A k \in Heads : last'[k] = IF k = g THEN Place(h, r, b)
                                     ELSE IF k = h THEN Place(h, r, 0) ELSE last[k]
  BY <1>1, <1>2 DEF Join
<1>5. /\ t \in Seq(Elems) /\ Len(t) = a + b
      /\ \A i \in 1..a + b : t[i] = IF i <= a THEN s[i] ELSE r[i - a]
  BY ConcatProperties
<1> HIDE DEF s, r, a, b, t
<1>6. 1 \in 1..b /\ f = r[1] /\ b # 0
  <2>1. b # 0
    BY <1>2, <1>4 DEF f
  <2>2. 1 \in 1..b /\ 1 - 1 = 0
    BY <1>2, <2>1
  <2>3. slot[Place(h, r, 1 - 1)] = r[1]
    BY <1>2, <2>2
  <2> QED
    BY <1>2, <2>1, <2>2, <2>3 DEF f
<1> HIDE DEF f
<1>7. ASSUME NEW i \in 0..a + b
      PROVE  Place(g, t, i) = IF i <= a THEN Place(g, s, i) ELSE Place(h, r, i - a)
  <2>1. CASE i = 0
    <3>1. i <= a
      BY <1>1, <2>1
    <3> QED
      BY <2>1, <3>1 DEF Place
  <2>2. CASE i # 0 /\ i <= a
    <3>1. i \in 1..a + b /\ t[i] = s[i]
      BY <1>1, <1>2, <1>5, <2>2
    <3> QED
      BY <2>2, <3>1 DEF Place
  <2>3. CASE ~(i <= a)
    <3>1. i \in 1..a + b /\ i # 0 /\ i - a # 0 /\ t[i] = r[i - a]
      BY <1>1, <1>2, <1>5, <2>3
    <3> QED
      BY <2>3, <3>1 DEF Place
  <2> QED
    BY <2>1, <2>2, <2>3
<1>8. ASSUME NEW i \in 1..a + b
      PROVE  slot'[Place(g, t, i - 1)] = t[i] /\ prev'[t[i]] = Place(g, t, i - 1)
  <2>0. i \in Int /\ 1 <= i /\ i <= a + b
    BY <1>1, <1>2
  <2>1. CASE i <= a
    <3>1. i \in 1..a /\ i - 1 \in 0..a + b /\ i - 1 \in 0..a /\ i - 1 <= a /\ i - 1 # a /\ a \in 0..a /\ 0 \in 0..b
      BY <1>1, <1>2, <2>0, <2>1
    <3>2. Place(g, t, i - 1) = Place(g, s, i - 1) /\ t[i] = s[i]
      BY <1>5, <1>7, <2>1, <3>1
    <3>3. slot'[Place(g, s, i - 1)] = s[i]
      <4>1. Place(g, s, i - 1) # Place(h, r, 0) /\ Place(g, s, i - 1) # Place(g, s, a)
        BY <1>1, <1>3, <3>1
      <4> QED
        BY <1>1, <1>4, <3>1, <4>1
    <3>4. prev'[s[i]] = Place(g, s, i - 1)
      <4>1. s[i] # f
        BY <1>3, <1>6, <3>1
      <4> QED
        BY <1>1, <1>4, <3>1, <4>1
    <3> QED
      BY <3>2, <3>3, <3>4
  <2>2. CASE i = a + 1
    <3>1. i - 1 = a /\ a \in 0..a + b /\ a <= a /\ ~(i <= a) /\ i - a = 1 /\ a \in 0..a /\ 0 \in 0..b
      BY <1>1, <1>2, <2>2
    <3>2. Place(g, t, i - 1) = Place(g, s, a) /\ t[i] = f
      BY <1>5, <1>6, <1>7, <3>1
    <3>3. Place(g, s, a) # Place(h, r, 0) /\ f \in Elems
      BY <1>2, <1>3, <1>6, <3>1
    <3> QED
      BY <1>1, <1>4, <3>1, <3>2, <3>3
  <2>3. CASE i > a + 1
    <3> DEFINE j == i - a
    <3>1. /\ j \in 1..b /\ j # 1 /\ ~(i <= a) /\ ~(i - 1 <= a) /\ i - 1 \in 0..a + b
          /\ i - 1 - a = j - 1 /\ j - 1 \in 0..b /\ j - 1 # 0 /\ 0 \in 0..b /\ a \in 0..a
      BY <1>1, <1>2, <2>0, <2>3
    <3>2. Place(g, t, i - 1) = Place(h, r, j - 1) /\ t[i] = r[j]
      BY <1>5, <1>7, <3>1
    <3> HIDE DEF j
    <3>3. slot'[Place(h, r, j - 1)] = r[j]
      <4>1. Place(h, r, j - 1) # Place(h, r, 0) /\ Place(h, r, j - 1) # Place(g, s, a)
        BY <1>2, <1>3, <3>1
      <4> QED
        BY <1>2, <1>4, <3>1, <4>1
    <3>4. prev'[r[j]] = Place(h, r, j - 1)
      <4>1. r[j] # f
        BY <1>2, <1>6, <3>1
      <4> QED
        BY <1>2, <1>4, <3>1, <4>1
    <3> QED
      BY <3>2, <3>3, <3>4
  <2> QED
    BY <1>1, <2>0, <2>1, <2>2, <2>3
<1>9. slot'[Place(g, t, a + b)] = Null /\ last'[g] = Place(g, t, a + b)
  <2>1. a + b \in 0..a + b /\ ~(a + b <= a) /\ (a + b) - a = b /\ b \in 0..b /\ 0 \in 0..b /\ a \in 0..a
    BY <1>1, <1>2, <1>6
  <2>2. Place(g, t, a + b) = Place(h, r, b)
    BY <1>7, <2>1
  <2>3. Place(h, r, b) # Place(h, r, 0) /\ Place(h, r, b) # Place(g, s, a)
    BY <1>2, <1>3, <1>6, <2>1
  <2> QED
    BY <1>2, <1>4, <2>1, <2>2, <2>3
<1>10. \A i, j \in 1..a + b : t[i] = t[j] => i = j
  <2>1. ASSUME NEW i \in 1..a + b
        PROVE  IF i <= a THEN i \in 1..a /\ t[i] = s[i]
               ELSE i - a \in 1..b /\ t[i] = r[i - a] /\ (i - a) + a = i
    BY <1>1, <1>2, <1>5
  <2>2. ASSUME NEW i \in 1..a + b, NEW j \in 1..a + b, t[i] = t[j] PROVE i = j
    <3>1. CASE i <= a /\ j <= a
      BY <1>1, <2>1, <2>2, <3>1
    <3>2. CASE ~(i <= a) /\ ~(j <= a)
      <4>1. /\ i - a \in 1..b /\ t[i] = r[i - a] /\ (i - a) + a = i
            /\ j - a \in 1..b /\ t[j] = r[j - a] /\ (j - a) + a = j
        BY <2>1, <3>2
      <4>2. i - a = j - a
        BY <1>2, <2>2, <4>1
      <4> QED
        BY <4>1, <4>2
    <3>3. CASE ~(i <= a <=> j <= a)
      BY <1>3, <2>1, <2>2, <3>3
    <3> QED
      BY <3>1, <3>2, <3>3
  <2> QED
    BY <2>2
<1>11. Strung(g, t)'
  BY <1>5, <1>8, <1>9, <1>10 DEF Strung, Place
<1>12. Strung(h, <<>>)'
  <2>1. <<>> \in Seq(Elems) /\ Len(<<>>) = 0 /\ 1..0 = {}
    OBVIOUS
  <2>2. slot'[Place(h, r, 0)] = Null /\ last'[h] = Place(h, r, 0)
    BY <1>2, <1>4
  <2>3. Place(h, <<>>, 0) = Place(h, r, 0)
    BY DEF Place
  <2> QED
    BY <2>1, <2>2, <2>3 DEF Strung, Place
<1>13. ASSUME NEW k \in Heads, k # g, k # h
       PROVE  /\ \A i \in 1..a + b, j \in 1..Len(l[k]) : t[i] # l[k][j]
              /\ Strung(k, l[k])'
  <2>1. /\ \A i \in 1..a, j \in 1..Len(l[k]) : s[i] # l[k][j]
        /\ \A i \in 0..a, j \in 0..Len(l[k]) : Place(g, s, i) # Place(k, l[k], j)
    BY <1>13, ListsApart DEF s, a
  <2>2. /\ \A i \in 1..b, j \in 1..Len(l[k]) : r[i] # l[k][j]
        /\ \A i \in 0..b, j \in 0..Len(l[k]) : Place(h, r, i) # Place(k, l[k], j)
    BY <1>13, ListsApart DEF r, b
  <2>3. \A j \in 1..Len(l[k]) : l[k][j] \in Elems
    BY ListFacts DEF Hangs
  <2>4. \A j \in 0..Len(l[k]) : Place(k, l[k], j) \in Queue!Slots
    BY ListFacts DEF Hangs
  <2>5. a \in 0..a /\ 0 \in 0..b
    BY <1>1, <1>2
  <2>6. last'[k] = last[k]
    BY <1>4, <1>13
  <2>7. \A j \in 0..Len(l[k]) : slot'[Place(k, l[k], j)] = slot[Place(k, l[k], j)]
    BY <1>4, <2>1, <2>2, <2>4, <2>5
  <2>8. \A j \in 1..Len(l[k]) : prev'[l[k][j]] = prev[l[k][j]]
    BY <1>4, <1>6, <2>2, <2>3
  <2>9. Strung(k, l[k])'
    BY <2>6, <2>7, <2>8, Untouched
  <2>10. ASSUME NEW i \in 1..a + b, NEW j \in 1..Len(l[k]) PROVE t[i] # l[k][j]
    <3>1. IF i <= a THEN i \in 1..a /\ t[i] = s[i] ELSE i - a \in 1..b /\ t[i] = r[i - a]
      BY <1>1, <1>2, <1>5
    <3> QED
      BY <2>1, <2>2, <3>1
  <2> QED
    BY <2>9, <2>10
<1> DEFINE q == [l EXCEPT ![g] = t, ![h] = <<>>]
<1>14. \A k \in Heads : q[k] = IF k = h THEN <<>> ELSE IF k = g THEN t ELSE l[k]
  OBVIOUS
<1> HIDE DEF q
<1>15. \A k \in Heads : Strung(k, q[k])'
  BY <1>11, <1>12, <1>13, <1>14
<1>16. ASSUME NEW k \in Heads, NEW n \in Heads, k # n,
              NEW i \in 1..Len(q[k]), NEW j \in 1..Len(q[n])
       PROVE  q[k][i] # q[n][j]
  <2>1. k # h /\ n # h
    <3>1. Len(q[h]) = 0
      BY <1>14
    <3> QED
      BY <3>1, <1>16
  <2>2. CASE k = g
    BY <1>5, <1>13, <1>14, <1>16, <2>1, <2>2
  <2>3. CASE n = g
    BY <1>5, <1>13, <1>14, <1>16, <2>1, <2>3
  <2>4. CASE k # g /\ n # g
    BY <1>14, <1>16, <2>1, <2>4 DEF Listed
  <2> QED
    BY <2>2, <2>3, <2>4
<1>17. Listed(q)'
  BY <1>15, <1>16 DEF Listed
<1> QED
  BY <1>17 DEF q, t, s, r

-----------------------------------------------------------------------------
(* What each operation of queue.h does.                                    *)

LEMMA InQueue ==
  ASSUME ElementsFinite, QueueType, NEW l \in [Heads -> Seq(Elems)], Listed(l)
  PROVE  /\ \A h \in Heads : Queue!Walk(h) = l[h] /\ Queue!WalkBack(h) = l[h]
         /\ \A h \in Heads : Queue!On(h) = {l[h][i] : i \in 1..Len(l[h])}
         /\ \A e \in Queue!Off : e \in Elems /\ Outside(l, e)
         /\ \A h \in Heads : \A e \in Queue!On(h) :
              Queue!At(h, e) \in 1..Len(l[h]) /\ l[h][Queue!At(h, e)] = e
<1>1. \A h \in Heads : Queue!Walk(h) = l[h] /\ Queue!WalkBack(h) = l[h]
  BY WalkIs, WalkBackIs DEF Listed
<1>2. \A h \in Heads : DOMAIN l[h] = 1..Len(l[h])
  BY LenProperties
<1>3. \A h \in Heads : Queue!On(h) = {l[h][i] : i \in 1..Len(l[h])}
  BY <1>1, <1>2 DEF Queue!On
<1>4. \A e \in Queue!Off : e \in Elems /\ Outside(l, e)
  BY <1>3 DEF Queue!Off, Outside
<1>5. ASSUME NEW h \in Heads, NEW e \in Queue!On(h)
      PROVE  Queue!At(h, e) \in 1..Len(l[h]) /\ l[h][Queue!At(h, e)] = e
  <2>1. \E i \in 1..Len(l[h]) : l[h][i] = e
    BY <1>3
  <2>2. Queue!At(h, e) = CHOOSE i \in 1..Len(l[h]) : l[h][i] = e
    BY <1>1, <1>2 DEF Queue!At
  <2> QED
    BY <2>1, <2>2
<1> QED
  BY <1>1, <1>3, <1>4, <1>5

LEMMA InsertPut ==
  ASSUME ElementsFinite, QueueType, NEW l \in [Heads -> Seq(Elems)], Listed(l),
         NEW h \in Heads, NEW e \in Elems, Outside(l, e),
         NEW p \in 0..Len(l[h]), Put(h, l[h], p, 0, e),
         NEW t, t = Queue!SX!InsertAt(l[h], p + 1, e)
  PROVE  /\ Listed([l EXCEPT ![h] = t])' /\ t \in Seq(Elems)
         /\ p = 0 => t = <<e>> \o l[h]
         /\ p = Len(l[h]) => t = Append(l[h], e)
<1>1. l[h] \in Seq(Elems) /\ Len(l[h]) \in Nat
  BY LenProperties
<1>2. /\ PutList(t, l[h], p, 0, e)
      /\ p = 0 => t = <<e>> \o l[h]
      /\ p = Len(l[h]) => t = Append(l[h], e)
  BY <1>1, InsertedList
<1>3. 0 \in 0..1 /\ p \in 0..Len(l[h]) - 0
  BY <1>1
<1>4. Listed([l EXCEPT ![h] = t])'
  BY <1>2, <1>3, PutStep
<1> QED
  BY <1>2, <1>4 DEF PutList

LEMMA ReplacePut ==
  ASSUME ElementsFinite, QueueType, NEW l \in [Heads -> Seq(Elems)], Listed(l),
         NEW h \in Heads, NEW e \in Elems, Outside(l, e),
         NEW p \in 1..Len(l[h]), Put(h, l[h], p - 1, 1, e),
         NEW t, t = Queue!SX!ReplaceAt(l[h], p, e)
  PROVE  Listed([l EXCEPT ![h] = t])' /\ t \in Seq(Elems)
<1>1. l[h] \in Seq(Elems) /\ Len(l[h]) \in Nat
  BY LenProperties
<1>2. PutList(t, l[h], p - 1, 1, e)
  BY <1>1, ReplacedList
<1>3. 1 \in 0..1 /\ p - 1 \in 0..Len(l[h]) - 1
  BY <1>1
<1>4. Listed([l EXCEPT ![h] = t])'
  BY <1>2, <1>3, PutStep
<1> QED
  BY <1>2, <1>4 DEF PutList

LEMMA RemoveCut ==
  ASSUME ElementsFinite, QueueType, NEW l \in [Heads -> Seq(Elems)], Listed(l),
         NEW h \in Heads, NEW p \in 1..Len(l[h]), Cut(h, l[h], p),
         NEW t, t = Queue!SX!RemoveAt(l[h], p)
  PROVE  Listed([l EXCEPT ![h] = t])' /\ t \in Seq(Elems)
<1>1. l[h] \in Seq(Elems)
  OBVIOUS
<1>2. CutList(t, l[h], p)
  BY <1>1, RemovedList
<1>3. Listed([l EXCEPT ![h] = t])'
  BY <1>2, CutStep
<1> QED
  BY <1>2, <1>3 DEF CutList

\* The macros that put an element in change the pointers as Put says.
LEMMA PutsIn ==
  ASSUME ElementsFinite, QueueType, NEW l \in [Heads -> Seq(Elems)], Listed(l),
         NEW h \in Heads, NEW e \in Elems, Outside(l, e), NEW d \in 0..1,
         NEW p \in 0..Len(l[h]) - d,
         NEW P, P = Place(h, l[h], p),
         NEW f, f = slot[Place(h, l[h], p + d)],
         slot' = [slot EXCEPT ![Queue!Nxt(e)] = f, ![P] = e],
         f # Null => /\ prev' = [prev EXCEPT ![f] = Queue!Nxt(e), ![e] = P]
                     /\ last' = last,
         f = Null => /\ prev' = [prev EXCEPT ![e] = P]
                     /\ last' = [last EXCEPT ![h] = Queue!Nxt(e)]
  PROVE  QueueType' /\ Put(h, l[h], p, d, e)
<1> DEFINE N == Queue!Nxt(e)
           m == Len(l[h])
           Q == Place(h, l[h], p + d)
<1>1. Hangs(h, l[h])
  BY ListFacts
<1>2. m \in Nat /\ p \in 0..m /\ p + d \in 0..m
  <2>1. m \in Nat
    BY <1>1 DEF Hangs
  <2> QED
    BY <2>1
<1>3. P \in Queue!Slots /\ N \in Queue!Slots /\ P # N /\ Q \in Queue!Slots
  <2>1. P \in Queue!Slots /\ Q \in Queue!Slots
    BY <1>1, <1>2 DEF Hangs
  <2>2. P # N
    BY <1>2, OutsideApart
  <2> QED
    BY <2>1, <2>2, SlotFacts
<1>4. f \in Elems \cup {Null} /\ f # e
  <2>1. f \in Elems \cup {Null}
    BY <1>3 DEF QueueType
  <2>2. CASE p + d = m
    <3>1. f = Null
      BY <1>1, <2>2 DEF Hangs
    <3> QED
      BY <3>1 DEF ElementsFinite
  <2>3. CASE p + d # m
    <3>1. p + d + 1 \in 1..m /\ (p + d + 1) - 1 = p + d
      BY <1>2, <2>3
    <3>2. f = l[h][p + d + 1]
      BY <1>1, <3>1 DEF Hangs
    <3> QED
      BY <2>1, <3>1, <3>2 DEF Outside
  <2> QED
    BY <2>2, <2>3
<1> HIDE DEF N, Q, m
<1>5. /\ slot' = [slot EXCEPT ![N] = f, ![P] = e]
      /\ f # Null => prev' = [prev EXCEPT ![f] = N, ![e] = P] /\ last' = last
      /\ f = Null => prev' = [prev EXCEPT ![e] = P] /\ last' = [last EXCEPT ![h] = N]
  BY DEF N
<1>6. QueueType'
  <2>1. slot' \in [Queue!Slots -> Elems \cup {Null}]
    BY <1>3, <1>4, <1>5 DEF QueueType
  <2>2. last' \in [Heads -> Queue!Slots]
    BY <1>3, <1>5 DEF QueueType
  <2>3. prev' \in [Elems -> Queue!Slots \cup {Queue!NoSlot}]
    <3>1. CASE f = Null
      BY <1>3, <1>5, <3>1 DEF QueueType
    <3>2. CASE f # Null
      BY <1>3, <1>4, <1>5, <3>2 DEF QueueType
    <3> QED
      BY <3>1, <3>2
  <2> QED
    BY <2>1, <2>2, <2>3 DEF QueueType
<1>7. \A x \in Queue!Slots : slot'[x] = IF x = P THEN e ELSE IF x = N THEN f ELSE slot[x]
  BY <1>3, <1>5 DEF QueueType
<1>8. \A x \in Elems : prev'[x] = IF x = e THEN P ELSE IF x = f THEN N ELSE prev[x]
  BY <1>4, <1>5 DEF QueueType, ElementsFinite
<1>9. \A g \in Heads : last'[g] = IF g = h /\ f = Null THEN N ELSE last[g]
  BY <1>5 DEF QueueType
<1> QED
  BY <1>6, <1>7, <1>8, <1>9 DEF Put, N

\* What each macro does to the lists.
LEMMA InsertHeadList ==
  ASSUME ElementsFinite, QueueType, NEW l \in [Heads -> Seq(Elems)], Listed(l),
         NEW h \in Heads, NEW e \in Elems, Outside(l, e), Queue!InsertHead(h, e),
         NEW t, t = <<e>> \o l[h]
  PROVE  QueueType' /\ Listed([l EXCEPT ![h] = t])' /\ t \in Seq(Elems)
<1>1. 0 \in 0..1 /\ 0 \in 0..Len(l[h]) - 0 /\ 0 \in 0..Len(l[h]) /\ 0 + 0 = 0
  BY ListFacts DEF Hangs
<1>2. Place(h, l[h], 0) = Queue!First(h)
  BY DEF Place
<1>3. QueueType' /\ Put(h, l[h], 0, 0, e)
  BY <1>1, <1>2, PutsIn DEF Queue!InsertHead
<1>4. PICK u : u = Queue!SX!InsertAt(l[h], 0 + 1, e)
  OBVIOUS
<1>5. Listed([l EXCEPT ![h] = u])' /\ u \in Seq(Elems) /\ u = t
  BY <1>1, <1>3, <1>4, InsertPut
<1> QED
  BY <1>3, <1>5

LEMMA InsertTailList ==
  ASSUME ElementsFinite, QueueType, NEW l \in [Heads -> Seq(Elems)], Listed(l),
         NEW h \in Heads, NEW e \in Elems, Outside(l, e), Queue!InsertTail(h, e),
         NEW t, t = Append(l[h], e)
  PROVE  QueueType' /\ Listed([l EXCEPT ![h] = t])' /\ t \in Seq(Elems)
<1> DEFINE p == Len(l[h])
<1>1. p \in Nat /\ last[h] = Place(h, l[h], p) /\ slot[Place(h, l[h], p)] = Null
  BY ListFacts DEF Hangs
<1>2. 0 \in 0..1 /\ p \in 0..p - 0 /\ p \in 0..p /\ p + 0 = p
  BY <1>1
<1>3. QueueType' /\ Put(h, l[h], p, 0, e)
  BY <1>1, <1>2, PutsIn DEF Queue!InsertTail
<1>4. PICK u : u = Queue!SX!InsertAt(l[h], p + 1, e)
  OBVIOUS
<1>5. Listed([l EXCEPT ![h] = u])' /\ u \in Seq(Elems) /\ u = t
  BY <1>2, <1>3, <1>4, InsertPut
<1> QED
  BY <1>3, <1>5

LEMMA InsertAfterList ==
  ASSUME ElementsFinite, QueueType, NEW l \in [Heads -> Seq(Elems)], Listed(l),
         NEW h \in Heads, NEW e \in Elems, Outside(l, e),
         NEW p \in 1..Len(l[h]), Queue!InsertAfter(h, l[h][p], e),
         NEW t, t = Queue!SX!InsertAt(l[h], p + 1, e)
  PROVE  QueueType' /\ Listed([l EXCEPT ![h] = t])' /\ t \in Seq(Elems)
<1>1. Len(l[h]) \in Nat /\ Place(h, l[h], p) = Queue!Nxt(l[h][p])
  BY ListFacts DEF Hangs
<1>2. 0 \in 0..1 /\ p \in 0..Len(l[h]) - 0 /\ p \in 0..Len(l[h]) /\ p + 0 = p
  BY <1>1
<1>3. QueueType' /\ Put(h, l[h], p, 0, e)
  BY <1>1, <1>2, PutsIn DEF Queue!InsertAfter
<1>4. Listed([l EXCEPT ![h] = t])' /\ t \in Seq(Elems)
  BY <1>2, <1>3, InsertPut
<1> QED
  BY <1>3, <1>4

LEMMA InsertBeforeList ==
  ASSUME ElementsFinite, QueueType, NEW l \in [Heads -> Seq(Elems)], Listed(l),
         NEW h \in Heads, NEW e \in Elems, Outside(l, e),
         NEW p \in 1..Len(l[h]), Queue!InsertBefore(l[h][p], e),
         NEW t, t = Queue!SX!InsertAt(l[h], p, e)
  PROVE  QueueType' /\ Listed([l EXCEPT ![h] = t])' /\ t \in Seq(Elems)
<1> DEFINE x == l[h][p]
<1>1. /\ Len(l[h]) \in Nat /\ x \in Elems /\ x # Null
      /\ slot[Place(h, l[h], p - 1)] = x /\ prev[x] = Place(h, l[h], p - 1)
  BY ListFacts DEF Hangs
<1>2. /\ 0 \in 0..1 /\ p - 1 \in 0..Len(l[h]) - 0 /\ p - 1 \in 0..Len(l[h])
      /\ (p - 1) + 0 = p - 1 /\ (p - 1) + 1 = p
  BY <1>1
<1>3. x # e
  BY DEF Outside
<1>4. /\ slot' = [slot EXCEPT ![Queue!Nxt(e)] = x, ![prev[x]] = e]
      /\ prev' = [prev EXCEPT ![e] = prev[x], ![x] = Queue!Nxt(e)]
      /\ last' = last
  BY DEF Queue!InsertBefore
<1> HIDE DEF x
<1>5. prev' = [prev EXCEPT ![x] = Queue!Nxt(e), ![e] = prev[x]]
  BY <1>1, <1>3, <1>4 DEF QueueType
<1>6. QueueType' /\ Put(h, l[h], p - 1, 0, e)
  BY <1>1, <1>2, <1>4, <1>5, PutsIn
<1>7. t = Queue!SX!InsertAt(l[h], (p - 1) + 1, e)
  BY <1>2
<1>8. Listed([l EXCEPT ![h] = t])' /\ t \in Seq(Elems)
  BY <1>2, <1>6, <1>7, InsertPut
<1> QED
  BY <1>6, <1>8

LEMMA ReplaceList ==
  ASSUME ElementsFinite, QueueType, NEW l \in [Heads -> Seq(Elems)], Listed(l),
         NEW h \in Heads, NEW e \in Elems, Outside(l, e),
         NEW p \in 1..Len(l[h]), Queue!Replace(h, l[h][p], e),
         NEW t, t = Queue!SX!ReplaceAt(l[h], p, e)
  PROVE  QueueType' /\ Listed([l EXCEPT ![h] = t])' /\ t \in Seq(Elems)
<1>1. /\ Len(l[h]) \in Nat /\ Place(h, l[h], p) = Queue!Nxt(l[h][p])
      /\ prev[l[h][p]] = Place(h, l[h], p - 1)
  BY ListFacts DEF Hangs
<1>2. 1 \in 0..1 /\ p - 1 \in 0..Len(l[h]) - 1 /\ (p - 1) + 1 = p
  BY <1>1
<1>3. QueueType' /\ Put(h, l[h], p - 1, 1, e)
  BY <1>1, <1>2, PutsIn DEF Queue!Replace
<1>4. Listed([l EXCEPT ![h] = t])' /\ t \in Seq(Elems)
  BY <1>3, ReplacePut
<1> QED
  BY <1>3, <1>4

LEMMA RemoveList ==
  ASSUME ElementsFinite, QueueType, NEW l \in [Heads -> Seq(Elems)], Listed(l),
         NEW h \in Heads, NEW p \in 1..Len(l[h]), Queue!Remove(h, l[h][p]),
         NEW t, t = Queue!SX!RemoveAt(l[h], p)
  PROVE  QueueType' /\ Listed([l EXCEPT ![h] = t])' /\ t \in Seq(Elems)
<1> DEFINE P == Place(h, l[h], p - 1)
           f == slot[Place(h, l[h], p)]
<1>1. /\ Len(l[h]) \in Nat /\ Place(h, l[h], p) = Queue!Nxt(l[h][p])
      /\ prev[l[h][p]] = P
  BY ListFacts DEF Hangs
<1>2. P \in Queue!Slots /\ Place(h, l[h], p) \in Queue!Slots
  <2>1. p \in 0..Len(l[h]) /\ p - 1 \in 0..Len(l[h])
    BY <1>1
  <2> QED
    BY <2>1, ListFacts DEF Hangs
<1>3. f \in Elems \cup {Null}
  BY <1>2 DEF QueueType
<1> HIDE DEF P, f
<1>4. /\ slot' = [slot EXCEPT ![P] = f]
      /\ f # Null => prev' = [prev EXCEPT ![f] = P] /\ last' = last
      /\ f = Null => last' = [last EXCEPT ![h] = P] /\ prev' = prev
  BY <1>1 DEF Queue!Remove, f
<1>5. QueueType'
  BY <1>2, <1>3, <1>4 DEF QueueType
<1>6. \A x \in Queue!Slots : slot'[x] = IF x = P THEN f ELSE slot[x]
  BY <1>2, <1>4 DEF QueueType
<1>7. \A x \in Elems : prev'[x] = IF x = f THEN P ELSE prev[x]
  BY <1>3, <1>4 DEF QueueType, ElementsFinite
<1>8. \A g \in Heads : last'[g] = IF g = h /\ f = Null THEN P ELSE last[g]
  BY <1>4 DEF QueueType
<1>9. Cut(h, l[h], p)
  BY <1>6, <1>7, <1>8 DEF Cut, P, f
<1>10. Listed([l EXCEPT ![h] = t])' /\ t \in Seq(Elems)
  BY <1>9, RemoveCut
<1> QED
  BY <1>5, <1>10

LEMMA ConcatList ==
  ASSUME ElementsFinite, QueueType, NEW l \in [Heads -> Seq(Elems)], Listed(l),
         NEW g \in Heads, NEW h \in Heads, g # h, Queue!Concat(g, h)
  PROVE  QueueType' /\ Listed([l EXCEPT ![g] = l[g] \o l[h], ![h] = <<>>])'
<1> DEFINE F == Queue!First(h)
           f == slot[F]
           P == last[g]
<1>1. F \in Queue!Slots /\ P \in Queue!Slots /\ last[h] \in Queue!Slots
  BY SlotFacts DEF QueueType
<1>2. F # P
  <2>1. /\ Len(l[g]) \in Nat /\ Len(l[h]) \in Nat /\ P = Place(g, l[g], Len(l[g]))
        /\ F = Place(h, l[h], 0)
    BY ListFacts DEF Hangs
  <2>2. 0 \in 0..Len(l[h]) /\ Len(l[g]) \in 0..Len(l[g])
    BY <2>1
  <2> QED
    BY <2>1, <2>2, ListsApart
<1>3. f \in Elems \cup {Null}
  BY <1>1 DEF QueueType
<1> HIDE DEF F, f, P
<1>4. /\ f # Null
      /\ slot' = [slot EXCEPT ![P] = f, ![F] = Null]
      /\ prev' = [prev EXCEPT ![f] = P]
      /\ last' = [last EXCEPT ![g] = last[h], ![h] = F]
  BY DEF Queue!Concat, F, f, P
<1>5. QueueType'
  BY <1>1, <1>3, <1>4 DEF QueueType
<1>6. \A x \in Queue!Slots :
        slot'[x] = IF x = F THEN Null ELSE IF x = P THEN f ELSE slot[x]
  BY <1>1, <1>2, <1>4 DEF QueueType
<1>7. \A x \in Elems : prev'[x] = IF x = f THEN P ELSE prev[x]
  BY <1>3, <1>4 DEF QueueType
<1>8. \A k \in Heads :
        last'[k] = IF k = g THEN last[h] ELSE IF k = h THEN F ELSE last[k]
  BY <1>4 DEF QueueType
<1>9. Join(l, g, h)
  BY <1>4, <1>6, <1>7, <1>8 DEF Join, F, f, P
<1> QED
  BY <1>5, <1>9, JoinStep

\* Lists hang from the heads and share nothing.
QueueInv ==
  QueueType /\ \E l \in [Heads -> Seq(Elems)] : Listed(l)

LEMMA QueueInit ==
  ASSUME Queue!Init
  PROVE  QueueInv
<1> DEFINE l == [h \in Heads |-> <<>>]
<1>1. \A h \in Heads : l[h] = <<>>
  OBVIOUS
<1>2. l \in [Heads -> Seq(Elems)]
  OBVIOUS
<1> HIDE DEF l
<1>3. QueueType
  <2>1. slot \in [Queue!Slots -> Elems \cup {Null}]
    BY DEF Queue!Init
  <2>2. last \in [Heads -> Queue!Slots]
    BY SlotFacts DEF Queue!Init
  <2>3. prev \in [Elems -> Queue!Slots \cup {Queue!NoSlot}]
    BY DEF Queue!Init
  <2> QED
    BY <2>1, <2>2, <2>3 DEF QueueType
<1>4. ASSUME NEW h \in Heads PROVE Strung(h, l[h])
  <2>1. <<>> \in Seq(Elems) /\ Len(<<>>) = 0 /\ 1..0 = {}
    OBVIOUS
  <2>2. Place(h, <<>>, 0) = Queue!First(h) /\ Queue!First(h) \in Queue!Slots
    BY SlotFacts DEF Place
  <2>3. slot[Queue!First(h)] = Null /\ last[h] = Queue!First(h)
    BY <2>2 DEF Queue!Init
  <2> QED
    BY <1>1, <2>1, <2>2, <2>3 DEF Strung
<1>5. Listed(l)
  <2>1. \A h \in Heads : 1..Len(l[h]) = {}
    BY <1>1
  <2> QED
    BY <1>4, <2>1 DEF Listed
<1> QED
  BY <1>2, <1>3, <1>5 DEF QueueInv

\* Both ways along the queues meet the lists, in this state and the next.
WalksTrue ==
  \A l \in [Heads -> Seq(Elems)] : QueueType /\ Listed(l) =>
    \A h \in Heads : Queue!Walk(h) = l[h] /\ Queue!WalkBack(h) = l[h]

LEMMA WalksNow == ElementsFinite => WalksTrue
BY InQueue DEF WalksTrue

LEMMA WalksNext ==
  ASSUME ElementsFinite, NEW l \in [Heads -> Seq(Elems)], QueueType', Listed(l)'
  PROVE  \A h \in Heads : Queue!Walk(h)' = l[h] /\ Queue!WalkBack(h)' = l[h]
<1>1. (ElementsFinite => WalksTrue)'
  BY WalksNow, PTL
<1>2. WalksTrue'
  BY <1>1
<1> QED
  BY <1>2 DEF WalksTrue

\* A step that makes t of the list of h makes t of its queue.
LEMMA BecomesIs ==
  ASSUME ElementsFinite, QueueType, NEW l \in [Heads -> Seq(Elems)], Listed(l),
         NEW h \in Heads, NEW t \in Seq(Elems),
         QueueType', Listed([l EXCEPT ![h] = t])'
  PROVE  Queue!Becomes(h, t) /\ QueueInv' /\ Queue!BothWays'
<1> DEFINE k == [l EXCEPT ![h] = t]
<1>1. k \in [Heads -> Seq(Elems)] /\ \A g \in Heads : k[g] = IF g = h THEN t ELSE l[g]
  OBVIOUS
<1>2. Listed(k)'
  OBVIOUS
<1> HIDE DEF k
<1>3. \A g \in Heads : Queue!Walk(g)' = k[g] /\ Queue!WalkBack(g)' = k[g]
  BY <1>1, <1>2, WalksNext
<1>4. \A g \in Heads : Queue!Walk(g) = l[g]
  BY InQueue
<1> QED
  BY <1>1, <1>2, <1>3, <1>4 DEF Queue!Becomes, Queue!BothWays, QueueInv

LEMMA ConcatBecomes ==
  ASSUME ElementsFinite, QueueType, NEW l \in [Heads -> Seq(Elems)], Listed(l),
         NEW g \in Heads, NEW h \in Heads, g # h, Queue!Concat(g, h)
  PROVE  /\ Queue!Walk(g)' = Queue!Walk(g) \o Queue!Walk(h)
         /\ Queue!Walk(h)' = <<>>
         /\ QueueInv' /\ Queue!BothWays'
<1> DEFINE t == l[g] \o l[h]
           k == [l EXCEPT ![g] = t, ![h] = <<>>]
<1>1. t \in Seq(Elems)
  BY ConcatProperties
<1>2. QueueType' /\ Listed(k)'
  BY ConcatList
<1> HIDE DEF t
<1>3. k \in [Heads -> Seq(Elems)] /\ k[g] = t /\ k[h] = <<>>
  <2>1. <<>> \in Seq(Elems)
    BY EmptySeq
  <2>2. k[g] = t
    OBVIOUS
  <2>3. k[h] = <<>>
    OBVIOUS
  <2>4. k \in [Heads -> Seq(Elems)]
    BY <1>1, <2>1
  <2> QED
    BY <2>2, <2>3, <2>4
<1> HIDE DEF k
<1>4. \A n \in Heads : Queue!Walk(n)' = k[n] /\ Queue!WalkBack(n)' = k[n]
  BY <1>2, <1>3, WalksNext
<1>5. Queue!Walk(g) = l[g] /\ Queue!Walk(h) = l[h]
  BY InQueue
<1> QED
  BY <1>2, <1>3, <1>4, <1>5 DEF Queue!BothWays, QueueInv, t

\* What holds when an operation is done.
Done(h, t) == Queue!Becomes(h, t) /\ QueueInv' /\ Queue!BothWays'

LEMMA OffSteps ==
  ASSUME ElementsFinite, QueueType, NEW l \in [Heads -> Seq(Elems)], Listed(l),
         NEW h \in Heads, NEW e \in Queue!Off
  PROVE  /\ Queue!InsertHead(h, e) => Done(h, <<e>> \o Queue!Walk(h))
         /\ Queue!InsertTail(h, e) => Done(h, Append(Queue!Walk(h), e))
<1>1. Queue!Walk(h) = l[h] /\ e \in Elems /\ Outside(l, e)
  BY InQueue
<1>2. ASSUME Queue!InsertHead(h, e) PROVE Done(h, <<e>> \o Queue!Walk(h))
  <2>1. PICK t : t = <<e>> \o l[h]
    OBVIOUS
  <2>2. QueueType' /\ Listed([l EXCEPT ![h] = t])' /\ t \in Seq(Elems)
    BY <1>1, <1>2, <2>1, InsertHeadList
  <2>3. Queue!Becomes(h, t) /\ QueueInv' /\ Queue!BothWays'
    BY <2>2, BecomesIs
  <2> QED
    BY <1>1, <2>1, <2>3 DEF Done
<1>3. ASSUME Queue!InsertTail(h, e) PROVE Done(h, Append(Queue!Walk(h), e))
  <2>1. PICK t : t = Append(l[h], e)
    OBVIOUS
  <2>2. QueueType' /\ Listed([l EXCEPT ![h] = t])' /\ t \in Seq(Elems)
    BY <1>1, <1>3, <2>1, InsertTailList
  <2>3. Queue!Becomes(h, t) /\ QueueInv' /\ Queue!BothWays'
    BY <2>2, BecomesIs
  <2> QED
    BY <1>1, <2>1, <2>3 DEF Done
<1> QED
  BY <1>2, <1>3

LEMMA BesideSteps ==
  ASSUME ElementsFinite, QueueType, NEW l \in [Heads -> Seq(Elems)], Listed(l),
         NEW h \in Heads, NEW e \in Queue!Off, NEW x \in Queue!On(h)
  PROVE  /\ Queue!InsertAfter(h, x, e) =>
              Done(h, Queue!SX!InsertAt(Queue!Walk(h), Queue!At(h, x) + 1, e))
         /\ Queue!InsertBefore(x, e) =>
              Done(h, Queue!SX!InsertAt(Queue!Walk(h), Queue!At(h, x), e))
         /\ Queue!Replace(h, x, e) =>
              Done(h, Queue!SX!ReplaceAt(Queue!Walk(h), Queue!At(h, x), e))
<1>1. Queue!Walk(h) = l[h] /\ e \in Elems /\ Outside(l, e)
  BY InQueue
<1>2. PICK p \in 1..Len(l[h]) : p = Queue!At(h, x) /\ l[h][p] = x
  BY InQueue
<1>3. ASSUME Queue!InsertAfter(h, x, e)
      PROVE  Done(h, Queue!SX!InsertAt(Queue!Walk(h), Queue!At(h, x) + 1, e))
  <2>1. PICK t : t = Queue!SX!InsertAt(l[h], p + 1, e)
    OBVIOUS
  <2>2. QueueType' /\ Listed([l EXCEPT ![h] = t])' /\ t \in Seq(Elems)
    BY <1>1, <1>2, <1>3, <2>1, InsertAfterList
  <2>3. Queue!Becomes(h, t) /\ QueueInv' /\ Queue!BothWays'
    BY <2>2, BecomesIs
  <2> QED
    BY <1>1, <1>2, <2>1, <2>3 DEF Done
<1>4. ASSUME Queue!InsertBefore(x, e)
      PROVE  Done(h, Queue!SX!InsertAt(Queue!Walk(h), Queue!At(h, x), e))
  <2>1. PICK t : t = Queue!SX!InsertAt(l[h], p, e)
    OBVIOUS
  <2>2. QueueType' /\ Listed([l EXCEPT ![h] = t])' /\ t \in Seq(Elems)
    BY <1>1, <1>2, <1>4, <2>1, InsertBeforeList
  <2>3. Queue!Becomes(h, t) /\ QueueInv' /\ Queue!BothWays'
    BY <2>2, BecomesIs
  <2> QED
    BY <1>1, <1>2, <2>1, <2>3 DEF Done
<1>5. ASSUME Queue!Replace(h, x, e)
      PROVE  Done(h, Queue!SX!ReplaceAt(Queue!Walk(h), Queue!At(h, x), e))
  <2>1. PICK t : t = Queue!SX!ReplaceAt(l[h], p, e)
    OBVIOUS
  <2>2. QueueType' /\ Listed([l EXCEPT ![h] = t])' /\ t \in Seq(Elems)
    BY <1>1, <1>2, <1>5, <2>1, ReplaceList
  <2>3. Queue!Becomes(h, t) /\ QueueInv' /\ Queue!BothWays'
    BY <2>2, BecomesIs
  <2> QED
    BY <1>1, <1>2, <2>1, <2>3 DEF Done
<1> QED
  BY <1>3, <1>4, <1>5

LEMMA OnSteps ==
  ASSUME ElementsFinite, QueueType, NEW l \in [Heads -> Seq(Elems)], Listed(l),
         NEW h \in Heads, NEW e \in Queue!On(h), Queue!Remove(h, e)
  PROVE  Done(h, Queue!SX!RemoveAt(Queue!Walk(h), Queue!At(h, e)))
<1>1. Queue!Walk(h) = l[h]
  BY InQueue
<1>2. PICK p \in 1..Len(l[h]) : p = Queue!At(h, e) /\ l[h][p] = e
  BY InQueue
<1>3. PICK t : t = Queue!SX!RemoveAt(l[h], p)
  OBVIOUS
<1>4. QueueType' /\ Listed([l EXCEPT ![h] = t])' /\ t \in Seq(Elems)
  BY <1>2, <1>3, RemoveList
<1>5. Queue!Becomes(h, t) /\ QueueInv' /\ Queue!BothWays'
  BY <1>4, BecomesIs
<1> QED
  BY <1>1, <1>2, <1>3, <1>5 DEF Done

LEMMA QueueStep ==
  ASSUME ElementsFinite, QueueInv, [Queue!Next]_(Queue!qvars)
  PROVE  QueueInv' /\ (\A h \in Heads : Queue!Lists(h)) /\ Queue!BothWays'
<1>1. PICK l \in [Heads -> Seq(Elems)] : Listed(l)
  BY DEF QueueInv
<1>2. QueueType
  BY DEF QueueInv
<1>3. ASSUME NEW h \in Heads PROVE Queue!Lists(h)
  <2>1. ASSUME NEW e \in Queue!Off
        PROVE  /\ Queue!InsertHead(h, e) => Queue!Becomes(h, <<e>> \o Queue!Walk(h))
               /\ Queue!InsertTail(h, e) => Queue!Becomes(h, Append(Queue!Walk(h), e))
    BY <1>1, <1>2, OffSteps DEF Done
  <2>2. ASSUME NEW e \in Queue!Off, NEW x \in Queue!On(h)
        PROVE  /\ Queue!InsertAfter(h, x, e) => Queue!Becomes(h,
                    Queue!SX!InsertAt(Queue!Walk(h), Queue!At(h, x) + 1, e))
               /\ Queue!InsertBefore(x, e) => Queue!Becomes(h,
                    Queue!SX!InsertAt(Queue!Walk(h), Queue!At(h, x), e))
               /\ Queue!Replace(h, x, e) => Queue!Becomes(h,
                    Queue!SX!ReplaceAt(Queue!Walk(h), Queue!At(h, x), e))
    BY <1>1, <1>2, BesideSteps DEF Done
  <2>3. ASSUME NEW e \in Queue!On(h), Queue!Remove(h, e)
        PROVE  Queue!Becomes(h, Queue!SX!RemoveAt(Queue!Walk(h), Queue!At(h, e)))
    BY <1>1, <1>2, <2>3, OnSteps DEF Done
  <2>4. ASSUME NEW g \in Heads \ {h}, Queue!Concat(h, g)
        PROVE  Queue!Walk(h)' = Queue!Walk(h) \o Queue!Walk(g) /\ Queue!Walk(g)' = <<>>
    BY <1>1, <1>2, <2>4, ConcatBecomes
  <2> QED
    BY <2>1, <2>2, <2>3, <2>4 DEF Queue!Lists
<1>4. CASE UNCHANGED Queue!qvars
  <2>1. QueueType' /\ Listed(l)'
    BY <1>1, <1>2, <1>4 DEF QueueType, Listed, Strung, Place, Queue!qvars
  <2>2. QueueInv'
    BY <2>1 DEF QueueInv
  <2>3. Queue!BothWays'
    BY <2>1, WalksNext DEF Queue!BothWays
  <2> QED
    BY <1>3, <2>2, <2>3
<1>5. CASE Queue!Next
  <2>1. PICK h \in Heads :
          \/ \E e \in Queue!Off :
               \/ Queue!InsertHead(h, e) \/ Queue!InsertTail(h, e)
               \/ \E x \in Queue!On(h) :
                    \/ Queue!InsertAfter(h, x, e) \/ Queue!InsertBefore(x, e)
                    \/ Queue!Replace(h, x, e)
          \/ \E e \in Queue!On(h) : Queue!Remove(h, e)
          \/ \E g \in Heads \ {h} : Queue!Concat(g, h)
    BY <1>5 DEF Queue!Next
  <2>2. ASSUME NEW e \in Queue!Off, Queue!InsertHead(h, e) \/ Queue!InsertTail(h, e)
        PROVE  QueueInv' /\ Queue!BothWays'
    BY <1>1, <1>2, <2>2, OffSteps DEF Done
  <2>3. ASSUME NEW e \in Queue!Off, NEW x \in Queue!On(h),
               \/ Queue!InsertAfter(h, x, e) \/ Queue!InsertBefore(x, e)
               \/ Queue!Replace(h, x, e)
        PROVE  QueueInv' /\ Queue!BothWays'
    BY <1>1, <1>2, <2>3, BesideSteps DEF Done
  <2>4. ASSUME NEW e \in Queue!On(h), Queue!Remove(h, e)
        PROVE  QueueInv' /\ Queue!BothWays'
    BY <1>1, <1>2, <2>4, OnSteps DEF Done
  <2>5. ASSUME NEW g \in Heads \ {h}, Queue!Concat(g, h)
        PROVE  QueueInv' /\ Queue!BothWays'
    BY <1>1, <1>2, <2>5, ConcatBecomes
  <2>6. QueueInv' /\ Queue!BothWays'
    BY <2>1, <2>2, <2>3, <2>4, <2>5
  <2> QED
    BY <1>3, <2>6
<1> QED
  BY <1>4, <1>5

\* Every macro of queue.h does to the queues what its name says of lists,
\* wherever in a queue it is used and whatever was done before, and the way back
\* stays the reverse of the way forward: for any heads and finitely many
\* elements.
THEOREM QueuesAreLists ==
  Queue!Init /\ [][Queue!Next]_(Queue!qvars) => QueueIsList
<1>0. ElementsFinite
  BY QueueAssumption
<1>1. Queue!Init => QueueInv
  BY QueueInit
<1>2. QueueInv /\ [Queue!Next]_(Queue!qvars) =>
        QueueInv' /\ ((\A h \in Heads : Queue!Lists(h)) /\ Queue!BothWays')
  BY <1>0, QueueStep
<1> QED
  BY <1>1, <1>2, PTL DEF QueueIsList, Queue!QueueIsList
=============================================================================
