\* One part at a time; every state has a successor.
SPECIFICATION PartsSpec
CONSTANTS
  Threads = {t1, t2, t3}
  Max = 1
  NoOne = NoOne
  h1 = h1 h2 = h2 e1 = e1 e2 = e2 e3 = e3
  Null = Null
  \* Three bytes wrap at every place; a count of three bits wraps four times
  \* around two places.
  Bytes <- MCBytes
  Blank = 0
  Cap = 3
  RingSize = 2
  CountBits = 3
  Heads <- MCHeads
  Elems <- MCElems
  Keys <- MCKeys
  Twice = {2}
  AbbrLen = 2
  Sizes <- MCSizes
  Lines <- MCLines
  Items <- MCItems
  Widths <- MCWidths
  \* A time of five bits wraps; 2 is below MinWait, 6 above, 10 above PollMax.
  TimeBits = 5
  Socks = 2
  PollMax = 8
  MinWait = 4
  Durs = {2, 6, 10}
  MaxNow = 40
  \* As built.
  Halves = 200
  DutyMax = 8191
  Incs = {1}
INVARIANTS TypeOK NoLostWakeup SetInOrder Balanced TextRight PollTimely
PROPERTIES Taken Implements BufferIsFifo CountFifo QueueIsList TestResults Breathes
