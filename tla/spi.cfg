\* A message queue short enough to fill, though it need not.
SPECIFICATION FairSpec
CONSTANTS
  r1 = r1 r2 = r2 r3 = r3 a = a b = b
  NoReq = NoReq
  Reqs <- MCReqs
  EmptyReqs <- MCEmpty
  Producers <- MCProducers
  MqLen = 3
  MaxAdds = 8
INVARIANTS TypeOK RequestOwnedOnce NoLostWakeup
PROPERTY RequestDone
\* The task stops for good when it waits for room in its own queue.
CHECK_DEADLOCK FALSE
