\* The message queue at its real length fills while the task posts to it.
SPECIFICATION Spec
CONSTANTS
  r1 = r1 r2 = r2 r3 = r3 a = a b = b
  NoReq = NoReq
  Reqs <- MCReqs
  EmptyReqs <- MCNoReqs
  Producers <- MCOneProducer
  MqLen = 20
  MaxAdds = 11
SYMMETRY SymReqs
INVARIANT NeverWaitsForItself
CHECK_DEADLOCK FALSE
