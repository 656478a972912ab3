\* The feedback handler finds a phase it does not expect.
SPECIFICATION Spec
CONSTANTS
  Trials = 3
  LooperLen = 20
  Faults = {}
INVARIANT FeedbackExpected
