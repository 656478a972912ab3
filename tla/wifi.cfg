\* The real numbers.  The driver's events in any order the network allows, no
\* memory for a message, an address after the link is lost; both tasks run.
SPECIFICATION FairSpec
CONSTANTS
  Trials = 3
  LooperLen = 20
  Faults = {"malloc", "late_ip"}
INVARIANTS TypeOK ButtonOnce FeedbackFreed AttemptsBounded PhaseTrue
PROPERTIES DisconnectionHandled PressTaken
