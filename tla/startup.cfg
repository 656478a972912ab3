CONSTANTS
  LooperLen = 1
  MaxTasks = 2
  NvsStates = {"ok", "full"}
  MaxIps = 2
  MaxFails = 1
  MaxRestarts = 1
SPECIFICATION FairSpec
INVARIANTS PressInFlight OneTaskUnlessLost NothingBeforeItsUse
PROPERTIES LeakCleared Boots
CHECK_DEADLOCK FALSE
