CONSTANTS
  LooperLen = 2
  MaxTasks = 1
  NvsStates = {"ok", "full"}
  MaxIps = 0
  MaxFails = 0
  MaxRestarts = 0
SPECIFICATION FairSpec
PROPERTY NvsErased
