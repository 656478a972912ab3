CONSTANTS
  LooperLen = 2
  MaxTasks = 2
  NvsStates = {"ok"}
  MaxIps = 1
  MaxFails = 0
  MaxRestarts = 0
SPECIFICATION Spec
INVARIANT OneTask
