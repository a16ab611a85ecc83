SPECIFICATION Spec
CONSTANTS
  PID_MAX = 2
  MAX_PROCESSES = 2
  Programs = {"job"}
  Externals = {"Input"}
  Trappable = {"Interrupt"}
  HostSignals = {"Interrupt"}
  KillSignals = {}
  Drivers = {"harness"}
  Clocks = {"virtual"}
  CancelBudgets = {4}
  MAX_ACTIONS = 1
  MAX_FRAMES = 3
INVARIANTS KillBeforeUserCode
