SPECIFICATION Spec
CONSTANTS
  PID_MAX = 2
  MAX_PROCESSES = 2
  Programs = {"job"}
  Externals = {"FileLock"}
  Trappable = {}
  HostSignals = {}
  KillSignals = {}
  Drivers = {"exec"}
  Clocks = {"virtual"}
  CancelBudgets = {4}
  MAX_ACTIONS = 1
  MAX_FRAMES = 2
CHECK_DEADLOCK FALSE
INVARIANTS RestoresOwnTarget
