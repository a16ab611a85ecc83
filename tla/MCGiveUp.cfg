SPECIFICATION Spec
CONSTANTS
  PID_MAX = 2
  MAX_PROCESSES = 2
  Programs = {"job", "sleep"}
  Externals = {}
  Trappable = {}
  HostSignals = {}
  KillSignals = {"Stop"}
  Drivers = {"exec"}
  Clocks = {"virtual"}
  CancelBudgets = {4}
  MAX_ACTIONS = 1
  MAX_FRAMES = 2
CHECK_DEADLOCK FALSE
INVARIANTS BlockedWithoutEvent
