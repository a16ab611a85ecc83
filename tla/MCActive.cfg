SPECIFICATION Spec
CONSTANTS
  PID_MAX = 2
  MAX_PROCESSES = 2
  Programs = {"job"}
  Externals = {"Input"}
  Trappable = {}
  HostSignals = {}
  KillSignals = {}
  Drivers = {"harness"}
  Clocks = {"virtual"}
  CancelBudgets = {4}
  MAX_ACTIONS = 1
  MAX_FRAMES = 2
INVARIANTS ActiveRetained
