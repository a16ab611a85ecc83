SPECIFICATION Spec
CONSTANTS
  PID_MAX = 2
  MAX_PROCESSES = 2
  Programs = {"job", "subshell", "sleep"}
  Externals = {}
  Trappable = {"Interrupt"}
  HostSignals = {"Interrupt", "Stop", "Continue"}
  KillSignals = {}
  Drivers = {"harness"}
  Clocks = {"real"}
  CancelBudgets = {0, 2}
  MAX_ACTIONS = 1
  MAX_FRAMES = 3
INVARIANTS TablesAgree ForegroundLive NoSleptSignal SleepersHaveTimers
PROPERTIES CancelRestoresShell KillsAreKept TerminalReturns
