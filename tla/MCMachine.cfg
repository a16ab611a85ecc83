SPECIFICATION Spec
CONSTANTS
  PID_MAX = 3
  MAX_PROCESSES = 3
  Programs = {"subshell", "substitution", "job", "pipeline", "sleep", "ask"}
  Externals = {"Input"}
  Trappable = {}
  HostSignals = {}
  KillSignals = {"Kill"}
  Drivers = {"harness", "exec"}
  Clocks = {"virtual", "real"}
  CancelBudgets = {0, 3}
  MAX_ACTIONS = 2
  MAX_FRAMES = 2
CHECK_DEADLOCK FALSE
INVARIANTS TypeOK TablesAgree ActiveIsCurrent NoLostChildWake SleepersHaveTimers
PROPERTIES OlderJobsSurvive
