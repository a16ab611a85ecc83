SPECIFICATION Spec
CONSTANTS
  Owners = {"fork", "pipe"}
  Amounts = {0, 1, 3, 8}
  U64_MAX = 9
  CPU_LIMIT = 4
  MEMORY_LIMIT = 5
  OUTPUT_LIMIT = 4
  None = None
INVARIANTS WithinLimits LedgerBalanced
PROPERTIES StopIsFinal MetersNeverRewind
