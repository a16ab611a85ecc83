SPECIFICATION Spec
CONSTANTS
  Procs = {p1}
  Fds = {0}
  Inodes = {i1}
  Groups = {g1}
  FileKinds = {"File", "Input", "Capture"}
  U32_MAX = 3
  MAX_FDS_PER_PROCESS = 2
  MAX_OPEN_DESCRIPTIONS = 3
  MAX_PIPES = 1
  CAPACITY = 2
  MAX_CAPTURE_BYTES = 2
  Sizes = {1, 2}
  MAX_SENT = 3
INVARIANTS LocksExclusive
PROPERTIES PipesAreChannels EofIsFinal LockLossSignalled
