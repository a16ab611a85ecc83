SPECIFICATION Spec
CONSTANTS
  Procs = {p1, p2}
  Fds = {0, 1}
  Inodes = {}
  Groups = {}
  FileKinds = {"Null"}
  U32_MAX = 4
  MAX_FDS_PER_PROCESS = 2
  MAX_OPEN_DESCRIPTIONS = 2
  MAX_PIPES = 1
  CAPACITY = 1
  MAX_CAPTURE_BYTES = 0
  Sizes = {}
  MAX_SENT = 0
SYMMETRY Symmetric
INVARIANTS TypeOK ReferencesExact PipeEndsCounted
PROPERTY IdentitiesFresh
