SPECIFICATION FairSpec
CONSTANTS
  Pids = {1, 2, 3, 4}
  Root = 1
  NoPid = 0
  WaitAtoms = {"pipe", "child"}
  MAX_TASKS = 3
INVARIANTS TypeOK QueuesMatchStates
PROPERTIES StableOrder WakesSurviveStop NoStarvation
