SPECIFICATION FairSpec
CONSTANTS
  Cancellers = {"c1", "c2"}
  Runs = {"r1", "r2"}
  NoThread = "free"
INVARIANTS TypeOK NoMissedWake OutcomeHonest
PROPERTIES LateRequestDropped RequestEndsRun
CHECK_DEADLOCK FALSE
