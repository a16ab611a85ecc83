SPECIFICATION FairSpec
CONSTANTS
  TaskIds = {1}
  NoTask = 0
  MAX_NS = 2
  MAX_SEQUENCE = 3
  MAX_PENDING_EVENTS = 2
  HORIZON = 1
  EPOCH = 0
  MAX_WALL = 1
INVARIANTS TypeOK NeverEarlyNeverMissed FiringOrder NoResurrection
PROPERTIES EventsSettle
