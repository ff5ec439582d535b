CONSTANTS
  b1 = b1  b2 = b2  r1 = r1  r2 = r2  v1 = v1  v2 = v2  q1 = q1  q2 = q2
  Books = {b1, b2}
  SyncJobs = {"sync", "backfill"}
  MaxFinishes = 2
  MaxUpsets = 1
  Titles = {b1, b2}
  Runs = {r1, r2}
  MaxAutoAttempts = 2
  MaxJobs = 2
  MaxForgets = 1
  MaxInterrupts = 1
  Volumes = {v1, v2}
  DayLen = 3
  SessionGap = 2
  IdleGap = 2
  DetectInterval = 1
  CaptureInterval = 0
  MaxTick = 4
  MaxPage = 2
  MaxMishaps = 1
  FirstTick = 2
  Past <- ReadBefore
  Requests = {q1, q2}
  StatsTTL = 1
  GoalTTL = 1
  Slowest = 1
  MaxNow = 3
  MaxWrites = 1
  DayTicks = 2
  WeekDays = 2
  Zones = {0, 1}
  Ahead = 1
  MaxTime = 6
  MaxLogs = 3
  MaxChanges = 1
  MaxDays = 2
SYMMETRY Symmetry
SPECIFICATION Spec
CHECK_DEADLOCK FALSE
INVARIANTS
  TypeOK
  AnnouncedOnce DayIsCaughtUp
  LiberatedIsWhole InFlightIsAlive
  CounterIsBacked PollRepairs
  StaleForAWhile InvalidatedIsGone
  StreakIsExact
