\* One writer at a time with every operation, and two that overlap; failures anywhere.
CONSTANTS
  b1 = b1  b2 = b2  b3 = b3  b4 = b4  b5 = b5
  w1 = w1  w2 = w2  la = la  lb = lb  NoGap = NoGap
  Beats = {b1, b2, b3, b4, b5}
  TimeOf <- MCTimeOf
  Workouts = {b3}
  Labels = {la, lb}
  Zones = {0, 1}
  MaxGap = 2
  DayLength = 2
  WorkoutTime = 5
  Writers = {w1, w2}
  Kinds = {"ingest", "raw", "workout", "resync", "zone", "rename", "purge"}
  MaxBatch = 2
  MaxOps = 4
  MaxTurns = 3
  OverlapBeats = {b1, b2, b4}
SPECIFICATION MCSpec
INVARIANTS TypeOK GapsAreExact RollupIsExact
SYMMETRY LabelSymmetry
CHECK_DEADLOCK FALSE
