CONSTANTS
  Titles = {b1}
  Runs = {r1, r2}
  MaxAutoAttempts = 1
  MaxJobs = 2
  MaxForgets = 0
  MaxInterrupts = 1
INIT LiberationInit
NEXT LiberationNext
INVARIANTS LiberatedIsAlwaysWhole
CHECK_DEADLOCK FALSE
