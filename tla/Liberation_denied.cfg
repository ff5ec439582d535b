\* Denials: one slot, so that runs do not overlap, two jobs, nothing interrupted.
CONSTANTS
  Titles = {b1}
  Runs = {r1}
  MaxAutoAttempts = 3
  MaxJobs = 2
  MaxForgets = 0
  MaxInterrupts = 0
INIT LiberationInit
NEXT LiberationNext
INVARIANTS DenialStands
CHECK_DEADLOCK FALSE
