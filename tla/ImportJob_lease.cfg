\* The lease: one job of up to three days, two pods, a failing statement, a stop and a cancel.
CONSTANTS
  j1 = j1  j2 = j2  p1 = p1  p2 = p2  r1 = r1  r2 = r2  o1 = o1  o2 = o2
  k1 = k1  k2 = k2  c1 = c1
  NoJob = NoJob  NoKey = NoKey
  Jobs = {j1}
  Pods = {p1, p2}
  ServerPods = {p1, p2}
  Requests = {r1, r2}
  Streams = {}
  Owners = {o1}
  Keys = {k1}
  TypedKeys = {NoKey}
  ServerKey = k1
  DayInputs = {0, 3}
  Lease = 4
  Buffer = 8
  MaxFaults = 1
  MaxStops = 1
  MaxCancels = 1
  MaxEdits = 0
SPECIFICATION Spec
INVARIANTS TypeOK LiveRunsAreFresh CompletedMeansImported
PROPERTIES SweepsSpareLiveRuns
