\* Liveness: two jobs of one owner on two pods, of which one stops or dies in the
\* middle of anything, may or may not come back, and a failing statement.
CONSTANTS
  j1 = j1  j2 = j2  p1 = p1  p2 = p2  r1 = r1  r2 = r2  o1 = o1  o2 = o2
  k1 = k1  k2 = k2  c1 = c1
  NoJob = NoJob  NoKey = NoKey
  Jobs = {j1, j2}
  Pods = {p1, p2}
  ServerPods = {p1, p2}
  Requests = {r1}
  Streams = {}
  Owners = {o1}
  Keys = {k1}
  TypedKeys = {NoKey}
  ServerKey = k1
  DayInputs = {1}
  Lease = 4
  Buffer = 8
  MaxFaults = 1
  MaxStops = 1
  MaxCancels = 0
  MaxEdits = 0
SPECIFICATION FairSpec
PROPERTIES OwnerIsUnblocked
