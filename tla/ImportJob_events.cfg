\* Users: a job of two days, each stored, failed or answered 401, with a typed, a
\* saved or the server's key, an edit of the saved one, a cancel and a stream
\* with a short channel.
CONSTANTS
  j1 = j1  j2 = j2  p1 = p1  p2 = p2  r1 = r1  r2 = r2  o1 = o1  o2 = o2
  k1 = k1  k2 = k2  c1 = c1
  NoJob = NoJob  NoKey = NoKey
  Jobs = {j1}
  Pods = {p1}
  ServerPods = {p1}
  Requests = {r1}
  Streams = {c1}
  Owners = {o1}
  Keys = {k1, k2}
  TypedKeys = {NoKey, k2}
  ServerKey = k1
  DayInputs = {2}
  Lease = 4
  Buffer = 2
  MaxFaults = 1
  MaxStops = 0
  MaxCancels = 1
  MaxEdits = 1
SPECIFICATION Spec
INVARIANTS TerminalEventsAreTrue
PROPERTIES KeyOutcomesAreEarned
