\* The same kind on a pod that stays and one that restarts for ever.
CONSTANTS
  j1 = j1  j2 = j2  p1 = p1  p2 = p2  s1 = s1  s2 = s2
  NoWorker = NoWorker  NoJob = NoJob
  Jobs = {j1, j2}
  Pods = {p1, p2}
  Slots = {s1, s2}
  WorkerIds = {s1, s2}
  Kinds = {"poll"}
  PodOf <- OneSlotEach
  Stable = {p1}
  Cap <- OneAtATime
  Periodic = {"poll"}
  Every <- SameInterval
  SemTTL = 2
  MaxAttempts = 2
  MaxFaults = 0
  MaxAdmin = 1
SPECIFICATION FairSpec
PROPERTIES PeriodicKindRuns
