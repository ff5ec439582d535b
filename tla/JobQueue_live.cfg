\* Liveness: one job, a pod with two slots and one with one, one stop.
CONSTANTS
  j1 = j1  j2 = j2  p1 = p1  p2 = p2  s1 = s1  s2 = s2  s3 = s3
  NoWorker = NoWorker  NoJob = NoJob  NoSlot = NoSlot
  Jobs = {j1}
  Pods = {p1, p2}
  Slots = {s1, s2}
  Kinds = {"light", "heavy"}
  OffloadKinds = {"heavy"}
  CappedKinds = {"heavy"}
  PodOf <- SinglePods
  WorkerIds <- TwoPodIds
  Role <- SplitRoles
  EnvInclude <- NoOverride
  EnvExclude <- NoOverride
  Handlers <- SplitHandlers
  AttemptInputs <- JustTwo
  MaxStops = 2
SPECIFICATION FairSpec
CHECK_DEADLOCK FALSE
PROPERTIES EveryJobEnds ShutdownEnds
