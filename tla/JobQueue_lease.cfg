\* One job, three slots on two pods: every race between a stale run, the
\* reaper, a re-claim on the same or another pod, cancel and shutdown.
CONSTANTS
  j1 = j1  j2 = j2  p1 = p1  p2 = p2  s1 = s1  s2 = s2  s3 = s3
  NoWorker = NoWorker  NoJob = NoJob  NoSlot = NoSlot
  Jobs = {j1}
  Pods = {p1, p2}
  Slots = {s1, s2, s3}
  Kinds = {"light", "new"}
  OffloadKinds = {}
  CappedKinds = {"light"}
  PodOf <- TwoPods
  WorkerIds <- TwoPodIds
  Role <- MixedRoles
  EnvInclude <- NoOverride
  EnvExclude <- NoOverride
  Handlers <- RollingHandlers
  AttemptInputs <- ZeroToThree
  MaxStops = 1
SPECIFICATION Spec
CHECK_DEADLOCK FALSE
INVARIANTS TypeOK StartsCharged BudgetKept GuardAdmitsLatestClaim CancelHitsItsJob
PROPERTIES TerminalIsFinal ClaimsAreRespected ImplementsLifecycle
