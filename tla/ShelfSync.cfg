CONSTANTS
  Statuses = {"read", "dnf"}
  MaxEdits = 2
  MaxPct = 1
  MaxFaults = 1
  MaxEvents = 3
SPECIFICATION FairSpec
INVARIANTS LocalEditStands OneReadPerFinish
PROPERTIES Converges
