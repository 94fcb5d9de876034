SPECIFICATION Spec
CONSTANTS
  None = None
  Nobody <- MCNobody
  Value <- MCValue
  RuleName <- MCRuleName
  Comm <- MCComm
  Group <- MCGroup
  FullyExempt <- MCEmpty
  AncestorNames <- MCEmpty
  NoCgroupMove <- MCEmpty
  KernelComms <- MCEmpty
  Sandboxed <- MCEmpty
  SessionRoots = {"init", "xfce4-session"}
  FactsOf <- MCFactsOf
  LineageDepth = 1
  AncestorDepth = 2
  Pid = {1, 2, 3, 4}
  MaxQueue = 1
  Programs = {"app"}
  Sources = {"exit", "forkbomb"}
  Boot <- MCBoot
  RuleSets <- MCRuleSets
  TiersUsed = {"rt", "interactive", "system", "background", "idle", "swapstorm"}
  Placements <- MCEmpty
  Readings = {}
  ScanAtStart = TRUE
INVARIANT EdgesSound
PROPERTY BombContained
