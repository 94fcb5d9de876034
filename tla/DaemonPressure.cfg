SPECIFICATION Spec
CONSTANTS
  None = None
  Nobody <- MCNobody
  Value <- MCValue
  RuleName <- MCRuleName
  Comm <- MCComm
  Group <- MCGroup
  FullyExempt <- MCEmpty
  AncestorNames <- MCEmpty
  NoCgroupMove <- MCEmpty
  KernelComms <- MCEmpty
  Sandboxed <- MCEmpty
  SessionRoots = {"init", "xfce4-session"}
  FactsOf <- MCFactsOf
  LineageDepth = 2
  AncestorDepth = 2
  Pid = {1, 2}
  MaxQueue = 2
  Programs = {"cc"}
  Sources = {"exec", "pressure", "rescan"}
  Boot <- MCBootApp
  RuleSets <- MCRuleSets
  TiersUsed = {"rt", "interactive", "system", "background", "idle", "swapstorm"}
  Placements <- MCEmpty
  Readings = {"normal", "high", "critical"}
  ScanAtStart = TRUE
INVARIANT PressureReleased
