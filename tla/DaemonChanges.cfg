SPECIFICATION Spec
CONSTANTS
  None = None
  Nobody <- MCNobody
  Value <- MCValue
  RuleName <- MCRuleName
  Comm <- MCComm
  Group <- MCGroup
  FullyExempt <- MCEmpty
  AncestorNames <- MCEmpty
  NoCgroupMove <- MCEmpty
  KernelComms <- MCEmpty
  Sandboxed <- MCEmpty
  SessionRoots = {"init", "xfce4-session"}
  FactsOf <- MCFactsOf
  LineageDepth = 2
  AncestorDepth = 2
  Pid = {1, 2}
  MaxQueue = 1
  Programs = {"cc"}
  Sources = {"exec", "exit", "focus", "place", "rescan", "pressure", "gc", "recheck", "restart", "noproc"}
  Boot <- MCBoot
  RuleSets <- MCRuleSetsSystem
  TiersUsed = {"interactive", "system", "swapstorm"}
  Placements <- MCPlaceSwap
  Readings = {"normal", "critical"}
  ScanAtStart = TRUE
INVARIANT ManagedTracked
PROPERTIES OriginalIsFirst ForegroundNotDemoted
