SPECIFICATION Spec
CONSTANTS
  None = None
  Nobody <- MCNobody
  Value <- MCValue
  RuleName <- MCRuleName
  Comm <- MCComm
  Group <- MCGroup
  FullyExempt <- MCEmpty
  AncestorNames <- MCEmpty
  NoCgroupMove <- MCEmpty
  KernelComms <- MCEmpty
  Sandboxed <- MCEmpty
  SessionRoots = {"init", "xfce4-session"}
  FactsOf <- MCFactsOf
  LineageDepth = 2
  AncestorDepth = 2
  Pid = {1, 2, 3}
  MaxQueue = 2
  Programs = {"cc"}
  Sources = {"exec", "exit", "focus"}
  Boot <- MCBootApp
  RuleSets <- MCRuleSets
  TiersUsed = {"rt", "interactive", "system", "background", "idle", "swapstorm"}
  Placements <- MCEmpty
  Readings = {}
  ScanAtStart = FALSE
INVARIANT NeverHung
CHECK_DEADLOCK FALSE
