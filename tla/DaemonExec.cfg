SPECIFICATION HSpec
CONSTANTS
  None = None
  Nobody <- MCNobody
  Value <- MCValue
  RuleName <- MCRuleName
  Comm <- MCComm
  Group <- MCGroup
  FullyExempt <- MCEmpty
  AncestorNames <- MCEmpty
  NoCgroupMove <- MCEmpty
  KernelComms <- MCEmpty
  Sandboxed <- MCEmpty
  SessionRoots = {"init", "xfce4-session"}
  FactsOf <- MCFactsOf
  LineageDepth = 2
  AncestorDepth = 2
  Pid = {1, 2}
  MaxQueue = 2
  Programs = {"cc", "tool"}
  Sources = {"exec", "exit", "rescan", "place", "shutdown", "restart", "gc"}
  Boot <- MCBoot
  RuleSets <- MCRuleSetsCc
  TiersUsed = {"rt", "idle"}
  Placements <- MCPlaceRt
  Readings = {}
  ScanAtStart = TRUE
INVARIANTS TypeOK MovedCanReturn LateExecPlaced BootPlaced RunInTier
PROPERTY ReturnedHome
