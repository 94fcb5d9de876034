SPECIFICATION Spec
CONSTANTS
  None = None
  Value <- MCValue
  RuleName <- MCRuleName
  FullyExempt <- MCFullyExempt
  AncestorNames <- MCFullyExempt
  NoCgroupMove <- MCNoCgroupMove
  Files = 2
  Contents <- MCContents
  Procs <- MCProcs
  Ancestries <- MCAncestors
INVARIANTS TypeOK LoopIsClosedForm FinalRuleHides ExceptionsHold PrioritiesFall
PROPERTY ReloadAllOrNothing
