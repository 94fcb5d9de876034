SPECIFICATION FairSpec
CONSTANTS
  MaxChannel <- MCMaxChannel
  Mains = {"ac"}
  Batteries = {"bat"}
  Knobs <- MCKnobs
  Writable = {"slice"}
  KeepAutogroup = FALSE
  Stall = {60}
  Unreadable = Unreadable
  LowThreshold = 5
  HighThreshold = 40
INVARIANTS TypeOK PowerAgrees ModeIsLevel AutogroupReturned
PROPERTIES ProfileFollows PressureFollows
