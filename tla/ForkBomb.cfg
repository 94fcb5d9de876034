SPECIFICATION FairSpec
CONSTANTS
  Parent = {p1}
  Threshold = 3
  Second = 2
  Cold = 5
  MaxForks = 2
INVARIANTS TypeOK WindowsBounded NoMissedBomb
PROPERTIES NoFalseAlarm ColdForgotten
