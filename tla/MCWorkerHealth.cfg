SPECIFICATION FairHealthSpec
CONSTANTS
  w1 = w1
  w2 = w2
  Processes = {w1, w2}
  Skews <- MCSkews
  Interval = 1
  Timeout = 2
  TickMax = 1
  Outages = 1
INVARIANTS
  ProbeIsHonest
PROPERTIES
  LoopSurvivesOutage
