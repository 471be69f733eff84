SPECIFICATION Spec
CONSTANTS
  m1 = m1
  m2 = m2
  m3 = m3
  Messages = {m1, m2, m3}
  Confidences <- TheConfidences
  LastInstant = 420
  Received <- TheInstants
  DefaultNotice = 1
  ModelAnswers <- TheAnswers
  Zones <- TheZones
  UserTexts <- TheTexts
SYMMETRY MessageSymmetry
INVARIANTS
  RoutingCautious
  ReadsAsMeant
  ScansAccounted
  BlockedLeavesNothing
PROPERTIES
  OnlyCommandsDecide
CHECK_DEADLOCK FALSE
