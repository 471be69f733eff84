SPECIFICATION ChannelSpec
CONSTANTS
  e1 = e1
  t1 = t1
  t2 = t2
  loop = loop
  Statuses <- TheStatuses
  ErrorCodes <- TheErrorCodes
  Waits = {0, 1, 5}
  Events = {e1}
  Workers = {t1, t2}
  EventLoop = loop
  EventKinds <- TheKinds
  Readings = {"r1", "r2"}
  Answers <- TheAnswers
  AudioReplies = TRUE
  MaxDeliveries <- TheDeliveries
  MaxRestarts = 1
SYMMETRY WorkerSymmetry
INVARIANTS
  ClassificationSound
  RepliesAreTrue
  CopiesBounded
  EventsAreSettled
CHECK_DEADLOCK FALSE
