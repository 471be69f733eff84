\* Two workers and the operator on a malformed row and a good one.
SPECIFICATION Spec
CONSTANTS
  Workers = {w1, w2}
  Messages <- TwoMessages
  Kind <- TwoKinds
  Approvers = {w1, w2}
  MAX_DELIVERY_ATTEMPTS = 3
  RETRY_DELAYS <- Delays
  RetryAfter = {0, 3}
  LEASE_SECONDS = 1
  RELEASE_DELAY = 1
  APPROVAL_TTL = 2
  NotifyAt = {1}
  MaxTime = 3
  MaxAborts = 1
SYMMETRY WorkerSymmetry
INVARIANTS
  RowsReadable
  MirrorAgrees
  AttemptsWithinLimit
  AttemptKeyFresh
  NoSilentDuplicate
  FinalStatusHonest
PROPERTIES
  ImplementsLifecycle
