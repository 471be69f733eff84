\* The runbook's rule for the scheduler's sent flag.
SPECIFICATION Spec
CONSTANTS
  Workers = {w1}
  Messages <- OneMessage
  Kind <- OneKind
  Approvers = {w1}
  MAX_DELIVERY_ATTEMPTS = 2
  RETRY_DELAYS <- Delays
  RetryAfter = {0}
  LEASE_SECONDS = 1
  RELEASE_DELAY = 1
  APPROVAL_TTL = 2
  NotifyAt = {1}
  MaxTime = 3
  MaxAborts = 1
INVARIANTS
  SentOnlyAfterAccepted
