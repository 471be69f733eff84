\* One request and one worker, with a bad row queued first; or one worker and three rows.
SPECIFICATION FairServiceSpec
CONSTANTS
  r1 = r1
  r2 = r2
  Handlers = {h1}
  Payloads = {p1}
  Readings = {r1, r2}
  Workers = {w1}
  Messages <- TwoMessages
  Kind <- TwoKinds
  Approvers = {w1}
  MAX_DELIVERY_ATTEMPTS = 2
  RETRY_DELAYS <- Delays
  RetryAfter = {0}
  LEASE_SECONDS = 1
  RELEASE_DELAY = 1
  APPROVAL_TTL = 1
  NotifyAt = {1, 2}
  MaxTime = 2
  MaxAborts = 1
  Own = 2
  Notice <- Notices
  MaxCrashes = 1
  QueueMessages <- ThreeMessages
  QueueKind <- ThreeKinds
  QueueNotifyAt = {1}
  QueueMaxTime = 3
INVARIANTS
  DeliversAsApproved
PROPERTIES
  DeliveriesSettle
