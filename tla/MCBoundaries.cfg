\* Each part in its smallest interesting size: two browsers and tokens of both
\* lengths, two tenants, the shortest retention and days no command accepts, and
\* any two of two commands that prune and two that sanitize.
SPECIFICATION Spec
CONSTANTS
  b1 = b1
  b2 = b2
  p1 = p1
  p2 = p2
  s1 = s1
  s2 = s2
  Tokens = {"short", "long"}
  Strong = {"long"}
  Browsers = {b1, b2}
  MaxAge = 2
  MaxRestarts = 2
  Tenants = {"t1", "t2"}
  Ids = {"u1"}
  CalendarKeys = {"k1:calendar"}
  Attempts = {"m1:attempt:1", "m1:attempt:2"}
  ReplyKeys = {"k1:reply"}
  Resolutions = {"m1:retry"}
  PrincipalTiers = {2, 5}
  TTL = 2
  MaxGrants = 2
  MaxTime = 2
  Settings <- TheSettings
  MediaTargets <- TheTargets
  MaxFollowed = 1
  TraceIds = {1, 2}
  Pruners = {p1, p2}
  Sanitizers = {s1, s2}
  DaysGiven = {0, 1, 3}
  MaxDays = 2
  LastDay = 3
  MaxWrites = 1
  MaxCommands = 2
  MaxItems = 3
  MaxDepth = 2
  TooLong <- TheLongNames
  RawMappings <- TheMetadata
  RawEntries <- TheEntries
SYMMETRY CommandSymmetry
INVARIANTS
  SessionsHonoured
  ApprovalsHonoured
  EgressHeld
  SanitizerSound
  StoredAsPromised
PROPERTIES
  CommandsHonest
CHECK_DEADLOCK FALSE
