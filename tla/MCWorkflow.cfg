\* Two concurrent requests for one message, which run until they answer or die.
SPECIFICATION FairSpec
CONSTANTS
  Handlers = {h1, h2}
  Payloads = {p1, p2}
  Readings = {r1, r2}
INVARIANTS
  BuiltAsApproved
  OneExecutor
PROPERTIES
  NeverTakenBack
  RegistrationAnswered
  GrantHonoured
