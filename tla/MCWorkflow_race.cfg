\* An approval and a cancellation at the same time.
SPECIFICATION Spec
CONSTANTS
  Handlers = {h1, h2}
  Payloads = {p1, p2}
  Readings = {r1, r2}
SYMMETRY Symmetry
INVARIANTS
  CancelIsFinal
