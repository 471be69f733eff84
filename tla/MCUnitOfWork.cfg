\* Two threads on three stores with two values: one in a transaction, the other
\* in its own or reading and writing beside it.
SPECIFICATION Spec
CONSTANTS
  Threads = {t1, t2}
  Participants = 3
  Values = {v1, v2}
SYMMETRY Symmetry
INVARIANTS
  SomeoneProceeds
PROPERTIES
  ImplementsAtomicStores
