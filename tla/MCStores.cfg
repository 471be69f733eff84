\* The outboxes with two messages, or three callers of the inserts.
SPECIFICATION Spec
CONSTANTS
  c1 = c1
  c2 = c2
  c3 = c3
  MaxTime = 2
  Tenants = {"t1", "t2"}
  Messages = {1, 2}
  TenantOf <- TheTenantOf
  TypeOf <- TheTypeOf
  Lease = 1
  Limits = {1, 2}
  MaxTokens = 3
  Callers = {c1, c2, c3}
  Serializable = {c3}
  Requests <- TheRequests
SYMMETRY CallerSymmetry
INVARIANTS
  OutboxesAgree
  InsertsAgree
CHECK_DEADLOCK FALSE
