------------------------------ MODULE MCDelivery ------------------------------
(* Model-checking values for DeliveryService.                                 *)
EXTENDS DeliveryService

CONSTANTS r1, r2

ASSUME MCAssumption == DeliveryAssumption /\ PartsAssumption

\* A row of another request, which cannot be read, is queued before the good one.
TwoMessages == {1, 2}
TwoKinds == <<"malformed", "ok">>

\* The n-th retry waits n units.
Delays == [n \in 1..(MAX_DELIVERY_ATTEMPTS - 1) |-> n]

\* The two readings of a message name different times.
Notices == [r \in {r1, r2} |-> IF r = r1 THEN 1 ELSE 2]

\* In the queue a malformed row and one without a reminder come before a good one,
\* and the time axis is longer.
ThreeMessages == {1, 2, 3}
ThreeKinds == <<"malformed", "orphan", "ok">>
=============================================================================
