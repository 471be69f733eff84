------------------------------ MODULE MCDispatch ------------------------------
(* Model-checking values for DispatchDueReminders.                         *)
EXTENDS DispatchDueReminders, TLC

\* One well-formed message.
OneMessage == {1}
OneKind == <<"ok">>

\* A row that cannot be read is queued before a good one.
TwoMessages == {1, 2}
TwoKinds == <<"malformed", "ok">>

\* The n-th retry waits n units.
Delays == [n \in 1..(MAX_DELIVERY_ATTEMPTS - 1) |-> n]

\* Workers are interchangeable; all of them are approvers.
WorkerSymmetry == Permutations(Workers)
=============================================================================
