------------------------------ MODULE MCWorkflow ------------------------------
(* Model-checking values for ReminderWorkflow.                             *)
EXTENDS ReminderWorkflow, TLC

\* Requests, payloads and readings are interchangeable.
Symmetry ==
  Permutations(Handlers) \cup Permutations(Payloads) \cup Permutations(Readings)
=============================================================================
