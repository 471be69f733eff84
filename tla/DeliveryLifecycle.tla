--------------------------- MODULE DeliveryLifecycle ---------------------------
(***************************************************************************)
(* What the delivery of one notification promises to whoever reads its     *)
(* status, with workers, leases, tokens, clocks and crashes abstracted     *)
(* away: a row is claimed before it is sent, every entry into "sending"    *)
(* counts one attempt and there are at most MaxAttempts of them, only a    *)
(* row that was never sent may be rejected unsent, "published" and         *)
(* "failed" are final, and "uncertain" is left only by the operator and    *)
(* goes back to "pending" only while attempts remain.                      *)
(***************************************************************************)
EXTENDS Naturals

CONSTANTS Messages, MaxAttempts

VARIABLES status, attempts

lifecycle == <<status, attempts>>

Move(m, from, to) ==
  /\ status[m] \in from
  /\ status' = [status EXCEPT ![m] = to]

Init ==
  /\ status = [m \in Messages |-> "absent"]
  /\ attempts = [m \in Messages |-> 0]

Request(m) == Move(m, {"absent"}, "pending") /\ UNCHANGED attempts

Claim(m) == Move(m, {"pending", "claimed"}, "claimed") /\ UNCHANGED attempts

GiveBack(m) == Move(m, {"claimed"}, "pending") /\ UNCHANGED attempts

RejectUnsent(m) ==
  /\ attempts[m] = 0
  /\ Move(m, {"pending", "claimed"}, "failed")
  /\ UNCHANGED attempts

BeginAttempt(m) ==
  /\ attempts[m] < MaxAttempts
  /\ Move(m, {"claimed"}, "sending")
  /\ attempts' = [attempts EXCEPT ![m] = @ + 1]

EndAttempt(m) ==
  /\ \E final \in {"published", "failed", "uncertain"} : Move(m, {"sending"}, final)
  /\ UNCHANGED attempts

\* After a known failure of the attempt, or on the operator's word.
TryAgain(m) ==
  /\ attempts[m] < MaxAttempts
  /\ Move(m, {"sending", "uncertain"}, "pending")
  /\ UNCHANGED attempts

ConfirmDelivered(m) == Move(m, {"uncertain"}, "published") /\ UNCHANGED attempts

Next ==
  \E m \in Messages :
    \/ Request(m) \/ Claim(m) \/ GiveBack(m) \/ RejectUnsent(m)
    \/ BeginAttempt(m) \/ EndAttempt(m) \/ TryAgain(m) \/ ConfirmDelivered(m)

Spec == Init /\ [][Next]_lifecycle
=============================================================================
