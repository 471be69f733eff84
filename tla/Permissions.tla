----------------------------- MODULE Permissions -----------------------------
(***************************************************************************)
(* Permission tiers, the grants a principal holds, and the approvals that  *)
(* actions of tier P3 and above need besides.  A tier is its rank.         *)
(***************************************************************************)
EXTENDS Naturals

Tiers == 0 .. 6
P3 == 3
P5 == 5

\* No named permission, no request hash; a grant without expiry has {}.
Absent == "absent"
Never == {}

allows(tier, required) == tier >= required

\* A named permission the principal holds: a PermissionGrant at a sufficient tier,
\* or a legacy one, which is a name and has no tier.
HoldsGrant(principal, request) ==
  \E grant \in principal.permissions :
    /\ grant.name = request.permission
    /\ grant.legacy \/ allows(grant.tier, request.tier)

evaluate_permission(principal, request) ==
  /\ principal.trusted
  /\ allows(principal.tier, request.tier)
  /\ request.permission = Absent \/ HoldsGrant(principal, request)

----------------------------------------------------------------------------
\* Approval grants.  Only `issue` marks one as trusted; the same fields put
\* together elsewhere are not.

issue(principal, action, resource, tier, expires, hash) ==
  [tenant |-> principal.tenant, id |-> principal.id, action |-> action,
   resource |-> resource, tier |-> tier, expires |-> expires, hash |-> hash,
   approved |-> TRUE, trusted |-> TRUE]

\* Fault: a grant is good until after its expiry.
ExpiredAfter(grant, now) == \E time \in grant.expires : time < now

Expired(grant, now) == \E time \in grant.expires : time <= now

Matches(grant, principal, action, resource, required, hash) ==
  /\ grant.tenant = principal.tenant
  /\ grant.id = principal.id
  /\ grant.action = action
  /\ grant.resource = resource
  /\ allows(grant.tier, required)
  /\ hash = Absent \/ grant.hash = hash

\* require_approval: below P3 the tier alone is enough, from P3 on a grant is
\* needed (`approval` is a set of at most one), and it must fit.
require_approval(principal, required, approval, action, resource, hash, now) ==
  /\ evaluate_permission(principal, [tier |-> required, permission |-> Absent])
  /\ required >= P3 =>
       \E grant \in approval :
         /\ grant.trusted
         /\ grant.approved
         /\ Matches(grant, principal, action, resource, required, hash)
         /\ ~Expired(grant, now)
=============================================================================
