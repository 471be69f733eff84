---------------------------- MODULE Authorization ----------------------------
(***************************************************************************)
(* Who may do what, over time: principals are made from verified claims,   *)
(* approvals are issued for them, kept by whoever receives them, and used  *)
(* later, by the right principal or another, for the right request or      *)
(* another, before and after they expire.  A grant is not used up.         *)
(*                                                                         *)
(* Every place that calls ApprovalGrant.issue is here: the approval store, *)
(* after a user's decision; the worker's policy, for one attempt of a      *)
(* delivery; and, without asking anybody, the replies of the two chat      *)
(* channels and the operator's resolution of an uncertain delivery.  The   *)
(* grants for replies and for attempts name the same action and differ in  *)
(* the resource: <key>:reply and <key>:reply-audio, <id>:attempt:<n>.      *)
(***************************************************************************)
EXTENDS Permissions, FiniteSets

CONSTANTS
  Tenants, Ids,       \* tenants and principal ids
  CalendarKeys,       \* resources of calendar writes
  Attempts,           \* resources of delivery attempts (dispatch keys)
  ReplyKeys,          \* resources of chat replies
  Resolutions,        \* resources of resolve_uncertain
  PrincipalTiers,     \* tiers the principals of a run may have
  TTL,                \* life of a grant that expires
  MaxGrants, MaxTime  \* bounds

\* What require_approval is called for: an action, a resource and the tier it needs.
Gate(action, resources, tier) ==
  [action : {action}, resource : resources, tier : {tier}]

Gates ==
  Gate("calendar.create_event", CalendarKeys, P3)
  \cup Gate("notification.send", Attempts \cup ReplyKeys, P5)
  \cup Gate("notification.resolve_uncertain", Resolutions, P5)

BoundsAssumption ==
  /\ Tenants # {} /\ Ids # {}
  /\ PrincipalTiers \subseteq Tiers
  /\ TTL \in Nat \ {0} /\ MaxGrants \in Nat /\ MaxTime \in Nat
  /\ Attempts \cap ReplyKeys = {}

VARIABLES
  tierOf,     \* the tier the server gives each identity
  policy,     \* the worker's approval policy: [approve, ttl], ttl a set of at most one
  now,
  requests,   \* status of the approval each identity was asked for, by resource
  reads,      \* <<identity, resource, status>> that requests to the store go by
  issued,     \* approvals issued
  done        \* the last action that was let through

vars == <<tierOf, policy, now, requests, reads, issued, done>>

Identities == Tenants \X Ids

\* principal_from_auth_claims and authenticate make trusted principals; one
\* built from a request's data is not trusted, whatever tier it claims.
Principal(who, trusted, tier) ==
  [tenant |-> who[1], id |-> who[2], tier |-> tier, trusted |-> trusted,
   permissions |-> {}]

Principals == {Principal(who, TRUE, tierOf[who]) : who \in Identities}
                \cup {Principal(who, FALSE, 6) : who \in Identities}

Who(p) == <<p.tenant, p.id>>

Nothing == [at |-> 0, tier |-> 0, who |-> CHOOSE who \in Identities : TRUE,
            trusted |-> TRUE, action |-> "none", resource |-> "none"]

Statuses == {"none", "pending", "approved", "cancelled"}

Init == /\ tierOf \in [Identities -> PrincipalTiers]
        /\ policy \in [approve : BOOLEAN, ttl : {Never, {TTL}}]
        /\ now = 0
        /\ requests = [k \in Identities \X CalendarKeys |-> "none"]
        /\ reads = {}
        /\ issued = {}
        /\ done = Nothing

----------------------------------------------------------------------------
\* What was let through before is over.
Over == done' = Nothing

\* The approval store.  What a request reads there it uses later: any number of
\* requests may have read the same status before one of them writes.

\* create: the calendar write of a reminder is the only approval that is asked for.
Create(p, key) ==
  /\ p.trusted
  /\ requests[<<Who(p), key>>] = "none"
  /\ requests' = [requests EXCEPT ![<<Who(p), key>>] = "pending"]
  /\ Over
  /\ UNCHANGED <<tierOf, policy, now, reads, issued>>

\* get, of the principal's own approvals; approve and cancel go no further with
\* one that is cancelled.
Read(p, key) ==
  /\ p.trusted
  /\ requests[<<Who(p), key>>] \notin {"none", "cancelled"}
  /\ reads' = reads \cup {<<Who(p), key, requests[<<Who(p), key>>]>>}
  /\ Over
  /\ UNCHANGED <<tierOf, policy, now, requests, issued>>

Issue(grant) == Cardinality(issued) < MaxGrants /\ issued' = issued \cup {grant}

\* approve: the approver must reach the tier approved, and the grant is for the
\* approver.  One that was pending is marked, unless mark_approved meets it
\* decided.  The hash pins the request, and no gate asks for it.
Approve(p, key, status) ==
  /\ <<Who(p), key, status>> \in reads
  /\ evaluate_permission(p, [tier |-> P3, permission |-> Absent])
  /\ \/ /\ status = "pending"
        /\ requests' = [requests EXCEPT ![<<Who(p), key>>] = "approved"]
     \/ /\ status = "approved" \/ requests[<<Who(p), key>>] # "pending"
        /\ UNCHANGED requests
  /\ Issue(issue(p, "calendar.create_event", key, P3, Never, key))
  /\ Over
  /\ UNCHANGED <<tierOf, policy, now, reads>>

\* cancel: only one that was pending is written.
Reject(p, key) ==
  /\ p.trusted
  /\ <<Who(p), key, "pending">> \in reads
  /\ requests' = [requests EXCEPT ![<<Who(p), key>>] = "cancelled"]
  /\ Over
  /\ UNCHANGED <<tierOf, policy, now, reads, issued>>

----------------------------------------------------------------------------
\* Grants that nobody is asked for; `issue' asks nothing of the principal.

\* The worker's policy: a grant for one attempt, good for the policy's TTL from
\* the beginning of the tick, or for ever when the policy has none.
approval_for(p, attempt, ran_at) ==
  issue(p, "notification.send", attempt, P5, {ran_at + ttl : ttl \in policy.ttl}, Absent)

ApproveDelivery(p, attempt, ran_at) ==
  /\ policy.approve
  /\ Issue(approval_for(p, attempt, ran_at))
  /\ Over
  /\ UNCHANGED <<tierOf, policy, now, requests, reads>>

\* _send_telegram_reply, its audio, and _send_whatsapp_reply.
ApproveReply(p, key) ==
  /\ Issue(issue(p, "notification.send", key, P5, Never, Absent))
  /\ Over
  /\ UNCHANGED <<tierOf, policy, now, requests, reads>>

\* The resolve route and the worker's command line.
ApproveResolution(p, key) ==
  /\ Issue(issue(p, "notification.resolve_uncertain", key, P5, Never, Absent))
  /\ Over
  /\ UNCHANGED <<tierOf, policy, now, requests, reads>>

----------------------------------------------------------------------------
\* A grant someone else was issued, one put together without `issue' from its
\* fields, or none at all.
Presented == {{}} \cup {{g} : g \in issued}
               \cup {{[g EXCEPT !.trusted = FALSE]} : g \in issued}
               \cup {{[g EXCEPT !.trusted = FALSE, !.tier = 6, !.expires = Never]} :
                       g \in issued}

\* A tool, the calendar or the outbox asks before it acts.
Act(p, gate, approval) ==
  /\ require_approval(p, gate.tier, approval, gate.action, gate.resource, Absent, now)
  /\ done' = [at |-> now, tier |-> gate.tier, who |-> Who(p), trusted |-> p.trusted,
              action |-> gate.action, resource |-> gate.resource]
  /\ UNCHANGED <<tierOf, policy, now, requests, reads, issued>>

Passes == /\ now < MaxTime
          /\ now' = now + 1
          /\ Over
          /\ UNCHANGED <<tierOf, policy, requests, reads, issued>>

Next ==
  \/ \E p \in Principals, key \in CalendarKeys :
       \/ Create(p, key) \/ Read(p, key) \/ Reject(p, key)
       \/ \E status \in Statuses : Approve(p, key, status)
  \/ \E p \in Principals, attempt \in Attempts, ran_at \in 0 .. now :
       ApproveDelivery(p, attempt, ran_at)
  \/ \E p \in Principals, key \in ReplyKeys : ApproveReply(p, key)
  \/ \E p \in Principals, key \in Resolutions : ApproveResolution(p, key)
  \/ \E p \in Principals, gate \in Gates, approval \in Presented : Act(p, gate, approval)
  \/ Passes

Spec == Init /\ [][Next]_vars

----------------------------------------------------------------------------
\* Properties.

\* Grants and the action let through have the types the code gives them.
TypeOK ==
  /\ tierOf \in [Identities -> PrincipalTiers]
  /\ policy \in [approve : BOOLEAN, ttl : {Never, {TTL}}]
  /\ now \in 0 .. MaxTime
  /\ requests \in [Identities \X CalendarKeys -> Statuses]
  /\ reads \subseteq Identities \X CalendarKeys \X Statuses
  /\ Cardinality(issued) <= MaxGrants
  /\ \A g \in issued : /\ <<g.tenant, g.id>> \in Identities
                       /\ [action |-> g.action, resource |-> g.resource, tier |-> g.tier]
                            \in Gates
                       /\ g.expires \in {Never} \cup {{time} : time \in TTL .. (MaxTime + TTL)}
                       /\ g.approved /\ g.trusted
  /\ done.tier \in {0, P3, P5}

\* A grant that stands behind the last action: for that identity, action and
\* resource, at that tier or above.
Covers(g) ==
  /\ <<g.tenant, g.id>> = done.who
  /\ g.action = done.action /\ g.resource = done.resource
  /\ g.tier >= done.tier

\* What P3 and above lets through was approved for exactly that: a copied,
\* forged or foreign grant opens nothing.
HighTiersApproved ==
  done.tier >= P3 => \E g \in issued : Covers(g)

\* An attempt to deliver is let through only under a policy that approves, and,
\* when the policy has a TTL, only while a grant issued for this attempt is younger
\* than that: the grants without expiry that chat replies are given never stand in.
ExpiredOpensNothing ==
  (done.tier >= P3 /\ done.action = "notification.send" /\ done.resource \in Attempts) =>
    /\ policy.approve
    /\ \A ttl \in policy.ttl :
         \E g \in issued : /\ Covers(g)
                           /\ \E time \in g.expires : done.at < time /\ done.at >= time - ttl

\* The calendar is written only for a request that this very principal had made,
\* and that had not been cancelled when the approval of it began.
CalendarWasAsked ==
  (done.tier >= P3 /\ done.action = "calendar.create_event") =>
    /\ requests[<<done.who, done.resource>>] # "none"
    /\ \E status \in {"pending", "approved"} : <<done.who, done.resource, status>> \in reads

\* Nobody acts above the tier the server gave them, with any grant.
TierIsCeiling == done.trusted /\ done.tier <= tierOf[done.who]

\* What was let through was covered, then, by the tier of whoever acted and by an
\* approval made for it.
ApprovalsHonoured ==
  /\ TypeOK
  /\ HighTiersApproved
  /\ ExpiredOpensNothing
  /\ CalendarWasAsked
  /\ TierIsCeiling
=============================================================================
