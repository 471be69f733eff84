----------------------------- MODULE BoundaryProofs -----------------------------
(***************************************************************************)
(* Proofs about Boundaries: who may do what, and with which approval       *)
(* (Authorization), who gets in (LocalAuth), where the service itself may  *)
(* connect to (RuntimeEgress), what the commands do to its traces          *)
(* (TraceStore), and what is kept of an event's metadata (TracePrivacy).   *)
(* Each is proved of its component, from the assumptions the component's   *)
(* module states, and holds in Boundaries because a behaviour follows one  *)
(* component and leaves the others alone.                                  *)
(***************************************************************************)
EXTENDS Boundaries, Integers, Sequences, FiniteSets, FiniteSetTheorems, TLAPS

-----------------------------------------------------------------------------
\* A step is a step of the part that is followed.
LEMMA PartsApart ==
  [Next]_vars =>
    /\ part' = part
    /\ part = "sessions" => [L!Next]_L!vars
    /\ part = "grants" => [A!Next]_A!vars
    /\ part = "egress" => [E!Next]_E!vars
    /\ part = "traces" => [T!Next]_T!vars
    /\ part = "privacy" => [P!Next]_P!vars
BY DEF Next, vars, sessionVars, grantVars, egressVars, traceVars, eventVars, L!vars, A!vars,
       E!vars, T!vars, P!vars

-----------------------------------------------------------------------------
(* Approvals.                                                              *)
(*                                                                         *)
(* What require_approval compares at the time of an action stays true      *)
(* because grants are never withdrawn or changed: the invariant says what  *)
(* every issued grant is, by the place that issued it, and that the grant  *)
(* behind the last action is one of them.  Forged copies are not trusted,  *)
(* so they never were that grant.  A request the store was asked for may   *)
(* be decided and decided again, but it never goes away, and what was read *)
(* of it stays read: that carries a calendar grant back to its request.    *)

Grants ==
  [tenant : Tenants, id : Ids,
   action : {"calendar.create_event", "notification.send", "notification.resolve_uncertain"},
   resource : CalendarKeys \cup Attempts \cup ReplyKeys \cup Resolutions,
   tier : {A!P3, A!P5}, expires : SUBSET Nat, hash : CalendarKeys \cup {A!Absent},
   approved : {TRUE}, trusted : {TRUE}]

GoodStatuses == {"pending", "approved"}

\* What the approval store issues.
CalendarGrant(g) ==
  /\ g.action = "calendar.create_event" /\ g.resource \in CalendarKeys /\ g.tier = A!P3
  /\ g.expires = A!Never
  /\ \E status \in GoodStatuses : <<<<g.tenant, g.id>>, g.resource, status>> \in reads

\* What the worker's policy issues: it expires when the policy has a TTL.
AttemptGrant(g) ==
  /\ g.action = "notification.send" /\ g.resource \in Attempts /\ g.tier = A!P5
  /\ policy.approve
  /\ \E ran_at \in 0 .. clock : g.expires = {ran_at + ttl : ttl \in policy.ttl}

\* What the chat replies and the operator's resolutions are given.
ReplyGrant(g) ==
  /\ g.action = "notification.send" /\ g.resource \in ReplyKeys /\ g.tier = A!P5
  /\ g.expires = A!Never

ResolutionGrant(g) ==
  /\ g.action = "notification.resolve_uncertain" /\ g.resource \in Resolutions
  /\ g.tier = A!P5 /\ g.expires = A!Never

GrantInv(g) ==
  /\ g \in Grants
  /\ CalendarGrant(g) \/ AttemptGrant(g) \/ ReplyGrant(g) \/ ResolutionGrant(g)

\* What was read of a request the request once was, and it is there still.
AsksInv ==
  /\ requests \in [A!Identities \X CalendarKeys -> A!Statuses]
  /\ reads \subseteq A!Identities \X CalendarKeys \X GoodStatuses
  /\ \A who \in A!Identities, key \in CalendarKeys, status \in GoodStatuses :
       <<who, key, status>> \in reads => requests[<<who, key>>] # "none"

PolicyInv ==
  /\ tierOf \in [A!Identities -> PrincipalTiers]
  /\ policy \in [approve : BOOLEAN, ttl : {A!Never, {TTL}}]
  /\ clock \in 0 .. MaxTime

\* The last action, or none.
DoneInv ==
  /\ done.tier \in {0, A!P3, A!P5}
  /\ A!HighTiersApproved
  /\ A!ExpiredOpensNothing
  /\ A!CalendarWasAsked
  /\ A!TierIsCeiling

GrantsInv ==
  /\ PolicyInv
  /\ AsksInv
  /\ IsFiniteSet(issued) /\ Cardinality(issued) <= MaxGrants
  /\ \A g \in issued : GrantInv(g)
  /\ DoneInv

\* The instance's Cardinality is the one the library's theorems are about.
LEMMA SameCardinality == \A S : A!Cardinality(S) = Cardinality(S)
BY DEF A!Cardinality, Cardinality

LEMMA TiersAreNumbers ==
  ASSUME A!BoundsAssumption
  PROVE  \A tier \in PrincipalTiers : tier \in Nat
BY DEF A!BoundsAssumption, A!Tiers

\* After a step that lets nothing through there is nothing to answer for.
LEMMA NothingDone ==
  ASSUME A!BoundsAssumption, PolicyInv', done' = A!Nothing
  PROVE  DoneInv'
<1>1. PICK tenant \in Tenants, id \in Ids : TRUE
  BY DEF A!BoundsAssumption
<1>2. <<tenant, id>> \in A!Identities
  BY <1>1 DEF A!Identities
<1>3. done'.tier = 0 /\ done'.who \in A!Identities /\ done'.trusted = TRUE
  BY <1>2 DEF A!Nothing
<1>4. tierOf'[done'.who] \in Nat
  BY <1>3, TiersAreNumbers DEF PolicyInv, A!Identities
<1>5. ~(0 >= A!P3) /\ 0 <= tierOf'[done'.who]
  BY <1>4 DEF A!P3
<1> QED
  BY <1>3, <1>5 DEF DoneInv, A!TierIsCeiling, A!HighTiersApproved,
                    A!ExpiredOpensNothing, A!CalendarWasAsked

\* The same in the first state.
LEMMA NothingDoneYet ==
  ASSUME A!BoundsAssumption, PolicyInv, done = A!Nothing
  PROVE  DoneInv
<1>1. PICK tenant \in Tenants, id \in Ids : TRUE
  BY DEF A!BoundsAssumption
<1>2. <<tenant, id>> \in A!Identities
  BY <1>1 DEF A!Identities
<1>3. done.tier = 0 /\ done.who \in A!Identities /\ done.trusted = TRUE
  BY <1>2 DEF A!Nothing
<1>4. tierOf[done.who] \in Nat
  BY <1>3, TiersAreNumbers DEF PolicyInv
<1>5. ~(0 >= A!P3) /\ 0 <= tierOf[done.who]
  BY <1>4 DEF A!P3
<1> QED
  BY <1>3, <1>5 DEF DoneInv, A!TierIsCeiling, A!HighTiersApproved,
                    A!ExpiredOpensNothing, A!CalendarWasAsked

\* Every principal is of an identity; one that is trusted has the server's tier.
LEMMA PrincipalsKnown ==
  ASSUME NEW p \in A!Principals
  PROVE  /\ p.tenant \in Tenants /\ p.id \in Ids
         /\ A!Who(p) \in A!Identities /\ A!Who(p) = <<p.tenant, p.id>>
         /\ p.trusted => p.tier = tierOf[A!Who(p)] /\ p.trusted = TRUE
<1>1. CASE \E who \in A!Identities : p = A!Principal(who, TRUE, tierOf[who])
  BY <1>1 DEF A!Principal, A!Identities, A!Who
<1>2. CASE \E who \in A!Identities : p = A!Principal(who, FALSE, 6)
  BY <1>2 DEF A!Principal, A!Identities, A!Who
<1> QED
  BY <1>1, <1>2 DEF A!Principals

\* Requests are decided and read; none goes away.
LEMMA AsksKept ==
  ASSUME GrantsInv, NEW asked, NEW status \in A!Statuses, asked \in A!Identities \X CalendarKeys,
         status # "none",
         requests' = [requests EXCEPT ![asked] = status] \/ requests' = requests,
         reads' = reads
  PROVE  AsksInv'
<1>1. requests' \in [A!Identities \X CalendarKeys -> A!Statuses]
  BY DEF GrantsInv, AsksInv
<1>2. ASSUME NEW k \in A!Identities \X CalendarKeys, requests[k] # "none"
      PROVE  requests'[k] # "none"
  BY <1>2 DEF GrantsInv, AsksInv
<1> QED
  BY <1>1, <1>2 DEF GrantsInv, AsksInv, A!Identities

\* What a grant is stays true while time passes and more is read.
LEMMA GrantKept ==
  ASSUME GrantsInv, NEW g, GrantInv(g), reads \subseteq reads', policy' = policy,
         clock' \in Nat, clock' >= clock
  PROVE  GrantInv(g)'
<1>1. CalendarGrant(g) => CalendarGrant(g)'
  BY DEF CalendarGrant
<1>2. AttemptGrant(g) => AttemptGrant(g)'
  <2>1. \A ran_at \in 0 .. clock : ran_at \in 0 .. clock'
    BY DEF GrantsInv, PolicyInv
  <2> QED
    BY <2>1 DEF AttemptGrant
<1> QED
  BY <1>1, <1>2 DEF GrantInv, ReplyGrant, ResolutionGrant

\* A step of the store, or of time, that issues nothing.
LEMMA NoneIssued ==
  ASSUME A!BoundsAssumption, GrantsInv, AsksInv', PolicyInv', issued' = issued,
         done' = A!Nothing, reads \subseteq reads', policy' = policy, clock' >= clock
  PROVE  GrantsInv'
<1>1. clock' \in Nat
  BY DEF PolicyInv
<1>2. \A g \in issued' : GrantInv(g)'
  BY <1>1, GrantKept DEF GrantsInv
<1>3. DoneInv'
  BY NothingDone
<1> QED
  BY <1>2, <1>3 DEF GrantsInv

\* Another grant, of one of the four kinds.
LEMMA GrantAdded ==
  ASSUME A!BoundsAssumption, GrantsInv, NEW g, GrantInv(g), A!Issue(g), AsksInv',
         done' = A!Nothing, UNCHANGED <<tierOf, policy, clock, reads>>
  PROVE  GrantsInv'
<1>1. IsFiniteSet(issued') /\ Cardinality(issued') <= MaxGrants
  <2>1. Cardinality(issued) < MaxGrants /\ issued' = issued \cup {g}
    BY SameCardinality DEF A!Issue
  <2>2. /\ IsFiniteSet(issued')
        /\ Cardinality(issued') \in {Cardinality(issued), Cardinality(issued) + 1}
    BY <2>1, FS_AddElement DEF GrantsInv
  <2>3. Cardinality(issued) \in Nat
    BY FS_CardinalityType DEF GrantsInv
  <2> QED
    BY <2>1, <2>2, <2>3 DEF GrantsInv, A!BoundsAssumption
<1>2. clock' \in Nat /\ clock' >= clock /\ PolicyInv'
  BY DEF GrantsInv, PolicyInv
<1>3. \A h \in issued' : GrantInv(h)'
  <2>1. \A h : GrantInv(h) => GrantInv(h)'
    BY <1>2, GrantKept
  <2> QED
    BY <2>1 DEF GrantsInv, A!Issue
<1>4. DoneInv'
  BY <1>2, NothingDone
<1> QED
  BY <1>1, <1>2, <1>3, <1>4 DEF GrantsInv

-----------------------------------------------------------------------------
\* The approval store.

LEMMA CreateSafe ==
  ASSUME A!BoundsAssumption, GrantsInv, NEW p \in A!Principals, NEW key \in CalendarKeys,
         A!Create(p, key)
  PROVE  GrantsInv'
<1>1. <<A!Who(p), key>> \in A!Identities \X CalendarKeys
  BY PrincipalsKnown
<1>2. AsksInv'
  BY <1>1, AsksKept DEF A!Create, A!Statuses
<1>3. PolicyInv' /\ clock' >= clock
  BY DEF A!Create, GrantsInv, PolicyInv
<1> QED
  BY <1>2, <1>3, NoneIssued DEF A!Create, A!Over

LEMMA ReadRequestSafe ==
  ASSUME A!BoundsAssumption, GrantsInv, NEW p \in A!Principals, NEW key \in CalendarKeys,
         A!Read(p, key)
  PROVE  GrantsInv'
<1>1. A!Who(p) \in A!Identities
  BY PrincipalsKnown
<1>2. PICK status : status = requests[<<A!Who(p), key>>]
  OBVIOUS
<1>3. status \in GoodStatuses
  BY <1>1, <1>2 DEF A!Read, GrantsInv, AsksInv, A!Statuses, GoodStatuses
<1>4. reads' = reads \cup {<<A!Who(p), key, status>>} /\ requests' = requests
  BY <1>2 DEF A!Read
<1>5. AsksInv'
  BY <1>1, <1>2, <1>3, <1>4 DEF GrantsInv, AsksInv, GoodStatuses
<1>6. PolicyInv' /\ clock' >= clock
  BY DEF A!Read, GrantsInv, PolicyInv
<1> QED
  BY <1>4, <1>5, <1>6, NoneIssued DEF A!Read, A!Over

LEMMA RejectSafe ==
  ASSUME A!BoundsAssumption, GrantsInv, NEW p \in A!Principals, NEW key \in CalendarKeys,
         A!Reject(p, key)
  PROVE  GrantsInv'
<1>1. <<A!Who(p), key>> \in A!Identities \X CalendarKeys
  BY PrincipalsKnown
<1>2. AsksInv'
  BY <1>1, AsksKept DEF A!Reject, A!Statuses
<1>3. PolicyInv' /\ clock' >= clock
  BY DEF A!Reject, GrantsInv, PolicyInv
<1> QED
  BY <1>2, <1>3, NoneIssued DEF A!Reject, A!Over

\* The approver is the principal the grant is for, and had read the request.
LEMMA ApproveSafe ==
  ASSUME A!BoundsAssumption, GrantsInv, NEW p \in A!Principals, NEW key \in CalendarKeys,
         NEW status \in A!Statuses, A!Approve(p, key, status)
  PROVE  GrantsInv'
<1>1. A!Who(p) = <<p.tenant, p.id>> /\ p.tenant \in Tenants /\ p.id \in Ids
      /\ <<A!Who(p), key>> \in A!Identities \X CalendarKeys
  BY PrincipalsKnown
<1>2. AsksInv'
  BY <1>1, AsksKept DEF A!Approve, A!Statuses
<1>3. PICK g : g = A!issue(p, "calendar.create_event", key, A!P3, A!Never, key)
  OBVIOUS
<1>4. g \in Grants
  BY <1>1, <1>3 DEF A!issue, A!Never, Grants
<1>5. <<A!Who(p), key, status>> \in reads
  BY DEF A!Approve
<1>6. status \in GoodStatuses
  BY <1>5 DEF GrantsInv, AsksInv
<1>7. CalendarGrant(g)
  BY <1>1, <1>3, <1>5, <1>6 DEF A!issue, CalendarGrant
<1>8. A!Issue(g) /\ done' = A!Nothing /\ UNCHANGED <<tierOf, policy, clock, reads>>
  BY <1>3 DEF A!Approve, A!Over
<1> QED
  BY <1>2, <1>4, <1>7, <1>8, GrantAdded DEF GrantInv

-----------------------------------------------------------------------------
\* Grants nobody is asked for.

\* The worker's policy: the grant expires when the policy says so.
LEMMA ApproveDeliverySafe ==
  ASSUME A!BoundsAssumption, GrantsInv, NEW p \in A!Principals, NEW attempt \in Attempts,
         NEW ran_at \in 0 .. clock, A!ApproveDelivery(p, attempt, ran_at)
  PROVE  GrantsInv'
<1>1. p.tenant \in Tenants /\ p.id \in Ids
  BY PrincipalsKnown
<1>2. PICK g : g = A!approval_for(p, attempt, ran_at)
  OBVIOUS
<1>3. PICK until : until = {ran_at + ttl : ttl \in policy.ttl}
  OBVIOUS
<1>4. until \in SUBSET Nat
  <2>1. policy.ttl \subseteq Nat
    BY DEF GrantsInv, PolicyInv, A!Never, A!BoundsAssumption
  <2>2. ran_at \in Nat
    BY DEF GrantsInv, PolicyInv
  <2> QED
    BY <1>3, <2>1, <2>2
<1>5. g \in Grants /\ g.expires = until /\ g.action = "notification.send"
      /\ g.resource = attempt /\ g.tier = A!P5
  BY <1>1, <1>2, <1>3, <1>4 DEF A!approval_for, A!issue, Grants
<1>6. AttemptGrant(g)
  BY <1>3, <1>5 DEF AttemptGrant, A!ApproveDelivery
<1>7. AsksInv'
  BY DEF A!ApproveDelivery, GrantsInv, AsksInv
<1>8. A!Issue(g) /\ done' = A!Nothing /\ UNCHANGED <<tierOf, policy, clock, reads>>
  BY <1>2 DEF A!ApproveDelivery, A!Over
<1> QED
  BY <1>5, <1>6, <1>7, <1>8, GrantAdded DEF GrantInv

LEMMA ApproveReplySafe ==
  ASSUME A!BoundsAssumption, GrantsInv, NEW p \in A!Principals, NEW key \in ReplyKeys,
         A!ApproveReply(p, key)
  PROVE  GrantsInv'
<1>1. p.tenant \in Tenants /\ p.id \in Ids
  BY PrincipalsKnown
<1>2. PICK g : g = A!issue(p, "notification.send", key, A!P5, A!Never, A!Absent)
  OBVIOUS
<1>3. g \in Grants /\ ReplyGrant(g)
  BY <1>1, <1>2 DEF A!issue, A!Never, Grants, ReplyGrant
<1>4. AsksInv'
  BY DEF A!ApproveReply, GrantsInv, AsksInv
<1>5. A!Issue(g) /\ done' = A!Nothing /\ UNCHANGED <<tierOf, policy, clock, reads>>
  BY <1>2 DEF A!ApproveReply, A!Over
<1> QED
  BY <1>3, <1>4, <1>5, GrantAdded DEF GrantInv

LEMMA ApproveResolutionSafe ==
  ASSUME A!BoundsAssumption, GrantsInv, NEW p \in A!Principals, NEW key \in Resolutions,
         A!ApproveResolution(p, key)
  PROVE  GrantsInv'
<1>1. p.tenant \in Tenants /\ p.id \in Ids
  BY PrincipalsKnown
<1>2. PICK g : g = A!issue(p, "notification.resolve_uncertain", key, A!P5, A!Never, A!Absent)
  OBVIOUS
<1>3. g \in Grants /\ ResolutionGrant(g)
  BY <1>1, <1>2 DEF A!issue, A!Never, Grants, ResolutionGrant
<1>4. AsksInv'
  BY DEF A!ApproveResolution, GrantsInv, AsksInv
<1>5. A!Issue(g) /\ done' = A!Nothing /\ UNCHANGED <<tierOf, policy, clock, reads>>
  BY <1>2 DEF A!ApproveResolution, A!Over
<1> QED
  BY <1>3, <1>4, <1>5, GrantAdded DEF GrantInv

-----------------------------------------------------------------------------
\* A grant that passes require_approval is an issued one, whatever was presented.
LEMMA PresentedIsIssued ==
  ASSUME GrantsInv, NEW approval \in A!Presented, NEW g \in approval, g.trusted
  PROVE  g \in issued
<1>1. \A h \in issued : /\ [h EXCEPT !.trusted = FALSE].trusted = FALSE
                        /\ [h EXCEPT !.trusted = FALSE, !.tier = 6,
                                     !.expires = A!Never].trusted = FALSE
  BY DEF GrantsInv, GrantInv, Grants
<1> QED
  BY <1>1 DEF A!Presented

\* What lets an attempt through was issued for it by the policy, and is young enough.
LEMMA AttemptIsYoung ==
  ASSUME A!BoundsAssumption, GrantsInv, NEW g \in issued, g.action = "notification.send",
         g.resource \in Attempts, ~A!Expired(g, clock)
  PROVE  /\ policy.approve
         /\ \A ttl \in policy.ttl :
              \E time \in g.expires : clock < time /\ clock >= time - ttl
<1>1. AttemptGrant(g)
  BY DEF GrantsInv, GrantInv, CalendarGrant, ReplyGrant, ResolutionGrant, A!BoundsAssumption
<1>2. PICK ran_at \in 0 .. clock : g.expires = {ran_at + ttl : ttl \in policy.ttl}
  BY <1>1 DEF AttemptGrant
<1>3. ASSUME NEW ttl \in policy.ttl
      PROVE  \E time \in g.expires : clock < time /\ clock >= time - ttl
  <2>1. ttl \in Nat /\ clock \in Nat /\ ran_at \in Nat /\ ran_at <= clock
    BY <1>3 DEF GrantsInv, PolicyInv, A!Never, A!BoundsAssumption
  <2>2. ran_at + ttl \in g.expires
    BY <1>2
  <2>3. ~(ran_at + ttl <= clock)
    BY <2>2 DEF A!Expired
  <2>4. clock < ran_at + ttl /\ clock >= (ran_at + ttl) - ttl
    BY <2>1, <2>3
  <2> QED
    BY <2>2, <2>4
<1> QED
  BY <1>1, <1>3 DEF AttemptGrant

\* What lets a calendar write through goes back to a request.
LEMMA CalendarGoesBack ==
  ASSUME GrantsInv, NEW g \in issued, g.action = "calendar.create_event"
  PROVE  /\ requests[<<<<g.tenant, g.id>>, g.resource>>] # "none"
         /\ \E status \in GoodStatuses : <<<<g.tenant, g.id>>, g.resource, status>> \in reads
<1>1. CalendarGrant(g) /\ g \in Grants
  BY DEF GrantsInv, GrantInv, AttemptGrant, ReplyGrant, ResolutionGrant
<1>2. PICK status \in GoodStatuses : <<<<g.tenant, g.id>>, g.resource, status>> \in reads
  BY <1>1 DEF CalendarGrant
<1>3. <<g.tenant, g.id>> \in A!Identities /\ g.resource \in CalendarKeys
  BY <1>1 DEF CalendarGrant, Grants, A!Identities
<1> QED
  BY <1>2, <1>3 DEF GrantsInv, AsksInv

\* An action goes through on the strength of an issued grant that fits it then.
LEMMA ActSafe ==
  ASSUME A!BoundsAssumption, GrantsInv, NEW p \in A!Principals, NEW gate \in A!Gates,
         NEW approval \in A!Presented, A!Act(p, gate, approval)
  PROVE  GrantsInv'
<1>1. /\ p.trusted
      /\ p.tier >= gate.tier
  BY DEF A!Act, A!require_approval, A!evaluate_permission, A!allows
<1>2. /\ A!Who(p) \in A!Identities /\ A!Who(p) = <<p.tenant, p.id>>
      /\ p.tier = tierOf[A!Who(p)]
      /\ p.trusted = TRUE
  BY <1>1, PrincipalsKnown
<1>3. /\ done'.at = clock /\ done'.tier = gate.tier /\ done'.who = A!Who(p)
      /\ done'.trusted = p.trusted /\ done'.action = gate.action
      /\ done'.resource = gate.resource
      /\ UNCHANGED <<tierOf, policy, clock, requests, reads, issued>>
  BY DEF A!Act
<1>4. gate.tier \in {A!P3, A!P5} /\ gate.tier \in Nat /\ gate.tier >= A!P3
  BY DEF A!Gates, A!Gate, A!P3, A!P5
<1>5. PICK g \in approval : /\ g.trusted
                            /\ A!Matches(g, p, gate.action, gate.resource, gate.tier, A!Absent)
                            /\ ~A!Expired(g, clock)
  BY <1>4 DEF A!Act, A!require_approval
<1>6. g \in issued
  BY <1>5, PresentedIsIssued
<1>7. /\ <<g.tenant, g.id>> = A!Who(p)
      /\ g.action = gate.action /\ g.resource = gate.resource /\ g.tier >= gate.tier
  BY <1>2, <1>5 DEF A!Matches, A!allows
<1>8. A!Covers(g)'
  BY <1>3, <1>7 DEF A!Covers
<1>9. A!HighTiersApproved'
  BY <1>3, <1>6, <1>8 DEF A!HighTiersApproved
<1>10. A!ExpiredOpensNothing'
  <2> SUFFICES ASSUME gate.action = "notification.send", gate.resource \in Attempts
               PROVE  /\ policy.approve
                      /\ \A ttl \in policy.ttl :
                           \E time \in g.expires : clock < time /\ clock >= time - ttl
    BY <1>3, <1>6, <1>8 DEF A!ExpiredOpensNothing
  <2> QED
    BY <1>5, <1>6, <1>7, AttemptIsYoung
<1>11. A!CalendarWasAsked'
  <2> SUFFICES ASSUME gate.action = "calendar.create_event"
               PROVE  /\ requests[<<A!Who(p), gate.resource>>] # "none"
                      /\ \E status \in GoodStatuses :
                           <<A!Who(p), gate.resource, status>> \in reads
    BY <1>3 DEF A!CalendarWasAsked, GoodStatuses
  <2> QED
    BY <1>6, <1>7, CalendarGoesBack
<1>12. A!TierIsCeiling'
  <2>1. tierOf[A!Who(p)] \in Nat
    BY <1>2, TiersAreNumbers DEF GrantsInv, PolicyInv
  <2>2. gate.tier <= tierOf[A!Who(p)]
    BY <2>1, <1>1, <1>2, <1>4
  <2> QED
    BY <1>2, <1>3, <2>2 DEF A!TierIsCeiling
<1>13. DoneInv'
  BY <1>3, <1>4, <1>9, <1>10, <1>11, <1>12 DEF DoneInv
<1>14. PolicyInv' /\ AsksInv' /\ \A h \in issued' : GrantInv(h)'
  BY <1>3 DEF GrantsInv, PolicyInv, AsksInv, GrantInv, CalendarGrant, AttemptGrant,
              ReplyGrant, ResolutionGrant
<1> QED
  BY <1>3, <1>13, <1>14 DEF GrantsInv

LEMMA GrantsPassesSafe ==
  ASSUME A!BoundsAssumption, GrantsInv, A!Passes
  PROVE  GrantsInv'
<1>1. PolicyInv' /\ clock' >= clock
  BY DEF A!Passes, GrantsInv, PolicyInv, A!BoundsAssumption
<1>2. AsksInv'
  BY DEF A!Passes, GrantsInv, AsksInv
<1> QED
  BY <1>1, <1>2, NoneIssued DEF A!Passes, A!Over

LEMMA GrantsInitial ==
  ASSUME A!BoundsAssumption, A!Init
  PROVE  GrantsInv
<1>1. PolicyInv
  BY DEF A!Init, PolicyInv, A!BoundsAssumption
<1>2. AsksInv
  BY DEF A!Init, AsksInv, A!Statuses
<1>3. IsFiniteSet(issued) /\ Cardinality(issued) = 0 /\ issued = {}
  BY FS_EmptySet DEF A!Init
<1>4. DoneInv
  BY <1>1, NothingDoneYet DEF A!Init
<1> QED
  BY <1>1, <1>2, <1>3, <1>4 DEF GrantsInv, A!BoundsAssumption

\* What the grants are makes them what the code's types say.
LEMMA GrantsTyped ==
  ASSUME A!BoundsAssumption, GrantsInv
  PROVE  A!TypeOK
<1>1. ASSUME NEW g \in issued
      PROVE  g.expires \in {A!Never} \cup {{time} : time \in TTL .. (MaxTime + TTL)}
  <2>1. CASE g.expires = A!Never
    BY <2>1
  <2>2. CASE AttemptGrant(g)
    <3>1. PICK ran_at \in 0 .. clock : g.expires = {ran_at + ttl : ttl \in policy.ttl}
      BY <2>2 DEF AttemptGrant
    <3>2. CASE policy.ttl = {TTL}
      <4>1. ran_at + TTL \in TTL .. (MaxTime + TTL)
        BY DEF GrantsInv, PolicyInv, A!BoundsAssumption
      <4>2. g.expires = {ran_at + TTL}
        BY <3>1, <3>2
      <4> QED
        BY <4>1, <4>2
    <3>3. CASE policy.ttl = A!Never
      <4>1. g.expires = A!Never
        BY <3>1, <3>3 DEF A!Never
      <4> QED
        BY <4>1
    <3> QED
      BY <3>2, <3>3 DEF GrantsInv, PolicyInv
  <2> QED
    BY <2>1, <2>2 DEF GrantsInv, GrantInv, CalendarGrant, ReplyGrant, ResolutionGrant
<1>2. ASSUME NEW g \in issued
      PROVE  /\ <<g.tenant, g.id>> \in A!Identities /\ g.approved /\ g.trusted
             /\ [action |-> g.action, resource |-> g.resource, tier |-> g.tier] \in A!Gates
  <2>1. g \in Grants
    BY DEF GrantsInv, GrantInv
  <2>2. [action |-> g.action, resource |-> g.resource, tier |-> g.tier] \in A!Gates
    BY DEF GrantsInv, GrantInv, CalendarGrant, AttemptGrant, ReplyGrant, ResolutionGrant,
           A!Gates, A!Gate
  <2> QED
    BY <2>1, <2>2 DEF Grants, A!Identities
<1>3. reads \subseteq A!Identities \X CalendarKeys \X A!Statuses
  BY DEF GrantsInv, AsksInv, GoodStatuses, A!Statuses
<1>4. Cardinality(issued) <= MaxGrants /\ done.tier \in {0, A!P3, A!P5}
  BY DEF GrantsInv, DoneInv
<1> QED
  BY <1>1, <1>2, <1>3, <1>4, SameCardinality
     DEF GrantsInv, PolicyInv, AsksInv, A!TypeOK

\* The component on its own.
LEMMA GrantsPart ==
  ASSUME A!BoundsAssumption
  PROVE  A!Spec => []A!ApprovalsHonoured
<1>1. A!Init => GrantsInv
  BY GrantsInitial
<1>2. GrantsInv /\ [A!Next]_A!vars => GrantsInv'
  <2> SUFFICES ASSUME GrantsInv, [A!Next]_A!vars PROVE GrantsInv'
    OBVIOUS
  <2>1. CASE UNCHANGED A!vars
    BY <2>1 DEF A!vars, GrantsInv, PolicyInv, AsksInv, GrantInv, CalendarGrant, AttemptGrant,
                ReplyGrant, ResolutionGrant, DoneInv, A!Covers, A!HighTiersApproved,
                A!ExpiredOpensNothing, A!CalendarWasAsked, A!TierIsCeiling
  <2>2. CASE A!Next
    BY <2>2, CreateSafe, ReadRequestSafe, RejectSafe, ApproveSafe, ApproveDeliverySafe,
       ApproveReplySafe, ApproveResolutionSafe, ActSafe, GrantsPassesSafe DEF A!Next
  <2> QED
    BY <2>1, <2>2
<1>3. GrantsInv => A!ApprovalsHonoured
  BY GrantsTyped DEF GrantsInv, DoneInv, A!ApprovalsHonoured
<1> QED
  BY <1>1, <1>2, <1>3, PTL DEF A!Spec

\* Whatever principals, grants and requests there are, require_approval lets an action
\* of tier P3 or above through only with an issued grant for that identity, action and
\* resource: for an attempt to deliver one the worker's policy issued for it and that
\* has not expired, although chat replies are given grants of the same action that
\* never do; for a calendar write one that goes back to a request of that identity.
\* Nobody acts above the tier the server gave them.
THEOREM ApprovalsAlwaysHonoured ==
  ASSUME A!BoundsAssumption
  PROVE  Spec => []ApprovalsHonoured
<1> DEFINE followed == part = "grants"
<1>1. Init => (followed => A!Init)
  BY DEF Init
<1>2. [Next]_vars => (followed' <=> followed) /\ (followed => [A!Next]_A!vars)
  BY PartsApart
<1>3. (followed => A!ApprovalsHonoured) => ApprovalsHonoured
  BY DEF ApprovalsHonoured
<1>4. A!Spec => []A!ApprovalsHonoured
  BY GrantsPart
<1> HIDE DEF followed
<1> QED
  BY <1>1, <1>2, <1>3, <1>4, PTL DEF Spec, A!Spec

-----------------------------------------------------------------------------
(* Sessions.                                                               *)
(*                                                                         *)
(* The server keeps nothing about a session: the cookie is the token.  The *)
(* invariant ties the browser's cookie to its last login, so that a cookie *)
(* the server accepts was set by a login of that browser's user, who knew  *)
(* the token, no longer ago than the cookie's age.                         *)

\* A cookie holds a token the user knows and is as old as the session.
JarInv ==
  \A b \in Browsers :
    jar[b].token # L!NoToken => /\ jar[b].token \in knows[b]
                                /\ session[b] = jar[b].age

SessionsInv ==
  /\ L!TypeOK
  /\ JarInv
  /\ L!RotationRevokes
  /\ L!RemoteNeedsStrongToken
  /\ L!CookieNeedsSession

LEMMA SessionsInitial ==
  ASSUME L!TokenAssumption, L!Init
  PROVE  SessionsInv
<1>1. L!TypeOK
  BY DEF L!TokenAssumption, L!Init, L!TypeOK, L!NoCookie, L!NoSession, L!Nobody, L!Peers
<1>2. JarInv
  BY DEF L!Init, JarInv, L!NoCookie
<1>3. ~L!Granted
  BY DEF L!Init, L!Granted, L!Nobody
<1> QED
  BY <1>1, <1>2, <1>3 DEF SessionsInv, L!RotationRevokes, L!RemoteNeedsStrongToken,
                          L!CookieNeedsSession

\* authenticate answers 200 only to the running process's token, and only to a
\* loopback peer unless remote access is on.
LEMMA AuthenticateSound ==
  ASSUME L!TokenAssumption, NEW host, NEW header, NEW cookie,
         L!authenticate(host, header, cookie) = 200
  PROVE  /\ server.token \in Tokens
         /\ L!Supplied(header, cookie) = server.token
         /\ server.allow_remote \/ L!is_loopback_peer(host)
BY DEF L!authenticate, L!verify_token

LEMMA StatusType ==
  \A host, header, cookie :
    L!authenticate(host, header, cookie) \in {0, 200, 401, 403, 413}
BY DEF L!authenticate

\* Remote access goes with a long token, in every configuration that starts.
LEMMA RemoteIsStrong ==
  ASSUME L!TypeOK, server.allow_remote
  PROVE  server.token \in Strong
BY DEF L!TypeOK, L!Configurations, L!Startable

\* A supplied token is known to the browser's user; without a header it is the
\* cookie's, which a login of this session set.
LEMMA SuppliedIsKnown ==
  ASSUME L!TokenAssumption, SessionsInv, NEW b \in Browsers, NEW header \in L!Headers(b),
         NEW cookie \in {jar[b].token, L!NoToken},
         L!Supplied(header, cookie) \in Tokens
  PROVE  /\ L!Supplied(header, cookie) \in knows[b]
         /\ L!_strict_bearer_token(header) = L!NoToken => session[b] <= MaxAge
<1>1. CASE header \in Tokens
  BY <1>1 DEF L!TokenAssumption, L!Supplied, L!_strict_bearer_token, L!Headers,
              L!NoToken, L!Malformed
<1>2. CASE header \notin Tokens
  <2>1. L!Supplied(header, cookie) = jar[b].token /\ jar[b].token # L!NoToken
    BY <1>2 DEF L!TokenAssumption, L!Supplied, L!_strict_bearer_token
  <2>2. jar[b].token \in knows[b] /\ session[b] = jar[b].age
    BY <2>1 DEF SessionsInv, JarInv
  <2>3. jar[b].age \in 0 .. MaxAge
    BY DEF SessionsInv, L!TypeOK
  <2> QED
    BY <2>1, <2>2, <2>3 DEF L!TokenAssumption
<1> QED
  BY <1>1, <1>2

LEMMA RequestSafe ==
  ASSUME L!TokenAssumption, SessionsInv, NEW b \in Browsers, NEW path \in L!Paths,
         L!Request(b, path)
  PROVE  SessionsInv'
<1>1. PICK header \in L!Headers(b) :
        /\ last'.who = b
        /\ last'.how = IF L!_strict_bearer_token(header) # L!NoToken THEN "header"
                       ELSE "cookie"
        /\ last'.status = L!authenticate(peer[b], header, L!CookieFor(b, path))
  BY DEF L!Request
<1>2. UNCHANGED <<server, peer, knows, jar, session, restarts>>
  BY DEF L!Request
<1>3. L!TypeOK' /\ JarInv'
  BY <1>1, <1>2, StatusType DEF SessionsInv, L!TypeOK, JarInv
<1>4. ASSUME L!Granted'
      PROVE  /\ server.token \in knows[b]
             /\ server.allow_remote \/ L!is_loopback_peer(peer[b])
             /\ last'.how = "cookie" => session[b] <= MaxAge
  <2> DEFINE cookie == L!CookieFor(b, path)
  <2>1. /\ server.token \in Tokens
        /\ L!Supplied(header, cookie) = server.token
        /\ server.allow_remote \/ L!is_loopback_peer(peer[b])
    <3>1. L!authenticate(peer[b], header, cookie) = 200
      BY <1>1, <1>4 DEF L!Granted
    <3> QED
      BY <3>1, AuthenticateSound
  <2>2. cookie \in {jar[b].token, L!NoToken}
    BY DEF L!CookieFor
  <2>3. /\ L!Supplied(header, cookie) \in knows[b]
        /\ L!_strict_bearer_token(header) = L!NoToken => session[b] <= MaxAge
    BY <2>1, <2>2, SuppliedIsKnown
  <2> QED
    BY <1>1, <2>1, <2>3
<1>5. L!RotationRevokes' /\ L!CookieNeedsSession'
  BY <1>1, <1>2, <1>4 DEF L!RotationRevokes, L!CookieNeedsSession
<1>6. L!RemoteNeedsStrongToken'
  BY <1>1, <1>2, <1>4, RemoteIsStrong
     DEF SessionsInv, L!RemoteNeedsStrongToken, L!is_loopback_peer
<1> QED
  BY <1>3, <1>5, <1>6 DEF SessionsInv

LEMMA LoginSafe ==
  ASSUME L!TokenAssumption, SessionsInv, NEW b \in Browsers, L!Login(b)
  PROVE  SessionsInv'
<1>1. PICK token \in L!Headers(b), large \in BOOLEAN :
        /\ last' = [who |-> b, how |-> "login", token |-> token,
                    status |-> L!LoginStatus(b, token, large)]
        /\ IF L!LoginStatus(b, token, large) = 200
           THEN /\ jar' = [jar EXCEPT ![b] = [token |-> token, age |-> 0]]
                /\ session' = [session EXCEPT ![b] = 0]
           ELSE UNCHANGED <<jar, session>>
  BY DEF L!Login
<1>2. UNCHANGED <<server, peer, knows, restarts>>
  BY DEF L!Login
<1>3. last'.status \in {0, 200, 401, 403, 413}
  BY <1>1 DEF L!LoginStatus
<1>4. ASSUME L!LoginStatus(b, token, large) = 200
      PROVE  /\ token \in Tokens /\ token = server.token /\ token \in knows[b]
             /\ server.allow_remote \/ L!is_loopback_peer(peer[b])
  BY <1>4 DEF L!TokenAssumption, L!LoginStatus, L!verify_token, L!Headers, L!NoToken,
              L!Malformed
<1>5. L!TypeOK' /\ JarInv'
  <2>1. CASE L!LoginStatus(b, token, large) = 200
    <3>1. /\ jar' = [jar EXCEPT ![b] = [token |-> token, age |-> 0]]
          /\ session' = [session EXCEPT ![b] = 0]
      BY <1>1, <2>1
    <3>2. 0 \in 0 .. MaxAge /\ 0 \in 0 .. L!NoSession
      BY DEF L!TokenAssumption, L!NoSession
    <3>3. token \in Tokens /\ token \in knows[b]
      BY <1>4, <2>1
    <3>4. L!TypeOK'
      BY <3>1, <3>2, <3>3, <1>2, <1>3 DEF SessionsInv, L!TypeOK
    <3>5. JarInv'
      BY <3>1, <3>3, <1>2 DEF SessionsInv, L!TypeOK, JarInv
    <3> QED
      BY <3>4, <3>5
  <2>2. CASE L!LoginStatus(b, token, large) # 200
    BY <1>1, <1>2, <1>3, <2>2 DEF SessionsInv, L!TypeOK, JarInv
  <2> QED
    BY <2>1, <2>2
<1>6. L!RotationRevokes' /\ L!CookieNeedsSession'
  BY <1>1, <1>2, <1>4 DEF L!RotationRevokes, L!CookieNeedsSession, L!Granted
<1>7. L!RemoteNeedsStrongToken'
  BY <1>1, <1>2, <1>4, RemoteIsStrong
     DEF SessionsInv, L!RemoteNeedsStrongToken, L!is_loopback_peer, L!Granted
<1> QED
  BY <1>5, <1>6, <1>7 DEF SessionsInv

\* Logging out clears the cookie with the session.
LEMMA LogoutSafe ==
  ASSUME L!TokenAssumption, SessionsInv, NEW b \in Browsers, L!Logout(b)
  PROVE  SessionsInv'
<1>1. PICK header \in L!Headers(b) :
        /\ last'.who = b /\ last'.how = "logout"
        /\ last'.status = L!authenticate(peer[b], header, jar[b].token)
        /\ \/ /\ jar' = [jar EXCEPT ![b] = L!NoCookie]
              /\ session' = [session EXCEPT ![b] = L!NoSession]
           \/ UNCHANGED <<jar, session>>
  BY DEF L!Logout, L!LoggedOut
<1>2. UNCHANGED <<server, peer, knows, restarts>>
  BY DEF L!Logout
<1>3. L!TypeOK' /\ JarInv'
  <2>1. CASE UNCHANGED <<jar, session>>
    BY <1>1, <1>2, <2>1, StatusType DEF SessionsInv, L!TypeOK, JarInv
  <2>2. CASE /\ jar' = [jar EXCEPT ![b] = L!NoCookie]
             /\ session' = [session EXCEPT ![b] = L!NoSession]
    <3>1. L!NoCookie \in [token : Tokens \cup {L!NoToken}, age : 0 .. MaxAge]
      BY DEF L!NoCookie, L!TokenAssumption
    <3>2. L!NoSession \in 0 .. L!NoSession
      BY DEF L!NoSession, L!TokenAssumption
    <3>3. L!TypeOK'
      BY <1>1, <1>2, <2>2, <3>1, <3>2, StatusType DEF SessionsInv, L!TypeOK
    <3>4. JarInv'
      BY <1>2, <2>2 DEF SessionsInv, L!TypeOK, JarInv, L!NoCookie
    <3> QED
      BY <3>3, <3>4
  <2> QED
    BY <1>1, <2>1, <2>2
<1>4. ASSUME L!Granted'
      PROVE  /\ server.token \in knows[b]
             /\ server.allow_remote \/ L!is_loopback_peer(peer[b])
  <2>1. L!authenticate(peer[b], header, jar[b].token) = 200
    BY <1>1, <1>4 DEF L!Granted
  <2>2. /\ server.token \in Tokens
        /\ L!Supplied(header, jar[b].token) = server.token
        /\ server.allow_remote \/ L!is_loopback_peer(peer[b])
    BY <2>1, AuthenticateSound
  <2> QED
    BY <2>2, SuppliedIsKnown
<1>5. L!RotationRevokes' /\ L!CookieNeedsSession'
  BY <1>1, <1>2, <1>4 DEF L!RotationRevokes, L!CookieNeedsSession
<1>6. L!RemoteNeedsStrongToken'
  BY <1>1, <1>2, <1>4, RemoteIsStrong
     DEF SessionsInv, L!RemoteNeedsStrongToken, L!is_loopback_peer
<1> QED
  BY <1>3, <1>5, <1>6 DEF SessionsInv

\* A cookie and the session it belongs to grow older together.
LEMMA SessionsPassesSafe ==
  ASSUME L!TokenAssumption, SessionsInv, L!Passes
  PROVE  SessionsInv'
<1>1. UNCHANGED <<server, peer, knows, restarts>> /\ ~L!Granted' /\ last'.status = 0
  BY DEF L!Passes, L!Granted, L!Nobody
<1>2. ASSUME NEW b \in Browsers
      PROVE  /\ jar'[b] \in [token : Tokens \cup {L!NoToken}, age : 0 .. MaxAge]
             /\ session'[b] \in 0 .. L!NoSession
             /\ jar'[b].token # L!NoToken => /\ jar'[b].token \in knows[b]
                                             /\ session'[b] = jar'[b].age
  <2>1. /\ jar[b] \in [token : Tokens \cup {L!NoToken}, age : 0 .. MaxAge]
        /\ session[b] \in 0 .. (MaxAge + 1) /\ MaxAge \in Nat
    BY DEF SessionsInv, L!TypeOK, L!NoSession, L!TokenAssumption
  <2>2. session'[b] = IF session[b] < MaxAge + 1 THEN session[b] + 1 ELSE MaxAge + 1
    BY DEF L!Passes, L!NoSession
  <2>3. CASE jar[b] = L!NoCookie \/ jar[b].age >= MaxAge
    <3>1. jar'[b] = L!NoCookie
      BY <2>3 DEF L!Passes, L!Expired
    <3> QED
      BY <2>1, <2>2, <3>1 DEF L!NoCookie, L!NoSession
  <2>4. CASE jar[b] # L!NoCookie /\ ~(jar[b].age >= MaxAge)
    <3>1. jar'[b] = [jar[b] EXCEPT !.age = jar[b].age + 1]
      BY <2>4 DEF L!Passes, L!Expired
    <3>2. jar'[b].token = jar[b].token /\ jar'[b].age = jar[b].age + 1
      BY <2>1, <3>1
    <3>3. jar[b].age + 1 \in 0 .. MaxAge
      BY <2>1, <2>4
    <3>4. jar[b].token # L!NoToken => jar[b].token \in knows[b] /\ session[b] = jar[b].age
      BY DEF SessionsInv, JarInv
    <3>5. jar'[b] \in [token : Tokens \cup {L!NoToken}, age : 0 .. MaxAge]
      BY <2>1, <3>1, <3>3
    <3> QED
      BY <2>1, <2>2, <2>4, <3>2, <3>3, <3>4, <3>5 DEF L!NoSession
  <2> QED
    BY <2>3, <2>4
<1>3. L!TypeOK' /\ JarInv'
  <2>1. /\ jar' = [b \in Browsers |-> jar'[b]]
        /\ session' = [b \in Browsers |-> session'[b]]
    BY DEF L!Passes
  <2>2. /\ jar' \in [Browsers -> [token : Tokens \cup {L!NoToken}, age : 0 .. MaxAge]]
        /\ session' \in [Browsers -> 0 .. L!NoSession]
    BY <1>2, <2>1
  <2> QED
    BY <1>1, <1>2, <2>2 DEF SessionsInv, L!TypeOK, JarInv
<1> QED
  BY <1>1, <1>3 DEF SessionsInv, L!RotationRevokes, L!RemoteNeedsStrongToken,
                    L!CookieNeedsSession

\* A restart leaves the cookies alone and forgets who was let in.
LEMMA RestartSafe ==
  ASSUME L!TokenAssumption, SessionsInv, L!Restart
  PROVE  SessionsInv'
<1>1. ~L!Granted' /\ last'.status = 0 /\ UNCHANGED <<peer, knows, jar, session>>
  BY DEF L!Restart, L!Granted, L!Nobody
<1>2. restarts' \in 0 .. MaxRestarts
  BY DEF SessionsInv, L!TypeOK, L!Restart, L!TokenAssumption
<1>3. L!TypeOK' /\ JarInv'
  BY <1>1, <1>2 DEF SessionsInv, L!TypeOK, JarInv, L!Restart
<1> QED
  BY <1>1, <1>3 DEF SessionsInv, L!RotationRevokes, L!RemoteNeedsStrongToken,
                    L!CookieNeedsSession

\* The component on its own.
LEMMA SessionsPart ==
  ASSUME L!TokenAssumption
  PROVE  L!Spec => []L!SessionsHonoured
<1>1. L!Init => SessionsInv
  BY SessionsInitial
<1>2. SessionsInv /\ [L!Next]_L!vars => SessionsInv'
  <2> SUFFICES ASSUME SessionsInv, [L!Next]_L!vars PROVE SessionsInv'
    OBVIOUS
  <2>1. CASE UNCHANGED L!vars
    BY <2>1 DEF L!vars, SessionsInv, L!TypeOK, JarInv, L!RotationRevokes, L!Granted,
                L!RemoteNeedsStrongToken, L!CookieNeedsSession
  <2>2. CASE L!Next
    BY <2>2, RequestSafe, LoginSafe, LogoutSafe, SessionsPassesSafe, RestartSafe
       DEF L!Next
  <2> QED
    BY <2>1, <2>2
<1>3. SessionsInv => L!SessionsHonoured
  BY DEF SessionsInv, L!SessionsHonoured
<1> QED
  BY <1>1, <1>2, <1>3, PTL DEF L!Spec

\* Whatever tokens, browsers, logins and restarts there are, whoever the service lets
\* in knows the token of the running process, remote peers get in only with a long
\* one, and a cookie counts only during its session and its Max-Age.
THEOREM SessionsAlwaysHonoured ==
  ASSUME L!TokenAssumption
  PROVE  Spec => []SessionsHonoured
<1> DEFINE followed == part = "sessions"
<1>1. Init => (followed => L!Init)
  BY DEF Init
<1>2. [Next]_vars => (followed' <=> followed) /\ (followed => [L!Next]_L!vars)
  BY PartsApart
<1>3. (followed => L!SessionsHonoured) => SessionsHonoured
  BY DEF SessionsHonoured
<1>4. L!Spec => []L!SessionsHonoured
  BY SessionsPart
<1> HIDE DEF followed
<1> QED
  BY <1>1, <1>2, <1>3, <1>4, PTL DEF Spec, L!Spec

-----------------------------------------------------------------------------
(* Egress.                                                                 *)
(*                                                                         *)
(* Validation fixes the allowlist once.  What it covered then is what the  *)
(* constructors ask for, so the invariant keeps both: the list is the one  *)
(* parsed from the settings, and it allows every required target.  The     *)
(* note carries what its earlier steps checked, and the connections beyond *)
(* the API call that the code asks for are counted against the turns of    *)
(* the redirect loop.  What urllib adds comes with a connection of the     *)
(* code's, of the same hop, and changes neither count nor list.            *)

Active == {"resolve", "download", "audio"}

Replies ==
  {"none", "missing_file_id", "not_configured", "no_token", "too_large", "failed",
   "too_many_redirects", "egress", "transcript", "download_too_large"}

Notes ==
  [phase : Active \cup {"none", "answered"}, channel : {"none", "telegram", "whatsapp"},
   url : {E!NoUrl, E!TelegramApi} \cup MediaTargets, hops : 0 .. E!MaxRedirects,
   answer : Replies]

\* The list of an accepted process, from its settings.
AllowlistInv ==
  stage \in {"validated", "running"} =>
    /\ allowlist = {E!ParseEntry(x) : x \in E!effective_egress(settings)}
    /\ \A url \in E!required_egress(settings) : E!Allows(allowlist, url)

\* A running HTTP process was allowed its transcription provider.
TranscriptionInv ==
  (stage = "running" /\ settings.process = "http") =>
    \/ settings.adapters["transcription"].provider = "disabled"
    \/ E!Allows(allowlist, settings.adapters["transcription"].url)

\* What the early returns and the API call have established for a note.
NoteInv ==
  /\ note \in Notes
  /\ note.phase = "none" => note = E!NoNote /\ opened = {}
  /\ note.phase # "none" => stage = "running" /\ settings.process = "http"
  /\ note.phase \in Active =>
       /\ settings.adapters["transcription"].provider # "disabled"
       /\ note.channel \in {"telegram", "whatsapp"} /\ E!HasToken(note.channel)
       /\ note.answer # "egress"
  /\ note.phase = "download" => E!Allows(allowlist, E!Api(note.channel))
  /\ note.channel = "telegram" => note.hops = 0

\* The connections of a download, one for each turn of its loop.
Hops == {c \in opened : c[2] > 0 /\ c[3] = "code"}

HopsInv ==
  /\ IsFiniteSet(Hops)
  /\ Cardinality(Hops) <= E!MaxRedirects
  /\ note.phase \in {"none", "resolve", "download"} => Cardinality(Hops) <= note.hops

EgressInv ==
  /\ settings \in Settings
  /\ stage \in {"given", "validated", "running", "stopped"}
  /\ AllowlistInv
  /\ TranscriptionInv
  /\ NoteInv
  /\ HopsInv
  /\ E!CoverageIsEnough
  /\ E!OpenedIsAllowed
  /\ E!DerivedListIsEnough

LEMMA SameCardinalityEgress == \A S : E!Cardinality(S) = Cardinality(S)
BY DEF E!Cardinality, Cardinality

LEMMA EgressInitial ==
  ASSUME E!Init
  PROVE  EgressInv
<1>1. NoteInv /\ AllowlistInv /\ TranscriptionInv
  <2>1. E!NoNote \in Notes /\ E!NoNote.phase = "none" /\ E!NoNote.hops = 0
    BY DEF Notes, Active, Replies, E!NoNote, E!MaxRedirects
  <2> QED
    BY <2>1 DEF E!Init, NoteInv, AllowlistInv, TranscriptionInv, Active
<1>2. Hops = {} /\ HopsInv
  BY FS_EmptySet DEF E!Init, Hops, HopsInv, E!MaxRedirects, E!NoNote
<1> QED
  BY <1>1, <1>2 DEF E!Init, EgressInv, E!CoverageIsEnough, E!OpenedIsAllowed,
                    E!DerivedListIsEnough, E!NoNote

LEMMA StopSafe ==
  ASSUME EgressInv, note.phase = "none", NEW why, why # "egress", E!Stop(why)
  PROVE  EgressInv'
<1>1. UNCHANGED <<settings, allowlist, note, opened>> /\ stage' = "stopped" /\ cause' = why
  BY DEF E!Stop
<1>2. AllowlistInv' /\ TranscriptionInv' /\ E!CoverageIsEnough' /\ E!OpenedIsAllowed'
  BY <1>1 DEF EgressInv, AllowlistInv, TranscriptionInv, E!CoverageIsEnough,
              E!OpenedIsAllowed
<1>3. NoteInv'
  BY <1>1 DEF EgressInv, NoteInv, Active
<1>4. HopsInv' /\ E!DerivedListIsEnough'
  BY <1>1 DEF EgressInv, HopsInv, Hops, E!DerivedListIsEnough
<1> QED
  BY <1>1, <1>2, <1>3, <1>4 DEF EgressInv

LEMMA ValidateSafe ==
  ASSUME EgressInv, E!Validate
  PROVE  EgressInv'
<1>1. stage = "given" /\ note.phase = "none" /\ opened = {} /\ note = E!NoNote
  BY DEF E!Validate, EgressInv, NoteInv
<1>2. CASE E!Stop("entry") \/ E!Stop("coverage")
  BY <1>1, <1>2, StopSafe
<1>3. CASE /\ \A url \in E!required_egress(settings) :
                E!Allows({E!ParseEntry(x) : x \in E!effective_egress(settings)}, url)
           /\ stage' = "validated"
           /\ allowlist' = {E!ParseEntry(x) : x \in E!effective_egress(settings)}
           /\ UNCHANGED <<settings, cause, note, opened>>
  <2>1. AllowlistInv' /\ TranscriptionInv' /\ NoteInv'
    BY <1>1, <1>3 DEF AllowlistInv, TranscriptionInv, NoteInv, EgressInv, Active
  <2>2. HopsInv' /\ E!OpenedIsAllowed' /\ E!DerivedListIsEnough' /\ E!CoverageIsEnough'
    BY <1>1, <1>3 DEF EgressInv, HopsInv, Hops, E!OpenedIsAllowed, E!DerivedListIsEnough,
                      E!CoverageIsEnough
  <2> QED
    BY <1>3, <2>1, <2>2 DEF EgressInv
<1> QED
  BY <1>2, <1>3 DEF E!Validate

\* A constructor is refused nothing that the settings were accepted with.
LEMMA BuildCovered ==
  ASSUME E!SettingsAssumption, EgressInv, stage = "validated"
  PROVE  /\ \A a \in E!Adapters : E!AdapterFailure(settings.adapters[a]) # "egress"
         /\ E!ChannelFailure(settings) # "egress"
<1>1. \A url \in E!required_egress(settings) : E!Allows(allowlist, url)
  BY DEF EgressInv, AllowlistInv
<1>2. ASSUME NEW a \in E!Adapters
      PROVE  E!AdapterFailure(settings.adapters[a]) # "egress"
  <2> DEFINE adapter == settings.adapters[a]
  <2>1. CASE adapter.provider # "disabled" /\ adapter.url # E!NoUrl
    <3>1. adapter.url \in E!required_egress(settings)
      BY <2>1 DEF E!required_egress
    <3>2. E!Allows(allowlist, adapter.url)
      BY <1>1, <3>1
    <3> HIDE DEF adapter
    <3> QED
      BY <3>2 DEF E!AdapterFailure, adapter
  <2>2. CASE adapter.provider = "disabled" \/ adapter.url = E!NoUrl
    BY <2>2 DEF E!AdapterFailure
  <2> QED
    BY <2>1, <2>2
<1>3. settings.telegram => E!Allows(allowlist, E!TelegramApi)
  BY <1>1 DEF E!required_egress
<1>4. settings.whatsapp => E!Allows(allowlist, E!WhatsAppApi)
  BY <1>1 DEF E!required_egress
<1> QED
  BY <1>2, <1>3, <1>4 DEF E!ChannelFailure, E!HasWhatsApp

LEMMA BuildSafe ==
  ASSUME E!SettingsAssumption, EgressInv, E!Build
  PROVE  EgressInv'
<1> DEFINE steps == IF settings.process = "http" THEN E!HttpFailures(settings)
                    ELSE E!WorkerFailures(settings)
           failed == {i \in DOMAIN steps : steps[i] # "none"}
<1>1. stage = "validated" /\ note.phase = "none" /\ opened = {} /\ note = E!NoNote
  BY DEF E!Build, EgressInv, NoteInv
<1>2. \A i \in DOMAIN steps : steps[i] # "egress"
  <2>1. /\ E!AdapterFailure(settings.adapters["llm"]) # "egress"
        /\ E!AdapterFailure(settings.adapters["transcription"]) # "egress"
        /\ E!AdapterFailure(settings.adapters["tts"]) # "egress"
        /\ E!ChannelFailure(settings) # "egress"
    BY <1>1, BuildCovered DEF E!Adapters
  <2>2. CASE settings.process = "http"
    <3>1. steps = E!HttpFailures(settings)
      BY <2>2
    <3>2. \A i \in 1 .. 6 : E!HttpFailures(settings)[i] # "egress"
      BY <2>1 DEF E!HttpFailures
    <3>3. DOMAIN E!HttpFailures(settings) = 1 .. 6
      BY DEF E!HttpFailures
    <3> QED
      BY <3>1, <3>2, <3>3
  <2>3. CASE settings.process # "http"
    <3>1. steps = E!WorkerFailures(settings)
      BY <2>3
    <3>2. \A i \in 1 .. 3 : E!WorkerFailures(settings)[i] # "egress"
      BY <2>1 DEF E!WorkerFailures
    <3>3. DOMAIN E!WorkerFailures(settings) = 1 .. 3
      BY DEF E!WorkerFailures
    <3> QED
      BY <3>1, <3>2, <3>3
  <2> QED
    BY <2>2, <2>3
<1>3. CASE \E i \in failed : (\A j \in failed : i <= j) /\ E!Stop(steps[i])
  BY <1>1, <1>2, <1>3, StopSafe
<1>4. CASE failed = {} /\ stage' = "running"
             /\ UNCHANGED <<settings, cause, allowlist, note, opened>>
  <2>1. ASSUME settings.process = "http"
        PROVE  \/ settings.adapters["transcription"].provider = "disabled"
               \/ E!Allows(allowlist, settings.adapters["transcription"].url)
    <3>1. steps = E!HttpFailures(settings) /\ DOMAIN E!HttpFailures(settings) = 1 .. 6
      BY <2>1 DEF E!HttpFailures
    <3>2. 4 \in 1 .. 6
      OBVIOUS
    <3>3. E!HttpFailures(settings)[4] = "none"
      BY <1>4, <3>1, <3>2
    <3>4. E!AdapterFailure(settings.adapters["transcription"]) = "none"
      BY <3>3 DEF E!HttpFailures
    <3> QED
      BY <3>4 DEF E!AdapterFailure
  <2>2. AllowlistInv' /\ TranscriptionInv'
    BY <1>1, <1>4, <2>1 DEF EgressInv, AllowlistInv, TranscriptionInv
  <2>3. NoteInv'
    BY <1>1, <1>4 DEF EgressInv, NoteInv, Active
  <2>4. HopsInv' /\ E!DerivedListIsEnough' /\ E!OpenedIsAllowed' /\ E!CoverageIsEnough'
    BY <1>4 DEF EgressInv, HopsInv, Hops, E!DerivedListIsEnough, E!OpenedIsAllowed,
                E!CoverageIsEnough
  <2> QED
    BY <1>4, <2>2, <2>3, <2>4 DEF EgressInv
<1> QED
  BY <1>3, <1>4 DEF E!Build

\* The steps of a note change the note and what it opened.
LEMMA NoteSteps ==
  ASSUME EgressInv, UNCHANGED <<settings, stage, cause, allowlist>>,
         NoteInv', HopsInv', E!OpenedIsAllowed', E!DerivedListIsEnough'
  PROVE  EgressInv'
BY DEF EgressInv, AllowlistInv, TranscriptionInv, E!CoverageIsEnough

\* What urllib adds.
LEMMA UrllibAdds ==
  ASSUME NEW hop, NEW added \in E!ByUrllib(hop)
  PROVE  \A c \in added : c[2] = hop /\ c[3] = "urllib"
BY DEF E!ByUrllib

\* The connections that a step adds: one of the code's, and what urllib follows.
Opens(target, hop, added) ==
  /\ opened' = opened \cup {E!ByCode(target, hop)} \cup added
  /\ \A c \in added : c[2] = hop /\ c[3] = "urllib"

\* Only the turns of a download count.
LEMMA HopsGrow ==
  ASSUME EgressInv, NEW target, NEW hop \in Nat, NEW added, Opens(target, hop, added)
  PROVE  /\ hop = 0 => Hops' = Hops
         /\ IsFiniteSet(Hops') /\ Cardinality(Hops') \in Nat /\ Cardinality(Hops) \in Nat
         /\ Cardinality(Hops') <= Cardinality(Hops) + 1
<1>1. CASE hop = 0
  <2>1. Hops' = Hops
    BY <1>1 DEF Hops, Opens, E!ByCode
  <2> QED
    BY <2>1, FS_CardinalityType DEF EgressInv, HopsInv
<1>2. CASE hop > 0
  <2>1. Hops' = Hops \cup {<<target, hop, "code">>}
    BY <1>2 DEF Hops, Opens, E!ByCode
  <2>2. IsFiniteSet(Hops) /\ Cardinality(Hops) \in Nat
    BY FS_CardinalityType DEF EgressInv, HopsInv
  <2>3. /\ IsFiniteSet(Hops')
        /\ Cardinality(Hops') \in {Cardinality(Hops), Cardinality(Hops) + 1}
    BY <2>1, <2>2, FS_AddElement
  <2> QED
    BY <1>2, <2>2, <2>3
<1> QED
  BY <1>1, <1>2

LEMMA ReceiveSafe ==
  ASSUME E!SettingsAssumption, EgressInv, NEW channel \in {"telegram", "whatsapp"},
         NEW has_file \in BOOLEAN, NEW large \in BOOLEAN,
         E!Receive(channel, has_file, large)
  PROVE  EgressInv'
<1>1. /\ stage = "running" /\ settings.process = "http" /\ note.phase = "none"
      /\ UNCHANGED <<settings, stage, cause, allowlist, opened>>
  BY DEF E!Receive
<1>2. note = E!NoNote /\ opened = {}
  BY <1>1 DEF EgressInv, NoteInv
<1>3. /\ note'.channel = channel /\ note'.url = E!NoUrl /\ note'.hops = 0
      /\ note'.phase \in {"resolve", "answered"} /\ note'.answer # "egress"
      /\ note' \in Notes
  <2>1. PICK phase \in {"resolve", "answered"}, answer \in Replies \ {"egress"} :
          note' = [E!NoNote EXCEPT !.channel = channel, !.phase = phase, !.answer = answer]
    BY DEF E!Receive, Replies
  <2>2. 0 \in 0 .. E!MaxRedirects
    BY DEF E!MaxRedirects
  <2> QED
    BY <2>1, <2>2 DEF E!NoNote, Notes, Active
<1>4. note'.phase = "resolve" =>
        settings.adapters["transcription"].provider # "disabled" /\ E!HasToken(channel)
  BY DEF E!Receive, E!NoNote
<1>5. NoteInv'
  BY <1>1, <1>2, <1>3, <1>4 DEF NoteInv, Active, E!HasToken
<1>6. Hops' = Hops /\ Hops = {}
  BY <1>1, <1>2 DEF Hops
<1>7. HopsInv'
  BY <1>3, <1>6, FS_EmptySet DEF HopsInv, E!MaxRedirects
<1>8. E!OpenedIsAllowed' /\ E!DerivedListIsEnough'
  BY <1>1, <1>2, <1>3 DEF E!OpenedIsAllowed, E!DerivedListIsEnough
<1> QED
  BY <1>1, <1>5, <1>7, <1>8, NoteSteps

\* An answer ends the note; unless it is "egress" it says nothing about the list.
LEMMA AnswerSafe ==
  ASSUME EgressInv, note.phase \in Active, NEW reply \in Replies, E!Answer(reply),
         UNCHANGED <<settings, stage, cause, allowlist>>,
         reply = "egress" => settings.explicit # {} \/ note.url # E!WhatsAppMedia
  PROVE  /\ NoteInv' /\ E!DerivedListIsEnough' /\ note'.phase = "answered"
         /\ note'.channel = note.channel
<1>1. /\ note' \in Notes /\ note'.phase = "answered" /\ note'.answer = reply
      /\ note'.url = note.url /\ note'.channel = note.channel /\ note'.hops = note.hops
  BY DEF EgressInv, NoteInv, Notes, E!Answer
<1>2. /\ stage = "running" /\ settings.process = "http"
      /\ note.channel = "telegram" => note.hops = 0
  BY DEF EgressInv, NoteInv, Active
<1> QED
  BY <1>1, <1>2 DEF NoteInv, Active, E!DerivedListIsEnough

\* One more allowed connection; urllib adds to a download of Telegram's only.
LEMMA OpenSafe ==
  ASSUME EgressInv, UNCHANGED allowlist, note'.channel = note.channel,
         NEW target \in allowlist, NEW hop \in Nat, NEW added, Opens(target, hop, added),
         added = {} \/ hop = 0 \/ note.channel = "telegram"
  PROVE  E!OpenedIsAllowed'
<1>1. PICK mine : mine = <<target, hop, "code">>
  OBVIOUS
<1>2. mine[1] = target /\ mine[2] = hop /\ mine[3] = "code"
  BY <1>1
<1>3. opened' = opened \cup {mine} \cup added
  BY <1>1 DEF Opens, E!ByCode
<1>4. ASSUME NEW c \in opened
      PROVE  /\ c[3] = "code" => c[1] \in allowlist
             /\ c[3] = "urllib" =>
                  /\ c[2] > 0 => note'.channel = "telegram"
                  /\ \E d \in opened' : d[3] = "code" /\ d[2] = c[2] /\ d[1] \in allowlist
  BY <1>3 DEF EgressInv, E!OpenedIsAllowed
<1>5. ASSUME NEW c \in added
      PROVE  /\ c[3] # "code"
             /\ c[2] > 0 => note'.channel = "telegram"
             /\ \E d \in opened' : d[3] = "code" /\ d[2] = c[2] /\ d[1] \in allowlist
  <2>1. c[2] = hop /\ c[3] = "urllib"
    BY DEF Opens
  <2>2. hop > 0 => note.channel = "telegram"
    OBVIOUS
  <2> QED
    BY <1>2, <1>3, <2>1, <2>2
<1> QED
  BY <1>2, <1>3, <1>4, <1>5 DEF E!OpenedIsAllowed

\* Nothing opened, and the channel stays.
LEMMA NothingOpened ==
  ASSUME EgressInv, UNCHANGED <<allowlist, opened>>, note'.channel = note.channel
  PROVE  E!OpenedIsAllowed'
BY DEF EgressInv, E!OpenedIsAllowed

LEMMA ResolveSafe ==
  ASSUME E!SettingsAssumption, EgressInv, NEW url \in MediaTargets,
         NEW added \in E!ByUrllib(0), E!Resolve(url, added)
  PROVE  EgressInv'
<1>1. /\ note.phase = "resolve" /\ E!Allows(allowlist, E!Api(note.channel))
      /\ Opens(E!Api(note.channel), 0, added)
      /\ UNCHANGED <<settings, stage, cause, allowlist>>
  BY UrllibAdds DEF E!Resolve, E!CanAsk, Opens
<1>2. /\ note' \in Notes /\ note'.phase = "download" /\ note'.channel = note.channel
      /\ note'.hops = note.hops /\ note'.answer = note.answer
  BY DEF E!Resolve, EgressInv, NoteInv, Notes, Active
<1>3. NoteInv'
  BY <1>1, <1>2 DEF EgressInv, NoteInv, Active, E!HasToken, E!Allows
<1>4. HopsInv'
  <2>1. Hops' = Hops
    BY <1>1, HopsGrow
  <2> QED
    BY <1>1, <1>2, <2>1 DEF EgressInv, HopsInv
<1>5. E!OpenedIsAllowed'
  BY <1>1, <1>2, OpenSafe DEF E!Allows
<1>6. E!DerivedListIsEnough'
  BY <1>1, <1>2 DEF EgressInv, NoteInv, Active, E!DerivedListIsEnough
<1> QED
  BY <1>1, <1>3, <1>4, <1>5, <1>6, NoteSteps

LEMMA ResolveFailsSafe ==
  ASSUME E!SettingsAssumption, EgressInv, NEW added \in E!ByUrllib(0), E!ResolveFails(added)
  PROVE  EgressInv'
<1>1. note.phase = "resolve" /\ UNCHANGED <<settings, stage, cause, allowlist>>
  BY DEF E!ResolveFails
<1>2. /\ NoteInv' /\ E!DerivedListIsEnough' /\ note'.phase = "answered"
      /\ note'.channel = note.channel
  BY <1>1, AnswerSafe DEF E!ResolveFails, Active, Replies
<1>3. CASE UNCHANGED opened
  BY <1>1, <1>2, <1>3, NothingOpened, NoteSteps DEF EgressInv, HopsInv, Hops
<1>4. CASE E!CanAsk(note.channel) /\ Opens(E!Api(note.channel), 0, added)
  <2>1. HopsInv'
    BY <1>2, <1>4, HopsGrow DEF EgressInv, HopsInv
  <2>2. E!OpenedIsAllowed'
    BY <1>1, <1>2, <1>4, OpenSafe DEF E!CanAsk, E!Allows
  <2> QED
    BY <1>1, <1>2, <2>1, <2>2, NoteSteps
<1> QED
  BY <1>3, <1>4, UrllibAdds DEF E!ResolveFails, Opens

LEMMA DownloadTelegramSafe ==
  ASSUME E!SettingsAssumption, EgressInv, NEW arrives \in BOOLEAN,
         NEW added \in E!ByUrllib(1), E!DownloadTelegram(arrives, added)
  PROVE  EgressInv'
<1>1. /\ note.phase = "download" /\ note.channel = "telegram"
      /\ Opens(E!TelegramApi, 1, added)
      /\ UNCHANGED <<settings, stage, cause, allowlist>>
  BY UrllibAdds DEF E!DownloadTelegram, Opens
<1>2. note.hops = 0
  BY <1>1 DEF EgressInv, NoteInv
<1>3. /\ NoteInv' /\ E!DerivedListIsEnough' /\ note'.phase \in {"audio", "answered"}
      /\ note'.channel = note.channel
  <2>1. CASE arrives
    <3>1. /\ note' \in Notes /\ note'.phase = "audio" /\ note'.channel = note.channel
          /\ note'.answer = note.answer /\ note'.hops = note.hops
      BY <2>1 DEF E!DownloadTelegram, EgressInv, NoteInv, Notes, Active
    <3> QED
      BY <1>1, <3>1 DEF EgressInv, NoteInv, Active, E!HasToken, E!DerivedListIsEnough
  <2>2. CASE ~arrives
    BY <1>1, <2>2, AnswerSafe DEF E!DownloadTelegram, Active, Replies
  <2> QED
    BY <2>1, <2>2
<1>4. E!OpenedIsAllowed'
  <2>1. E!TelegramApi \in allowlist
    BY <1>1 DEF EgressInv, NoteInv, E!Api, E!Allows
  <2> QED
    BY <1>1, <1>3, <2>1, OpenSafe
<1>5. HopsInv'
  <2>1. /\ IsFiniteSet(Hops') /\ Cardinality(Hops') \in Nat /\ Cardinality(Hops) \in Nat
        /\ Cardinality(Hops') <= Cardinality(Hops) + 1
    BY <1>1, HopsGrow
  <2>2. Cardinality(Hops) <= 0
    BY <1>1, <1>2 DEF EgressInv, HopsInv
  <2> QED
    BY <1>3, <2>1, <2>2 DEF HopsInv, E!MaxRedirects
<1> QED
  BY <1>1, <1>3, <1>4, <1>5, NoteSteps

\* Every turn of the loop checks its target and uses up one of the five.
LEMMA HopSafe ==
  ASSUME E!SettingsAssumption, EgressInv, NEW outcome \in {"audio", "redirect", "error"},
         NEW next \in MediaTargets, E!Hop(outcome, next)
  PROVE  EgressInv'
<1>1. /\ note.phase = "download" /\ note.channel = "whatsapp"
      /\ note.hops # E!MaxRedirects /\ note.url \in allowlist
      /\ Opens(note.url, note.hops + 1, {})
      /\ UNCHANGED <<settings, stage, cause, allowlist>>
  BY DEF E!Hop, E!Exhausted, E!Permitted, E!Allows, Opens
<1>2. note.hops \in 0 .. 4 /\ note.hops + 1 \in Nat /\ note.hops + 1 \in 0 .. E!MaxRedirects
  <2>1. note.hops \in 0 .. 5 /\ note.hops # 5
    BY <1>1 DEF EgressInv, NoteInv, Notes, E!MaxRedirects
  <2> QED
    BY <2>1 DEF E!MaxRedirects
<1>3. E!OpenedIsAllowed'
  <2>1. note'.channel = note.channel
    BY DEF E!Hop, E!Answer, EgressInv, NoteInv, Notes
  <2> QED
    BY <1>1, <1>2, <2>1, OpenSafe
<1>4. /\ IsFiniteSet(Hops') /\ Cardinality(Hops') \in Nat
      /\ Cardinality(Hops') <= note.hops + 1
  <2>1. /\ IsFiniteSet(Hops') /\ Cardinality(Hops') \in Nat /\ Cardinality(Hops) \in Nat
        /\ Cardinality(Hops') <= Cardinality(Hops) + 1
    BY <1>1, <1>2, HopsGrow
  <2>2. Cardinality(Hops) <= note.hops
    BY <1>1 DEF EgressInv, HopsInv
  <2> QED
    BY <1>2, <2>1, <2>2
<1>5. CASE outcome = "audio" /\ note' = [note EXCEPT !.phase = "audio"]
  <2>1. /\ note' \in Notes /\ note'.phase = "audio" /\ note'.channel = note.channel
        /\ note'.answer = note.answer
    BY <1>5 DEF EgressInv, NoteInv, Notes, Active
  <2>2. NoteInv' /\ E!DerivedListIsEnough'
    BY <1>1, <2>1 DEF EgressInv, NoteInv, Active, E!HasToken, E!DerivedListIsEnough
  <2>3. HopsInv'
    BY <1>2, <1>4, <2>1 DEF HopsInv, E!MaxRedirects
  <2> QED
    BY <1>1, <1>3, <2>2, <2>3, NoteSteps
<1>6. CASE outcome = "redirect" /\ note' = [note EXCEPT !.url = next, !.hops = E!Turn(note.hops)]
  <2>1. /\ note' \in Notes /\ note'.phase = "download" /\ note'.channel = note.channel
        /\ note'.answer = note.answer /\ note'.hops = note.hops + 1
    BY <1>1, <1>2, <1>6 DEF EgressInv, NoteInv, Notes, Active, E!Turn
  <2>2. NoteInv' /\ E!DerivedListIsEnough'
    BY <1>1, <2>1 DEF EgressInv, NoteInv, Active, E!HasToken, E!DerivedListIsEnough, E!Allows
  <2>3. HopsInv'
    BY <1>2, <1>4, <2>1 DEF HopsInv, E!MaxRedirects
  <2> QED
    BY <1>1, <1>3, <2>2, <2>3, NoteSteps
<1>7. CASE outcome = "error" /\ E!Answer("failed")
  <2>1. NoteInv' /\ E!DerivedListIsEnough' /\ note'.phase = "answered"
    BY <1>1, <1>7, AnswerSafe DEF Active, Replies
  <2>2. HopsInv'
    BY <1>2, <1>4, <2>1 DEF HopsInv, E!MaxRedirects
  <2> QED
    BY <1>1, <1>3, <2>1, <2>2, NoteSteps
<1> QED
  BY <1>5, <1>6, <1>7 DEF E!Hop

\* A derived list has the media host of WhatsApp on it, so only another host is
\* refused.
LEMMA HopRefusedSafe ==
  ASSUME E!SettingsAssumption, EgressInv, E!HopRefused
  PROVE  EgressInv'
<1> DEFINE reply == IF E!Exhausted(note.hops) THEN "too_many_redirects" ELSE "egress"
<1>1. /\ note.phase = "download" /\ note.channel = "whatsapp"
      /\ reply = "egress" => ~E!Allows(allowlist, note.url)
      /\ E!Answer(reply)
      /\ UNCHANGED <<settings, stage, cause, allowlist, opened>>
  BY DEF E!HopRefused, E!Permitted
<1>2. settings.explicit = {} => E!Allows(allowlist, E!WhatsAppMedia)
  <2> SUFFICES ASSUME settings.explicit = {} PROVE E!Allows(allowlist, E!WhatsAppMedia)
    OBVIOUS
  <2>1. settings.whatsapp /\ stage = "running"
    BY <1>1 DEF EgressInv, NoteInv, Active, E!HasToken
  <2>2. E!WhatsAppMedia \in E!effective_egress(settings)
    BY <2>1 DEF E!effective_egress, E!derive_egress_entries
  <2>3. E!ParseEntry(E!WhatsAppMedia) = E!WhatsAppMedia
    BY DEF E!ParseEntry, E!WhatsAppMedia
  <2>4. E!WhatsAppMedia \in allowlist
    BY <2>1, <2>2, <2>3 DEF EgressInv, AllowlistInv
  <2> QED
    BY <2>4 DEF E!Allows, E!HasAuthority, E!WhatsAppMedia, E!NoUrl, E!Malformed
<1>3. /\ NoteInv' /\ E!DerivedListIsEnough' /\ note'.phase = "answered"
      /\ note'.channel = note.channel
  <2>1. reply \in Replies
    BY DEF Replies
  <2>2. reply = "egress" => settings.explicit # {} \/ note.url # E!WhatsAppMedia
    BY <1>1, <1>2
  <2> HIDE DEF reply
  <2> QED
    BY <1>1, <2>1, <2>2, AnswerSafe DEF Active
<1>4. HopsInv' /\ E!OpenedIsAllowed'
  BY <1>1, <1>3, NothingOpened DEF EgressInv, HopsInv, Hops
<1> QED
  BY <1>1, <1>3, <1>4, NoteSteps

LEMMA TranscribeSafe ==
  ASSUME E!SettingsAssumption, EgressInv,
         NEW reply \in {"transcript", "failed", "download_too_large"},
         NEW added \in E!ByUrllib(0), E!Transcribe(reply, added)
  PROVE  EgressInv'
<1> DEFINE target == settings.adapters["transcription"].url
<1>1. note.phase = "audio" /\ UNCHANGED <<settings, stage, cause, allowlist>>
  BY DEF E!Transcribe
<1>2. /\ NoteInv' /\ E!DerivedListIsEnough' /\ note'.phase = "answered"
      /\ note'.channel = note.channel
  BY <1>1, AnswerSafe DEF E!Transcribe, Active, Replies
<1>3. CASE UNCHANGED opened
  BY <1>1, <1>2, <1>3, NothingOpened, NoteSteps DEF EgressInv, HopsInv, Hops
<1>4. CASE Opens(target, 0, added)
  <2>1. target \in allowlist
    BY <1>1 DEF EgressInv, NoteInv, Active, TranscriptionInv, E!Allows
  <2> HIDE DEF target
  <2>2. HopsInv'
    BY <1>2, <1>4, HopsGrow DEF EgressInv, HopsInv
  <2>3. E!OpenedIsAllowed'
    BY <1>1, <1>2, <1>4, <2>1, OpenSafe
  <2> QED
    BY <1>1, <1>2, <2>2, <2>3, NoteSteps
<1> QED
  BY <1>3, <1>4, UrllibAdds DEF E!Transcribe, Opens

\* The component on its own.
LEMMA EgressPart ==
  ASSUME E!SettingsAssumption
  PROVE  E!Spec => []E!EgressHeld
<1>1. E!Init => EgressInv
  BY EgressInitial
<1>2. EgressInv /\ [E!Next]_E!vars => EgressInv'
  <2> SUFFICES ASSUME EgressInv, [E!Next]_E!vars PROVE EgressInv'
    OBVIOUS
  <2>1. CASE UNCHANGED E!vars
    <3>1. UNCHANGED <<settings, stage, cause, allowlist, note, opened>>
      BY <2>1 DEF E!vars
    <3>2. NoteInv' /\ HopsInv' /\ E!OpenedIsAllowed' /\ E!DerivedListIsEnough'
      BY <3>1 DEF EgressInv, NoteInv, HopsInv, Hops, E!OpenedIsAllowed,
                  E!DerivedListIsEnough, E!HasToken, E!Allows
    <3> QED
      BY <3>1, <3>2, NoteSteps
  <2>2. CASE E!Next
    BY <2>2, ValidateSafe, BuildSafe, ReceiveSafe, ResolveSafe, ResolveFailsSafe,
       DownloadTelegramSafe, HopSafe, HopRefusedSafe, TranscribeSafe DEF E!Next, E!Step
  <2> QED
    BY <2>1, <2>2
<1>3. EgressInv => E!EgressHeld
  BY SameCardinalityEgress DEF EgressInv, HopsInv, Hops, E!EgressHeld, E!HopsBounded
<1> QED
  BY <1>1, <1>2, <1>3, PTL DEF E!Spec

\* For every configuration and every redirect chain: settings that start-up accepts
\* are never refused a target later; every connection the code itself asks for goes to
\* an allowlisted host, at every hop of a WhatsApp download, which costs at most five;
\* a host off the list is reached only by a redirect that urllib follows, in another
\* call; and the derived list is enough for WhatsApp's own media host.
THEOREM EgressAlwaysHeld ==
  ASSUME E!SettingsAssumption
  PROVE  Spec => []EgressHeld
<1> DEFINE followed == part = "egress"
<1>1. Init => (followed => E!Init)
  BY DEF Init
<1>2. [Next]_vars => (followed' <=> followed) /\ (followed => [E!Next]_E!vars)
  BY PartsApart
<1>3. (followed => E!EgressHeld) => EgressHeld
  BY DEF EgressHeld
<1>4. E!Spec => []E!EgressHeld
  BY EgressPart
<1> HIDE DEF followed
<1> QED
  BY <1>1, <1>2, <1>3, <1>4, PTL DEF Spec, E!Spec

-----------------------------------------------------------------------------
(* The trace table.                                                        *)
(*                                                                         *)
(* Locks and the rows a command holds are two views of one relation.  What *)
(* makes the sanitizer's one pass enough is that a row that was not safe   *)
(* when it began to read is in its hands or still ahead of it, whoever     *)
(* deletes and inserts meanwhile: what is written again is safe.           *)

TraceAssumption == T!IdsAssumption /\ T!DaysAssumption /\ T!CommandsAssumption

CommandState ==
  [pc : {"idle", "refused", "count", "delete", "lock", "done", "failed"},
   apply : BOOLEAN, cutoff : Int, left : SUBSET (TraceIds \X Nat), held : SUBSET TraceIds,
   matched : Nat, done : Nat, failure : {"none", "refused", "database"},
   late : BOOLEAN]

StoredRow == [created : 0 .. now, content : T!Contents]

TableInv ==
  /\ rows \in [TraceIds -> {T!NoRow} \cup StoredRow]
  /\ now \in MaxDays .. LastDay
  /\ writes \in 0 .. MaxWrites
  /\ sanitized \in BOOLEAN
  /\ writer.result \in {"none", "stored", "replayed", "conflict", "dropped"}
  /\ locks \in [TraceIds -> T!Commands \cup {T!Free}]
  /\ cmd \in [T!Commands -> CommandState]

\* Who has a row's lock holds the row, and only a transaction that is locking does.
LockInv ==
  /\ \A id \in TraceIds : locks[id] # T!Free =>
       T!Present(id) /\ cmd[locks[id]].pc = "lock" /\ id \in cmd[locks[id]].held
  /\ \A c \in T!Commands : \A id \in cmd[c].held : locks[id] = c
  /\ \A c \in T!Commands : cmd[c].pc # "lock" => cmd[c].left = {} /\ cmd[c].held = {}

\* A pruner's cutoff is at least a day ago, and it holds nothing younger.
PruneInv ==
  \A c \in Pruners :
    /\ cmd[c].pc \in {"count", "delete", "lock"} => cmd[c].cutoff + 1 <= now
    /\ \A target \in cmd[c].left : target[2] < cmd[c].cutoff
    /\ \A id \in cmd[c].held : rows[id].created < cmd[c].cutoff

\* A row that is not safe is held by every sanitizer at work, or ahead of it.
SanitizeInv ==
  \A c \in Sanitizers :
    /\ cmd[c].pc = "lock" =>
         \A id \in TraceIds : T!Present(id) /\ rows[id].content # "safe" =>
           id \in cmd[c].held \/ <<id, rows[id].created>> \in cmd[c].left
    /\ cmd[c].late => sanitized
    /\ cmd[c].pc = "done" /\ cmd[c].late => cmd[c].matched = 0

AllSafe == sanitized => \A id \in TraceIds : T!Present(id) => rows[id].content = "safe"

TraceInv == TableInv /\ LockInv /\ PruneInv /\ SanitizeInv /\ AllSafe

LEMMA SameCardinalityTrace == \A S : T!Cardinality(S) = Cardinality(S)
BY DEF T!Cardinality, Cardinality

LEMMA SameFiniteTrace == \A S : T!IsFiniteSet(S) = IsFiniteSet(S)
BY Zenon DEF T!IsFiniteSet, IsFiniteSet

\* Counts of rows are numbers.
LEMMA CountsAreNumbers ==
  ASSUME TraceAssumption, NEW S \in SUBSET TraceIds
  PROVE  T!Cardinality(S) \in Nat
<1>1. IsFiniteSet(TraceIds)
  BY SameFiniteTrace DEF TraceAssumption, T!IdsAssumption
<1>2. IsFiniteSet(S)
  BY <1>1, FS_Subset
<1> QED
  BY <1>2, FS_CardinalityType, SameCardinalityTrace

LEMMA NoRowIsNone == T!NoRow.created = -1 /\ T!NoRow.content = "none"
BY DEF T!NoRow

LEMMA CommandKinds ==
  ASSUME TraceAssumption
  PROVE  /\ \A c \in Pruners : c \in T!Commands /\ c \notin Sanitizers
         /\ \A c \in Sanitizers : c \in T!Commands /\ c \notin Pruners
         /\ \A c \in T!Commands : c # T!Free
BY DEF TraceAssumption, T!CommandsAssumption, T!Commands

LEMMA IdleIsCommand ==
  /\ T!Idle \in CommandState
  /\ T!Idle.pc = "idle" /\ T!Idle.left = {} /\ T!Idle.held = {} /\ T!Idle.late = FALSE
BY DEF T!Idle, CommandState

LEMMA TraceInitial ==
  ASSUME TraceAssumption, T!Init
  PROVE  TraceInv
<1>1. TableInv
  <2>1. now \in MaxDays .. LastDay /\ writes \in 0 .. MaxWrites
    BY DEF T!Init, TraceAssumption, T!DaysAssumption
  <2>2. writer.result = "none"
    BY DEF T!Init, T!NoWrite
  <2>3. rows \in [TraceIds -> {T!NoRow} \cup StoredRow]
    BY DEF T!Init, StoredRow
  <2> QED
    BY <2>1, <2>2, <2>3, IdleIsCommand DEF T!Init, TableInv
<1>2. /\ \A c \in T!Commands : cmd[c] = T!Idle
      /\ \A id \in TraceIds : locks[id] = T!Free
      /\ sanitized = FALSE
  BY DEF T!Init
<1>3. LockInv /\ PruneInv /\ SanitizeInv /\ AllSafe
  BY <1>2, IdleIsCommand, CommandKinds DEF LockInv, PruneInv, SanitizeInv, AllSafe
<1> QED
  BY <1>1, <1>3 DEF TraceInv

\* A command whose record changes while it holds nothing leaves the rest alone.
LEMMA QuietStep ==
  ASSUME TraceAssumption, TraceInv, NEW c \in T!Commands, NEW new \in CommandState,
         cmd' = [cmd EXCEPT ![c] = new], UNCHANGED <<rows, locks, now, writer, writes, sanitized>>,
         cmd[c].pc # "lock", new.held = {},
         new.pc # "lock" => new.left = {},
         c \in Pruners => /\ new.pc \in {"count", "delete", "lock"} => new.cutoff + 1 <= now
                          /\ \A target \in new.left : target[2] < new.cutoff,
         c \in Sanitizers =>
           /\ new.pc = "lock" =>
                \A id \in TraceIds : T!Present(id) /\ rows[id].content # "safe" =>
                  <<id, rows[id].created>> \in new.left
           /\ new.late => sanitized
           /\ new.pc = "done" /\ new.late => new.matched = 0
  PROVE  TraceInv'
<1>1. TableInv'
  <2>1. cmd' \in [T!Commands -> CommandState]
    BY DEF TraceInv, TableInv
  <2>2. StoredRow' = StoredRow
    BY DEF StoredRow
  <2> QED
    BY <2>1, <2>2 DEF TraceInv, TableInv
<1>2. /\ cmd'[c] = new
      /\ \A d \in T!Commands : d # c => cmd'[d] = cmd[d]
  BY DEF TraceInv, TableInv
<1>3. cmd[c].held = {} /\ \A id \in TraceIds : locks[id] # c
  BY CommandKinds DEF TraceInv, LockInv
<1>4. LockInv'
  <2>1. ASSUME NEW id \in TraceIds, locks'[id] # T!Free
        PROVE  T!Present(id)' /\ cmd'[locks'[id]].pc = "lock" /\ id \in cmd'[locks'[id]].held
    BY <1>2, <1>3, <2>1 DEF TraceInv, TableInv, LockInv, T!Present
  <2>2. ASSUME NEW d \in T!Commands, NEW id \in cmd'[d].held
        PROVE  locks'[id] = d
    BY <1>2, <2>2 DEF TraceInv, LockInv
  <2>3. ASSUME NEW d \in T!Commands, cmd'[d].pc # "lock"
        PROVE  cmd'[d].left = {} /\ cmd'[d].held = {}
    BY <1>2, <2>3 DEF TraceInv, LockInv
  <2> QED
    BY <2>1, <2>2, <2>3 DEF LockInv
<1>5. PruneInv'
  BY <1>2, CommandKinds DEF TraceInv, PruneInv
<1>6. SanitizeInv'
  BY <1>2, CommandKinds DEF TraceInv, SanitizeInv, T!Present
<1>7. AllSafe'
  BY DEF TraceInv, AllSafe, T!Present
<1> QED
  BY <1>1, <1>4, <1>5, <1>6, <1>7 DEF TraceInv

LEMMA RefuseSafe ==
  ASSUME TraceAssumption, TraceInv, NEW c \in T!Commands, T!Refuse(c)
  PROVE  TraceInv'
<1> DEFINE new == [cmd[c] EXCEPT !.pc = "refused"]
<1>1. cmd[c] \in CommandState /\ cmd[c].pc = "idle"
  BY DEF TraceInv, TableInv, T!Refuse, T!MayStart
<1>2. /\ new \in CommandState /\ new.pc = "refused" /\ new.held = cmd[c].held
      /\ new.left = cmd[c].left /\ new.late = cmd[c].late
  BY <1>1 DEF CommandState
<1>3. cmd[c].held = {} /\ cmd[c].left = {} /\ (c \in Sanitizers /\ cmd[c].late => sanitized)
  BY <1>1 DEF TraceInv, LockInv, SanitizeInv
<1>4. cmd' = [cmd EXCEPT ![c] = new] /\ UNCHANGED <<rows, locks, now, writer, writes, sanitized>>
  BY DEF T!Refuse
<1> HIDE DEF new
<1> QED
  BY <1>1, <1>2, <1>3, <1>4, QuietStep

LEMMA PruneBeginSafe ==
  ASSUME TraceAssumption, TraceInv, NEW c \in Pruners, T!PruneBegin(c)
  PROVE  TraceInv'
<1>1. PICK days \in DaysGiven, apply \in BOOLEAN :
        /\ T!ValidDays(days)
        /\ cmd' = [cmd EXCEPT ![c] = [T!Idle EXCEPT !.pc = "count", !.apply = apply,
                                                    !.cutoff = now - days]]
  BY DEF T!PruneBegin
<1> DEFINE new == [T!Idle EXCEPT !.pc = "count", !.apply = apply, !.cutoff = now - days]
<1>2. now - days \in Int /\ (now - days) + 1 <= now
  BY <1>1 DEF TraceInv, TableInv, TraceAssumption, T!DaysAssumption, T!ValidDays
<1>3. /\ new \in CommandState /\ new.pc = "count" /\ new.held = {} /\ new.left = {}
      /\ new.cutoff = now - days
  BY <1>2, IdleIsCommand DEF CommandState
<1>4. cmd[c].pc = "idle" /\ UNCHANGED <<rows, locks, now, writer, writes, sanitized>>
  BY DEF T!PruneBegin, T!MayStart
<1>5. c \in T!Commands /\ c \notin Sanitizers
  BY CommandKinds
<1> HIDE DEF new
<1> QED
  BY <1>1, <1>2, <1>3, <1>4, <1>5, QuietStep DEF new

LEMMA PruneCountSafe ==
  ASSUME TraceAssumption, TraceInv, NEW c \in Pruners, T!PruneCount(c)
  PROVE  TraceInv'
<1> DEFINE old == {id \in TraceIds : T!TooOld(c, id)}
           new == [cmd[c] EXCEPT !.pc = IF cmd[c].apply THEN "delete" ELSE "done",
                                 !.matched = T!Cardinality(old)]
<1>1. c \in T!Commands /\ c \notin Sanitizers
  BY CommandKinds
<1>2. cmd[c] \in CommandState /\ cmd[c].pc = "count"
  BY <1>1 DEF TraceInv, TableInv, T!PruneCount
<1>3. T!Cardinality(old) \in Nat
  BY CountsAreNumbers
<1>4. /\ new \in CommandState /\ new.pc \in {"delete", "done"} /\ new.held = cmd[c].held
      /\ new.left = cmd[c].left /\ new.cutoff = cmd[c].cutoff
  BY <1>2, <1>3 DEF CommandState
<1>5. cmd[c].held = {} /\ cmd[c].left = {} /\ cmd[c].cutoff + 1 <= now
  BY <1>1, <1>2 DEF TraceInv, LockInv, PruneInv
<1>6. cmd' = [cmd EXCEPT ![c] = new] /\ UNCHANGED <<rows, locks, now, writer, writes, sanitized>>
  BY <1>1, <1>2 DEF T!PruneCount, TraceInv, TableInv
<1> HIDE DEF new
<1> QED
  BY <1>1, <1>2, <1>4, <1>5, <1>6, QuietStep

\* The pairs a statement sees are keys with the days their rows were written.
LEMMA SeenPairs ==
  ASSUME TraceAssumption, TraceInv, NEW S \in SUBSET TraceIds, \A id \in S : T!Present(id)
  PROVE  {<<id, rows[id].created>> : id \in S} \in SUBSET (TraceIds \X Nat)
<1>1. ASSUME NEW id \in S
      PROVE  rows[id].created \in Nat
  BY <1>1 DEF TraceInv, TableInv, StoredRow, T!Present, TraceAssumption, T!DaysAssumption
<1> QED
  BY <1>1

LEMMA PruneDeleteSafe ==
  ASSUME TraceAssumption, TraceInv, NEW c \in Pruners, T!PruneDelete(c)
  PROVE  TraceInv'
<1> DEFINE seen == {<<id, rows[id].created>> : id \in {i \in TraceIds : T!TooOld(c, i)}}
           new == [cmd[c] EXCEPT !.pc = "lock", !.left = seen]
<1>1. c \in T!Commands /\ c \notin Sanitizers
  BY CommandKinds
<1>2. cmd[c] \in CommandState /\ cmd[c].pc = "delete"
  BY <1>1 DEF TraceInv, TableInv, T!PruneDelete
<1>3. seen \in SUBSET (TraceIds \X Nat) /\ \A target \in seen : target[2] < cmd[c].cutoff
  <2>1. seen \in SUBSET (TraceIds \X Nat)
    BY SeenPairs DEF T!TooOld
  <2> QED
    BY <2>1 DEF T!TooOld
<1>4. /\ new \in CommandState /\ new.pc = "lock" /\ new.held = cmd[c].held
      /\ new.left = seen /\ new.cutoff = cmd[c].cutoff
  <2> HIDE DEF seen
  <2> QED
    BY <1>2, <1>3 DEF CommandState
<1>5. cmd[c].held = {} /\ cmd[c].cutoff + 1 <= now
  BY <1>1, <1>2 DEF TraceInv, LockInv, PruneInv
<1>6. cmd' = [cmd EXCEPT ![c] = new] /\ UNCHANGED <<rows, locks, now, writer, writes, sanitized>>
  BY <1>1, <1>2 DEF T!PruneDelete, TraceInv, TableInv
<1> HIDE DEF new, seen
<1> QED
  BY <1>1, <1>2, <1>3, <1>4, <1>5, <1>6, QuietStep

LEMMA SanitizeReadSafe ==
  ASSUME TraceAssumption, TraceInv, NEW c \in Sanitizers, T!SanitizeRead(c)
  PROVE  TraceInv'
<1> DEFINE seen == {<<id, rows[id].created>> : id \in {i \in TraceIds : T!Present(i)}}
           new == [T!Idle EXCEPT !.pc = "lock", !.apply = TRUE, !.late = sanitized,
                                 !.left = seen]
<1>1. c \in T!Commands /\ c \notin Pruners
  BY CommandKinds
<1>2. seen \in SUBSET (TraceIds \X Nat)
  BY SeenPairs
<1>3. /\ new \in CommandState /\ new.pc = "lock" /\ new.held = {} /\ new.left = seen
      /\ new.late = sanitized
  <2> HIDE DEF seen
  <2> QED
    BY <1>2, IdleIsCommand DEF CommandState, TraceInv, TableInv
<1>4. \A id \in TraceIds : T!Present(id) => <<id, rows[id].created>> \in seen
  OBVIOUS
<1>5. /\ cmd' = [cmd EXCEPT ![c] = new] /\ cmd[c].pc = "idle"
      /\ UNCHANGED <<rows, locks, now, writer, writes, sanitized>>
  BY DEF T!SanitizeRead, T!MayStart
<1> HIDE DEF new, seen
<1> QED
  BY <1>1, <1>3, <1>4, <1>5, QuietStep

LEMMA SanitizeDryRunSafe ==
  ASSUME TraceAssumption, TraceInv, NEW c \in Sanitizers, T!SanitizeDryRun(c)
  PROVE  TraceInv'
<1> DEFINE seen == {id \in TraceIds : T!Present(id)}
           bad == \E id \in seen : T!Refused(id)
           unsafe == {i \in seen : rows[i].content # "safe"}
           new == [T!Idle EXCEPT !.pc = IF bad THEN "failed" ELSE "done",
                                 !.failure = IF bad THEN "refused" ELSE "none",
                                 !.matched = T!Cardinality(unsafe),
                                 !.late = sanitized]
<1>1. c \in T!Commands /\ c \notin Pruners
  BY CommandKinds
<1>2. T!Cardinality(unsafe) \in Nat
  BY CountsAreNumbers
<1>3. sanitized => T!Cardinality(unsafe) = 0
  BY FS_EmptySet, SameCardinalityTrace DEF TraceInv, AllSafe
<1>4. /\ cmd' = [cmd EXCEPT ![c] = new] /\ cmd[c].pc = "idle"
      /\ UNCHANGED <<rows, locks, now, writer, writes, sanitized>>
  BY DEF T!SanitizeDryRun, T!MayStart
<1>5. /\ new \in CommandState /\ new.pc \in {"failed", "done"} /\ new.held = {}
      /\ new.left = {} /\ new.late = sanitized /\ new.matched = T!Cardinality(unsafe)
  <2> HIDE DEF unsafe, bad
  <2> QED
    BY <1>2, IdleIsCommand DEF CommandState, TraceInv, TableInv
<1> HIDE DEF new, unsafe
<1> QED
  BY <1>1, <1>3, <1>4, <1>5, QuietStep

\* A row that is locked is there, as old as it was seen; one that was written again
\* is passed over, and is safe.
LEMMA TakeSafe ==
  ASSUME TraceAssumption, TraceInv, NEW c \in T!Commands, cmd[c].pc = "lock",
         NEW target \in cmd[c].left, T!Take(c, target),
         UNCHANGED <<rows, now, writer, writes, sanitized>>
  PROVE  TraceInv'
<1> DEFINE id == target[1]
           still == rows[id].created = target[2]
           new == [cmd[c] EXCEPT !.left = cmd[c].left \ {target},
                                 !.held = IF still THEN cmd[c].held \cup {id} ELSE cmd[c].held]
<1>1. cmd[c] \in CommandState
  BY DEF TraceInv, TableInv
<1>2. id \in TraceIds /\ target[2] \in Nat /\ target = <<id, target[2]>>
  BY <1>1 DEF CommandState
<1>3. still => T!Present(id)
  BY <1>2, NoRowIsNone DEF T!Present
<1>4. /\ new \in CommandState /\ new.pc = "lock" /\ new.left = cmd[c].left \ {target}
      /\ new.held = IF still THEN cmd[c].held \cup {id} ELSE cmd[c].held
      /\ new.cutoff = cmd[c].cutoff /\ new.late = cmd[c].late
  <2>1. cmd[c].left \ {target} \in SUBSET (TraceIds \X Nat)
    BY <1>1 DEF CommandState
  <2>2. (IF still THEN cmd[c].held \cup {id} ELSE cmd[c].held) \in SUBSET TraceIds
    BY <1>1, <1>2 DEF CommandState
  <2> HIDE DEF still, id
  <2> QED
    BY <1>1, <2>1, <2>2 DEF CommandState
<1>5. /\ cmd' = [cmd EXCEPT ![c] = new]
      /\ locks[id] = T!Free
      /\ locks' = IF still THEN [locks EXCEPT ![id] = c] ELSE locks
  BY <1>1 DEF T!Take, TraceInv, TableInv
<1> HIDE DEF new, still
<1>6. /\ cmd'[c] = new
      /\ \A d \in T!Commands : d # c => cmd'[d] = cmd[d]
  BY <1>5 DEF TraceInv, TableInv
<1>7. TableInv'
  <2>1. cmd' \in [T!Commands -> CommandState]
    BY <1>4, <1>5 DEF TraceInv, TableInv
  <2>2. locks' \in [TraceIds -> T!Commands \cup {T!Free}]
    BY <1>2, <1>5 DEF TraceInv, TableInv
  <2>3. StoredRow' = StoredRow
    BY DEF StoredRow
  <2> QED
    BY <2>1, <2>2, <2>3 DEF TraceInv, TableInv
<1>8. ASSUME NEW i \in TraceIds
      PROVE  locks'[i] = IF still /\ i = id THEN c ELSE locks[i]
  BY <1>2, <1>5 DEF TraceInv, TableInv
<1>9. LockInv'
  <2>1. ASSUME NEW i \in TraceIds, locks'[i] # T!Free
        PROVE  T!Present(i)' /\ cmd'[locks'[i]].pc = "lock" /\ i \in cmd'[locks'[i]].held
    <3>1. CASE still /\ i = id
      BY <1>3, <1>4, <1>6, <1>8, <3>1 DEF T!Present
    <3>2. CASE ~(still /\ i = id)
      <4>1. locks'[i] = locks[i] /\ T!Present(i) /\ cmd[locks[i]].pc = "lock"
            /\ i \in cmd[locks[i]].held /\ locks[i] \in T!Commands
        BY <1>8, <2>1, <3>2 DEF TraceInv, TableInv, LockInv
      <4> QED
        BY <1>4, <1>6, <4>1 DEF T!Present
    <3> QED
      BY <3>1, <3>2
  <2>2. ASSUME NEW d \in T!Commands, NEW i \in cmd'[d].held
        PROVE  locks'[i] = d
    <3>1. i \in TraceIds
      BY <1>7 DEF TableInv, CommandState
    <3>2. CASE i \in cmd[d].held
      <4>1. locks[i] = d /\ d # T!Free
        BY <3>2, CommandKinds DEF TraceInv, LockInv
      <4> QED
        BY <1>5, <1>8, <3>1, <4>1
    <3>3. CASE i \notin cmd[d].held
      BY <1>4, <1>6, <1>8, <3>1, <3>3
    <3> QED
      BY <3>2, <3>3
  <2>3. ASSUME NEW d \in T!Commands, cmd'[d].pc # "lock"
        PROVE  cmd'[d].left = {} /\ cmd'[d].held = {}
    BY <1>4, <1>6, <2>3 DEF TraceInv, LockInv
  <2> QED
    BY <2>1, <2>2, <2>3 DEF LockInv
<1>10. PruneInv'
  <2> SUFFICES ASSUME NEW d \in Pruners
               PROVE  /\ cmd'[d].pc \in {"count", "delete", "lock"} => cmd'[d].cutoff + 1 <= now
                      /\ \A t \in cmd'[d].left : t[2] < cmd'[d].cutoff
                      /\ \A i \in cmd'[d].held : rows[i].created < cmd'[d].cutoff
    BY DEF PruneInv
  <2>1. CASE d # c
    BY <1>6, <2>1, CommandKinds DEF TraceInv, PruneInv
  <2>2. CASE d = c
    <3>1. /\ cmd[c].cutoff + 1 <= now
          /\ \A t \in cmd[c].left : t[2] < cmd[c].cutoff
          /\ \A i \in cmd[c].held : rows[i].created < cmd[c].cutoff
      BY <2>2 DEF TraceInv, PruneInv
    <3>2. still => rows[id].created < cmd[c].cutoff
      BY <3>1 DEF still
    <3> QED
      BY <1>4, <1>6, <2>2, <3>1, <3>2
  <2> QED
    BY <2>1, <2>2
<1>11. SanitizeInv'
  <2> SUFFICES ASSUME NEW d \in Sanitizers
               PROVE  /\ cmd'[d].pc = "lock" =>
                           \A i \in TraceIds : T!Present(i) /\ rows[i].content # "safe" =>
                             i \in cmd'[d].held \/ <<i, rows[i].created>> \in cmd'[d].left
                      /\ cmd'[d].late => sanitized
                      /\ cmd'[d].pc = "done" /\ cmd'[d].late => cmd'[d].matched = 0
    BY DEF SanitizeInv, T!Present
  <2>1. CASE d # c
    BY <1>6, <2>1, CommandKinds DEF TraceInv, SanitizeInv
  <2>2. CASE d = c
    <3>1. ASSUME NEW i \in TraceIds, T!Present(i), rows[i].content # "safe"
          PROVE  i \in new.held \/ <<i, rows[i].created>> \in new.left
      <4>1. i \in cmd[c].held \/ <<i, rows[i].created>> \in cmd[c].left
        BY <2>2, <3>1 DEF TraceInv, SanitizeInv
      <4>2. <<i, rows[i].created>> = target => i = id /\ still
        BY <1>2 DEF still
      <4> QED
        BY <1>4, <4>1, <4>2
    <3> QED
      BY <1>4, <1>6, <2>2, <3>1 DEF TraceInv, SanitizeInv
  <2> QED
    BY <2>1, <2>2
<1>12. AllSafe'
  BY DEF TraceInv, AllSafe, T!Present
<1> QED
  BY <1>7, <1>9, <1>10, <1>11, <1>12 DEF TraceInv

LEMMA EndedIsCommand ==
  ASSUME NEW with \in CommandState, NEW new,
         new = [with EXCEPT !.left = {}, !.held = {}, !.cutoff = 0]
  PROVE  /\ new \in CommandState /\ new.pc = with.pc /\ new.left = {} /\ new.held = {}
         /\ new.late = with.late /\ new.matched = with.matched /\ new.done = with.done
<1>1. {} \in SUBSET (TraceIds \X Nat) /\ {} \in SUBSET TraceIds /\ 0 \in Int
  OBVIOUS
<1> DEFINE first == [with EXCEPT !.left = {}]
           second == [first EXCEPT !.held = {}]
<1>2. first \in CommandState /\ first.left = {}
      /\ first.pc = with.pc /\ first.late = with.late /\ first.matched = with.matched
      /\ first.done = with.done
  BY <1>1 DEF CommandState
<1> HIDE DEF first
<1>3. second \in CommandState /\ second.left = {} /\ second.held = {}
      /\ second.pc = with.pc /\ second.late = with.late /\ second.matched = with.matched
      /\ second.done = with.done
  BY <1>1, <1>2 DEF CommandState
<1>4. new = [second EXCEPT !.cutoff = 0]
  BY DEF first
<1> HIDE DEF second
<1> QED
  BY <1>1, <1>3, <1>4 DEF CommandState

\* The end of a command, whether its rows changed or not.  Only the rows it held may
\* have changed, and what is not safe now was not safe before.
LEMMA EndsSafe ==
  ASSUME TraceAssumption, TraceInv, NEW c \in T!Commands, NEW with \in CommandState,
         with.pc \in {"done", "failed"}, T!Ends(c, with),
         UNCHANGED <<now, writer, writes>>,
         sanitized' \in BOOLEAN, sanitized => sanitized',
         rows' \in [TraceIds -> {T!NoRow} \cup StoredRow],
         \A id \in TraceIds \ cmd[c].held : rows'[id] = rows[id],
         \A id \in TraceIds : rows'[id] # T!NoRow /\ rows'[id].content # "safe" =>
           ~sanitized' /\ rows'[id] = rows[id],
         c \in Sanitizers => /\ with.late => sanitized'
                             /\ with.pc = "done" /\ with.late => with.matched = 0
  PROVE  TraceInv'
<1> DEFINE new == [with EXCEPT !.left = {}, !.held = {}, !.cutoff = 0]
<1>1. /\ new \in CommandState /\ new.pc = with.pc /\ new.left = {} /\ new.held = {}
      /\ new.late = with.late /\ new.matched = with.matched
  BY EndedIsCommand
<1>2. cmd' = [cmd EXCEPT ![c] = new] /\ locks' = T!Unlocked(c)
  BY DEF T!Ends
<1> HIDE DEF new
<1>3. /\ cmd'[c] = new
      /\ \A d \in T!Commands : d # c => cmd'[d] = cmd[d]
  BY <1>2 DEF TraceInv, TableInv
<1>4. \A id \in TraceIds : locks'[id] = IF locks[id] = c THEN T!Free ELSE locks[id]
  BY <1>2 DEF T!Unlocked
<1>5. TableInv'
  <2>1. cmd' \in [T!Commands -> CommandState]
    BY <1>1, <1>2 DEF TraceInv, TableInv
  <2>2. locks' \in [TraceIds -> T!Commands \cup {T!Free}]
    BY <1>2 DEF T!Unlocked, TraceInv, TableInv
  <2>3. StoredRow' = StoredRow
    BY DEF StoredRow
  <2> QED
    BY <2>1, <2>2, <2>3 DEF TraceInv, TableInv
<1>6. ASSUME NEW d \in T!Commands, d # c, NEW id \in cmd[d].held
      PROVE  id \in TraceIds /\ id \notin cmd[c].held /\ rows'[id] = rows[id]
  <2>1. id \in TraceIds
    BY DEF TraceInv, TableInv, CommandState
  <2>2. id \notin cmd[c].held
    BY <1>6 DEF TraceInv, LockInv
  <2> QED
    BY <2>1, <2>2
<1>7. LockInv'
  <2>1. ASSUME NEW id \in TraceIds, locks'[id] # T!Free
        PROVE  T!Present(id)' /\ cmd'[locks'[id]].pc = "lock" /\ id \in cmd'[locks'[id]].held
    <3>1. /\ locks'[id] = locks[id] /\ locks[id] # c /\ locks[id] \in T!Commands
          /\ T!Present(id) /\ cmd[locks[id]].pc = "lock" /\ id \in cmd[locks[id]].held
      BY <1>4, <2>1 DEF TraceInv, TableInv, LockInv
    <3>2. rows'[id] = rows[id]
      BY <1>6, <3>1
    <3> QED
      BY <1>3, <3>1, <3>2 DEF T!Present
  <2>2. ASSUME NEW d \in T!Commands, NEW id \in cmd'[d].held
        PROVE  locks'[id] = d
    <3>1. d # c /\ id \in cmd[d].held
      BY <1>1, <1>3
    <3> QED
      BY <1>4, <1>6, <3>1 DEF TraceInv, LockInv
  <2>3. ASSUME NEW d \in T!Commands, cmd'[d].pc # "lock"
        PROVE  cmd'[d].left = {} /\ cmd'[d].held = {}
    BY <1>1, <1>3, <2>3 DEF TraceInv, LockInv
  <2> QED
    BY <2>1, <2>2, <2>3 DEF LockInv
<1>8. PruneInv'
  <2> SUFFICES ASSUME NEW d \in Pruners
               PROVE  /\ cmd'[d].pc \in {"count", "delete", "lock"} => cmd'[d].cutoff + 1 <= now
                      /\ \A t \in cmd'[d].left : t[2] < cmd'[d].cutoff
                      /\ \A i \in cmd'[d].held : rows'[i].created < cmd'[d].cutoff
    BY DEF PruneInv
  <2>1. CASE d # c
    BY <1>3, <1>6, <2>1, CommandKinds DEF TraceInv, PruneInv
  <2>2. CASE d = c
    BY <1>1, <1>3, <2>2
  <2> QED
    BY <2>1, <2>2
<1>9. SanitizeInv'
  <2> SUFFICES ASSUME NEW d \in Sanitizers
               PROVE  /\ cmd'[d].pc = "lock" =>
                           \A i \in TraceIds : rows'[i] # T!NoRow /\ rows'[i].content # "safe" =>
                             i \in cmd'[d].held \/ <<i, rows'[i].created>> \in cmd'[d].left
                      /\ cmd'[d].late => sanitized'
                      /\ cmd'[d].pc = "done" /\ cmd'[d].late => cmd'[d].matched = 0
    BY DEF SanitizeInv, T!Present
  <2>1. CASE d # c
    BY <1>3, <2>1, CommandKinds DEF TraceInv, SanitizeInv, T!Present
  <2>2. CASE d = c
    BY <1>1, <1>3, <2>2
  <2> QED
    BY <2>1, <2>2
<1>10. AllSafe'
  BY DEF AllSafe, T!Present
<1> QED
  BY <1>5, <1>7, <1>8, <1>9, <1>10 DEF TraceInv

LEMMA PruneLockSafe ==
  ASSUME TraceAssumption, TraceInv, NEW c \in Pruners, T!PruneLock(c)
  PROVE  TraceInv'
BY TakeSafe, CommandKinds DEF T!PruneLock

LEMMA SanitizeLockSafe ==
  ASSUME TraceAssumption, TraceInv, NEW c \in Sanitizers, T!SanitizeLock(c)
  PROVE  TraceInv'
BY TakeSafe, CommandKinds DEF T!SanitizeLock, T!NextRow

\* What a command holds is there.
LEMMA HeldIsPresent ==
  ASSUME TraceAssumption, TraceInv, NEW c \in T!Commands, NEW id \in cmd[c].held
  PROVE  id \in TraceIds /\ T!Present(id) /\ rows[id] \in StoredRow
<1>1. id \in TraceIds /\ locks[id] = c /\ c # T!Free
  BY CommandKinds DEF TraceInv, TableInv, LockInv, CommandState
<1> QED
  BY <1>1 DEF TraceInv, TableInv, LockInv, T!Present

LEMMA PruneCommitSafe ==
  ASSUME TraceAssumption, TraceInv, NEW c \in Pruners, T!PruneCommit(c)
  PROVE  TraceInv'
<1> DEFINE with == [cmd[c] EXCEPT !.pc = "done", !.done = T!Deleted(c)]
<1>1. c \in T!Commands /\ c \notin Sanitizers
  BY CommandKinds
<1>2. with \in CommandState /\ with.pc = "done"
  <2>1. cmd[c] \in CommandState /\ cmd[c].held \in SUBSET TraceIds
    BY <1>1 DEF TraceInv, TableInv, CommandState
  <2>2. T!Deleted(c) \in Nat
    BY <2>1, CountsAreNumbers DEF T!Deleted
  <2> QED
    BY <2>1, <2>2 DEF CommandState
<1>3. /\ T!Ends(c, with) /\ UNCHANGED <<now, writer, writes, sanitized>>
      /\ rows' = [id \in TraceIds |-> IF id \in cmd[c].held THEN T!NoRow ELSE rows[id]]
  BY DEF T!PruneCommit
<1>4. /\ rows' \in [TraceIds -> {T!NoRow} \cup StoredRow]
      /\ \A id \in TraceIds \ cmd[c].held : rows'[id] = rows[id]
      /\ \A id \in TraceIds : rows'[id] # T!NoRow => rows'[id] = rows[id]
  BY <1>3 DEF TraceInv, TableInv
<1>5. \A id \in TraceIds : rows'[id] # T!NoRow /\ rows'[id].content # "safe" =>
        ~sanitized' /\ rows'[id] = rows[id]
  BY <1>3, <1>4 DEF TraceInv, AllSafe, T!Present
<1>6. sanitized' \in BOOLEAN /\ (sanitized => sanitized')
  BY <1>3 DEF TraceInv, TableInv
<1> HIDE DEF with
<1> QED
  BY <1>1, <1>2, <1>3, <1>4, <1>5, <1>6, EndsSafe

\* A rolled back command changes no row.
LEMMA RolledBackSafe ==
  ASSUME TraceAssumption, TraceInv, NEW c \in T!Commands, cmd[c].pc \in {"count", "delete", "lock"},
         NEW failure \in {"refused", "database"},
         T!Ends(c, [cmd[c] EXCEPT !.pc = "failed", !.failure = failure]),
         UNCHANGED <<rows, now, writer, writes, sanitized>>
  PROVE  TraceInv'
<1> DEFINE with == [cmd[c] EXCEPT !.pc = "failed", !.failure = failure]
<1>1. with \in CommandState /\ with.pc = "failed" /\ with.late = cmd[c].late
  BY DEF TraceInv, TableInv, CommandState
<1>2. c \in Sanitizers /\ with.late => sanitized
  BY <1>1 DEF TraceInv, SanitizeInv
<1>3. \A id \in TraceIds : rows[id] # T!NoRow /\ rows[id].content # "safe" => ~sanitized
  BY DEF TraceInv, AllSafe, T!Present
<1>4. rows' \in [TraceIds -> {T!NoRow} \cup StoredRow] /\ sanitized' \in BOOLEAN
  BY DEF TraceInv, TableInv
<1>5. T!Ends(c, with)
  OBVIOUS
<1> HIDE DEF with
<1> QED
  BY <1>1, <1>2, <1>3, <1>4, <1>5, EndsSafe

LEMMA FailSafe ==
  ASSUME TraceAssumption, TraceInv, NEW c \in T!Commands, T!Fail(c)
  PROVE  TraceInv'
BY RolledBackSafe DEF T!Fail

\* The sanitizer's commit: every update finds its row, and nothing is left unsafe.
LEMMA SanitizeCommitFacts ==
  ASSUME TraceAssumption, TraceInv, NEW c \in Sanitizers, T!SanitizeCommit(c)
  PROVE  \/ /\ T!Ends(c, [cmd[c] EXCEPT !.pc = "failed", !.failure = "refused"])
            /\ UNCHANGED <<rows, sanitized>>
         \/ /\ rows' = [id \in TraceIds |-> IF id \in T!Changed(c)
                                       THEN [rows[id] EXCEPT !.content = "safe"]
                                       ELSE rows[id]]
            /\ sanitized' = TRUE
            /\ T!Ends(c, [cmd[c] EXCEPT !.pc = "done",
                            !.matched = T!Cardinality(T!Changed(c)),
                            !.done = T!Cardinality(T!Changed(c))])
<1>1. \A id \in T!Changed(c) : T!Present(id)
  BY HeldIsPresent, CommandKinds DEF T!Changed
<1>2. {id \in T!Changed(c) : ~T!Present(id)} = {}
  BY <1>1
<1>3. CASE T!Sanitizes(c)
  BY <1>2, <1>3 DEF T!SanitizeCommit
<1>4. CASE ~T!Sanitizes(c)
  BY <1>4 DEF T!SanitizeCommit
<1> QED
  BY <1>3, <1>4

LEMMA SanitizeCommitSafe ==
  ASSUME TraceAssumption, TraceInv, NEW c \in Sanitizers, T!SanitizeCommit(c)
  PROVE  TraceInv'
<1>1. c \in T!Commands
  BY CommandKinds
<1>2. cmd[c].pc = "lock" /\ cmd[c].left = {} /\ UNCHANGED <<now, writer, writes>>
  BY DEF T!SanitizeCommit
<1>3. CASE /\ T!Ends(c, [cmd[c] EXCEPT !.pc = "failed", !.failure = "refused"])
           /\ UNCHANGED <<rows, sanitized>>
  BY <1>1, <1>2, <1>3, RolledBackSafe
<1>4. CASE /\ rows' = [id \in TraceIds |-> IF id \in T!Changed(c)
                                      THEN [rows[id] EXCEPT !.content = "safe"]
                                      ELSE rows[id]]
           /\ sanitized' = TRUE
           /\ T!Ends(c, [cmd[c] EXCEPT !.pc = "done",
                           !.matched = T!Cardinality(T!Changed(c)),
                           !.done = T!Cardinality(T!Changed(c))])
  <2> DEFINE count == T!Cardinality(T!Changed(c))
             with == [cmd[c] EXCEPT !.pc = "done", !.matched = count, !.done = count]
  <2>1. /\ T!Changed(c) \in SUBSET TraceIds /\ T!Changed(c) \subseteq cmd[c].held
        /\ cmd[c] \in CommandState
    BY <1>1 DEF TraceInv, TableInv, CommandState, T!Changed
  <2>2. count \in Nat
    BY <2>1, CountsAreNumbers
  <2>3. T!Ends(c, with)
    BY <1>4
  <2>4. /\ with \in CommandState /\ with.pc = "done" /\ with.late = cmd[c].late
        /\ with.matched = count
    <3> HIDE DEF count
    <3> QED
      BY <2>1, <2>2 DEF CommandState
  <2>5. ASSUME NEW id \in TraceIds
        PROVE  /\ rows'[id] \in {T!NoRow} \cup StoredRow
               /\ id \notin cmd[c].held => rows'[id] = rows[id]
               /\ rows'[id] # T!NoRow => rows'[id].content = "safe"
    <3>1. CASE id \in T!Changed(c)
      <4>1. rows[id] \in StoredRow /\ id \in cmd[c].held
        BY <1>1, <2>1, <3>1, HeldIsPresent
      <4>2. rows'[id] = [rows[id] EXCEPT !.content = "safe"]
        BY <1>4, <3>1
      <4> QED
        BY <4>1, <4>2 DEF StoredRow, T!Contents
    <3>2. CASE id \notin T!Changed(c)
      <4>1. rows'[id] = rows[id]
        BY <1>4, <3>2
      <4>2. T!Present(id) => rows[id].content = "safe"
        BY <1>2, <3>2 DEF TraceInv, SanitizeInv, T!Changed
      <4> QED
        BY <4>1, <4>2 DEF TraceInv, TableInv, T!Present
    <3> QED
      BY <3>1, <3>2
  <2>6. rows' \in [TraceIds -> {T!NoRow} \cup StoredRow]
    <3>1. rows' = [id \in TraceIds |-> rows'[id]]
      BY <1>4
    <3> QED
      BY <2>5, <3>1
  <2>7. cmd[c].late => count = 0
    <3> SUFFICES ASSUME cmd[c].late PROVE T!Changed(c) = {}
      BY FS_EmptySet, SameCardinalityTrace
    <3>1. sanitized
      BY DEF TraceInv, SanitizeInv
    <3>2. \A id \in cmd[c].held : rows[id].content = "safe"
      BY <1>1, <3>1, HeldIsPresent DEF TraceInv, AllSafe
    <3> QED
      BY <3>2 DEF T!Changed
  <2> HIDE DEF with, count
  <2>8. sanitized' = TRUE /\ sanitized' \in BOOLEAN /\ (sanitized => sanitized')
    BY <1>4
  <2>9. \A id \in TraceIds \ cmd[c].held : rows'[id] = rows[id]
    BY <2>5
  <2>10. \A id \in TraceIds : rows'[id] # T!NoRow /\ rows'[id].content # "safe" =>
           ~sanitized' /\ rows'[id] = rows[id]
    BY <2>5
  <2> QED
    BY <1>1, <1>2, <2>3, <2>4, <2>6, <2>7, <2>8, <2>9, <2>10, EndsSafe
<1> QED
  BY <1>3, <1>4, SanitizeCommitFacts

\* The recorder writes redacted rows, and only where there is none, so never one that
\* somebody holds.
LEMMA RecorderInsertSafe ==
  ASSUME TraceAssumption, TraceInv, NEW id \in TraceIds, T!Insert(id)
  PROVE  TraceInv'
<1>1. /\ UNCHANGED <<locks, cmd, now, sanitized>>
      /\ writes < MaxWrites /\ writes' = writes + 1
  BY DEF T!Insert
<1>2. writes' \in 0 .. MaxWrites /\ StoredRow' = StoredRow
  BY <1>1 DEF TraceInv, TableInv, TraceAssumption, T!DaysAssumption, StoredRow
<1>3. CASE T!Present(id)
  <2>1. UNCHANGED rows /\ writer'.result = "none"
    BY <1>3 DEF T!Insert
  <2>2. TableInv'
    BY <1>1, <1>2, <2>1 DEF TraceInv, TableInv
  <2>3. LockInv' /\ PruneInv' /\ SanitizeInv' /\ AllSafe'
    BY <1>1, <2>1 DEF TraceInv, LockInv, PruneInv, SanitizeInv, AllSafe, T!Present
  <2> QED
    BY <2>2, <2>3 DEF TraceInv
<1>4. CASE ~T!Present(id)
  <2> DEFINE new == [created |-> now, content |-> T!Persisted]
  <2>1. rows' = [rows EXCEPT ![id] = new] /\ writer'.result = "stored"
    BY <1>4 DEF T!Insert, T!NoWrite
  <2>2. new \in StoredRow /\ new.content = "safe" /\ new # T!NoRow
    <3>1. now \in 0 .. now
      BY DEF TraceInv, TableInv, TraceAssumption, T!DaysAssumption
    <3> QED
      BY <3>1 DEF StoredRow, T!Persisted, T!Contents, T!NoRow
  <2> HIDE DEF new
  <2>3. \A i \in TraceIds : rows'[i] = IF i = id THEN new ELSE rows[i]
    BY <2>1 DEF TraceInv, TableInv
  <2>4. TableInv'
    <3>1. rows' \in [TraceIds -> {T!NoRow} \cup StoredRow]
      BY <2>1, <2>2 DEF TraceInv, TableInv
    <3> QED
      BY <1>1, <1>2, <2>1, <3>1 DEF TraceInv, TableInv
  <2>5. ASSUME NEW c \in T!Commands PROVE id \notin cmd[c].held
    BY <1>4, HeldIsPresent
  <2>6. LockInv'
    BY <1>1, <2>2, <2>3 DEF TraceInv, LockInv, T!Present
  <2>7. PruneInv'
    <3> SUFFICES ASSUME NEW c \in Pruners, NEW i \in cmd[c].held
                 PROVE  rows'[i].created < cmd[c].cutoff
      BY <1>1 DEF TraceInv, PruneInv
    <3>1. i # id /\ i \in TraceIds
      BY <2>5, HeldIsPresent, CommandKinds
    <3> QED
      BY <2>3, <3>1 DEF TraceInv, PruneInv
  <2>8. SanitizeInv'
    BY <1>1, <2>2, <2>3 DEF TraceInv, SanitizeInv, T!Present
  <2>9. AllSafe'
    BY <1>1, <2>2, <2>3 DEF TraceInv, AllSafe, T!Present
  <2> QED
    BY <2>4, <2>6, <2>7, <2>8, <2>9 DEF TraceInv
<1> QED
  BY <1>3, <1>4

LEMMA CompareSafe ==
  ASSUME TraceAssumption, TraceInv, T!Compare
  PROVE  TraceInv'
<1>1. UNCHANGED <<rows, locks, cmd, now, writes, sanitized>>
  BY DEF T!Compare
<1>2. writer'.result \in {"replayed", "conflict", "dropped"}
  BY DEF T!Compare, T!NoWrite
<1>3. TableInv'
  BY <1>1, <1>2 DEF TraceInv, TableInv, StoredRow
<1>4. LockInv' /\ PruneInv' /\ SanitizeInv' /\ AllSafe'
  BY <1>1 DEF TraceInv, LockInv, PruneInv, SanitizeInv, AllSafe, T!Present
<1> QED
  BY <1>3, <1>4 DEF TraceInv

LEMMA DayPassesSafe ==
  ASSUME TraceAssumption, TraceInv, T!DayPasses
  PROVE  TraceInv'
<1>1. UNCHANGED <<rows, locks, cmd, writer, writes, sanitized>>
  BY DEF T!DayPasses
<1>2. now \in Int /\ now' = now + 1 /\ now' \in MaxDays .. LastDay
  BY DEF T!DayPasses, TraceInv, TableInv, TraceAssumption, T!DaysAssumption
<1>3. \A row \in StoredRow : row \in StoredRow'
  <2>1. \A day \in 0 .. now : day \in 0 .. now'
    BY <1>2
  <2> QED
    BY <2>1 DEF StoredRow
<1>4. TableInv'
  <2>1. rows' \in [TraceIds -> {T!NoRow} \cup StoredRow']
    BY <1>1, <1>3 DEF TraceInv, TableInv
  <2> QED
    BY <1>1, <1>2, <2>1 DEF TraceInv, TableInv
<1>5. LockInv' /\ SanitizeInv' /\ AllSafe'
  BY <1>1 DEF TraceInv, LockInv, SanitizeInv, AllSafe, T!Present
<1>6. PruneInv'
  <2> SUFFICES ASSUME NEW c \in Pruners, cmd[c].cutoff + 1 <= now
               PROVE  cmd[c].cutoff + 1 <= now'
    BY <1>1 DEF TraceInv, PruneInv
  <2>1. cmd[c].cutoff \in Int
    BY CommandKinds DEF TraceInv, TableInv, CommandState
  <2> QED
    BY <1>2, <2>1
<1> QED
  BY <1>4, <1>5, <1>6 DEF TraceInv

LEMMA TraceUnchanged ==
  ASSUME TraceInv, UNCHANGED T!vars
  PROVE  TraceInv'
<1>1. UNCHANGED <<rows, locks, cmd, now, writer, writes, sanitized>>
  BY DEF T!vars
<1>2. TableInv'
  BY <1>1 DEF TraceInv, TableInv, StoredRow
<1>3. LockInv' /\ PruneInv' /\ SanitizeInv' /\ AllSafe'
  BY <1>1 DEF TraceInv, LockInv, PruneInv, SanitizeInv, AllSafe, T!Present
<1> QED
  BY <1>2, <1>3 DEF TraceInv

LEMMA TraceInvariant ==
  ASSUME TraceAssumption
  PROVE  T!Spec => []TraceInv
<1>1. T!Init => TraceInv
  BY TraceInitial
<1>2. TraceInv /\ [T!Next]_T!vars => TraceInv'
  <2> SUFFICES ASSUME TraceInv, [T!Next]_T!vars PROVE TraceInv'
    OBVIOUS
  <2>1. ASSUME NEW c \in Pruners,
               T!PruneBegin(c) \/ T!PruneCount(c) \/ T!PruneDelete(c) \/ T!PruneLock(c)
                 \/ T!PruneCommit(c)
        PROVE  TraceInv'
    BY <2>1, PruneBeginSafe, PruneCountSafe, PruneDeleteSafe, PruneLockSafe, PruneCommitSafe
  <2>2. ASSUME NEW c \in Sanitizers,
               T!SanitizeDryRun(c) \/ T!SanitizeRead(c) \/ T!SanitizeLock(c)
                 \/ T!SanitizeCommit(c)
        PROVE  TraceInv'
    BY <2>2, SanitizeDryRunSafe, SanitizeReadSafe, SanitizeLockSafe, SanitizeCommitSafe
  <2>3. ASSUME NEW c \in T!Commands, T!Refuse(c) \/ T!Fail(c)
        PROVE  TraceInv'
    BY <2>3, RefuseSafe, FailSafe
  <2>4. ASSUME NEW id \in TraceIds, T!Insert(id)
        PROVE  TraceInv'
    BY <2>4, RecorderInsertSafe
  <2> QED
    BY <2>1, <2>2, <2>3, <2>4, CompareSafe, DayPassesSafe, TraceUnchanged DEF T!Next
<1> QED
  BY <1>1, <1>2, PTL DEF T!Spec

\* The component on its own.
LEMMA SanitizerPart ==
  ASSUME TraceAssumption
  PROVE  T!Spec => []T!SanitizerSound
<1>1. TraceInv => T!SanitizerSound
  <2> SUFFICES ASSUME TraceInv PROVE T!SanitizerSound
    OBVIOUS
  <2>1. T!TypeOK
    <3>1. \A c \in T!Commands : cmd[c].failure \in {"none", "refused", "changed", "database"}
      BY DEF TraceInv, TableInv, CommandState
    <3> QED
      BY <3>1 DEF TraceInv, TableInv, LockInv, StoredRow, T!TypeOK
  <2>2. T!SanitizedForGood
    BY DEF TraceInv, AllSafe, SanitizeInv, T!SanitizedForGood
  <2>3. T!UpdatesFindTheirRow
    BY CommandKinds DEF TraceInv, TableInv, CommandState, T!UpdatesFindTheirRow
  <2>4. T!FoundByRun
    BY DEF T!FoundByRun, T!list_for_run, T!RunColumn, T!lookup_candidates
  <2> QED
    BY <2>1, <2>2, <2>3, <2>4 DEF T!SanitizerSound
<1> QED
  BY <1>1, TraceInvariant, PTL

\* Whatever commands, retention and rows there are: once a sanitizer has committed no
\* row is left as it was or comes back, a later run finds nothing to change, no UPDATE
\* misses its row, and a run is found by its raw identifier throughout.
THEOREM SanitizerAlwaysSound ==
  ASSUME TraceAssumption
  PROVE  Spec => []SanitizerSound
<1> DEFINE followed == part = "traces"
<1>1. Init => (followed => T!Init)
  BY DEF Init
<1>2. [Next]_vars => (followed' <=> followed) /\ (followed => [T!Next]_T!vars)
  BY PartsApart
<1>3. (followed => T!SanitizerSound) => SanitizerSound
  BY DEF SanitizerSound
<1>4. T!Spec => []T!SanitizerSound
  BY SanitizerPart
<1> HIDE DEF followed
<1> QED
  BY <1>1, <1>2, <1>3, <1>4, PTL DEF Spec, T!Spec

\* A row is removed by the commit of a pruner that holds it, and by nothing else.
LEMMA RemovedByPruner ==
  ASSUME TraceAssumption, TraceInv, [T!Next]_T!vars, NEW id \in TraceIds,
         T!Present(id), ~T!Present(id)'
  PROVE  \E c \in Pruners : T!PruneCommit(c) /\ id \in cmd[c].held
<1>1. rows'[id] # rows[id]
  BY DEF T!Present
<1>2. ASSUME NEW c \in Pruners, T!PruneCommit(c)
      PROVE  id \in cmd[c].held
  BY <1>1, <1>2 DEF T!PruneCommit
<1>3. ASSUME NEW c \in Sanitizers, T!SanitizeCommit(c)
      PROVE  FALSE
  <2>1. CASE UNCHANGED rows
    BY <1>1, <2>1
  <2>2. CASE rows' = [i \in TraceIds |-> IF i \in T!Changed(c)
                                    THEN [rows[i] EXCEPT !.content = "safe"]
                                    ELSE rows[i]]
    <3>1. rows'[id] = [rows[id] EXCEPT !.content = "safe"]
      BY <1>1, <2>2
    <3>2. rows[id] \in StoredRow
      BY DEF TraceInv, TableInv, T!Present
    <3>3. rows'[id].content = "safe"
      BY <3>1, <3>2 DEF StoredRow
    <3> QED
      BY <3>3 DEF T!Present, T!NoRow
  <2> QED
    BY <1>3, <2>1, <2>2, SanitizeCommitFacts
<1>4. ASSUME NEW i \in TraceIds, T!Insert(i)
      PROVE  FALSE
  BY <1>1, <1>4 DEF T!Insert, T!Present, TraceInv, TableInv
<1>5. CASE UNCHANGED rows
  BY <1>1, <1>5
<1> QED
  BY <1>2, <1>3, <1>4, <1>5
     DEF T!Next, T!vars, T!PruneBegin, T!PruneCount, T!PruneDelete, T!PruneLock,
         T!SanitizeDryRun, T!SanitizeRead, T!SanitizeLock, T!Refuse, T!Fail, T!Compare,
         T!DayPasses

\* A command that was locking rows is done when it commits, and not otherwise.
LEMMA DoneByCommit ==
  ASSUME TraceAssumption, TraceInv, [T!Next]_T!vars, NEW c \in T!Commands,
         cmd[c].pc = "lock", cmd'[c].pc = "done"
  PROVE  \/ c \in Pruners /\ T!PruneCommit(c)
         \/ c \in Sanitizers /\ T!SanitizeCommit(c)
<1>1. cmd[c] \in CommandState /\ cmd \in [T!Commands -> CommandState]
  BY DEF TraceInv, TableInv
<1>2. ASSUME NEW d \in T!Commands, cmd[d].pc # "lock", NEW new, cmd' = [cmd EXCEPT ![d] = new]
      PROVE  FALSE
  BY <1>1, <1>2
<1>3. ASSUME NEW d \in T!Commands, NEW target, T!Take(d, target)
      PROVE  FALSE
  <2>1. cmd'[c].pc = cmd[c].pc
    BY <1>1, <1>3 DEF T!Take, CommandState
  <2> QED
    BY <2>1
<1>4. ASSUME NEW d \in T!Commands, NEW with, T!Ends(d, with), d # c
      PROVE  FALSE
  BY <1>1, <1>4 DEF T!Ends
<1>5. ASSUME T!Fail(c)
      PROVE  FALSE
  <2> DEFINE with == [cmd[c] EXCEPT !.pc = "failed", !.failure = "database"]
             new == [with EXCEPT !.left = {}, !.held = {}, !.cutoff = 0]
  <2>1. with \in CommandState /\ with.pc = "failed"
    BY <1>1 DEF CommandState
  <2>2. cmd' = [cmd EXCEPT ![c] = new]
    BY <1>5 DEF T!Fail, T!Ends
  <2> HIDE DEF with
  <2>3. new.pc = "failed"
    BY <2>1, EndedIsCommand
  <2> HIDE DEF new
  <2> QED
    BY <1>1, <2>2, <2>3
<1>6. CASE UNCHANGED cmd
  BY <1>6
<1>7. ASSUME NEW d \in Pruners,
             T!PruneBegin(d) \/ T!PruneCount(d) \/ T!PruneDelete(d) \/ T!PruneLock(d)
               \/ T!PruneCommit(d)
      PROVE  c \in Pruners /\ T!PruneCommit(c)
  <2>0. d \in T!Commands
    BY CommandKinds
  <2>1. CASE T!PruneBegin(d)
    BY <1>2, <2>0, <2>1 DEF T!PruneBegin
  <2>2. CASE T!PruneCount(d)
    <3>1. cmd[d].pc = "count" /\ \E new : cmd' = [cmd EXCEPT ![d] = new]
      BY <2>2 DEF T!PruneCount
    <3> QED
      BY <1>2, <2>0, <3>1
  <2>3. CASE T!PruneDelete(d)
    <3>1. cmd[d].pc = "delete" /\ \E new : cmd' = [cmd EXCEPT ![d] = new]
      BY <2>3 DEF T!PruneDelete
    <3> QED
      BY <1>2, <2>0, <3>1
  <2>4. CASE T!PruneLock(d)
    BY <1>3, <2>0, <2>4 DEF T!PruneLock
  <2>5. CASE T!PruneCommit(d)
    BY <1>4, <2>0, <2>5 DEF T!PruneCommit
  <2> QED
    BY <1>7, <2>1, <2>2, <2>3, <2>4, <2>5
<1>8. ASSUME NEW d \in Sanitizers,
             T!SanitizeDryRun(d) \/ T!SanitizeRead(d) \/ T!SanitizeLock(d)
               \/ T!SanitizeCommit(d)
      PROVE  c \in Sanitizers /\ T!SanitizeCommit(c)
  <2>0. d \in T!Commands
    BY CommandKinds
  <2>1. CASE T!SanitizeDryRun(d)
    <3>1. cmd[d].pc = "idle" /\ \E new : cmd' = [cmd EXCEPT ![d] = new]
      BY <2>1 DEF T!SanitizeDryRun, T!MayStart
    <3> QED
      BY <1>2, <2>0, <3>1
  <2>2. CASE T!SanitizeRead(d)
    <3>1. cmd[d].pc = "idle" /\ \E new : cmd' = [cmd EXCEPT ![d] = new]
      BY <2>2 DEF T!SanitizeRead, T!MayStart
    <3> QED
      BY <1>2, <2>0, <3>1
  <2>3. CASE T!SanitizeLock(d)
    BY <1>3, <2>0, <2>3 DEF T!SanitizeLock, T!NextRow
  <2>4. CASE T!SanitizeCommit(d)
    BY <1>4, <2>0, <2>4, SanitizeCommitFacts
  <2> QED
    BY <1>8, <2>1, <2>2, <2>3, <2>4
<1>9. ASSUME NEW d \in T!Commands, T!Refuse(d) \/ T!Fail(d)
      PROVE  FALSE
  <2>1. CASE T!Refuse(d)
    <3>1. cmd[d].pc = "idle" /\ \E new : cmd' = [cmd EXCEPT ![d] = new]
      BY <2>1 DEF T!Refuse
    <3> QED
      BY <1>2, <3>1
  <2>2. CASE T!Fail(d)
    BY <1>4, <1>5, <2>2 DEF T!Fail
  <2> QED
    BY <1>9, <2>1, <2>2
<1> QED
  BY <1>6, <1>7, <1>8, <1>9 DEF T!Next, T!vars, T!Insert, T!Compare, T!DayPasses

\* A pruner deletes what it holds, all of it, and reports that many rows.
LEMMA PruneReport ==
  ASSUME TraceAssumption, TraceInv, NEW c \in Pruners, T!PruneCommit(c)
  PROVE  cmd'[c].done = T!Cardinality({id \in TraceIds : rows'[id] # rows[id]})
<1> DEFINE with == [cmd[c] EXCEPT !.pc = "done", !.done = T!Deleted(c)]
           new == [with EXCEPT !.left = {}, !.held = {}, !.cutoff = 0]
<1>1. c \in T!Commands
  BY CommandKinds
<1>2. cmd[c] \in CommandState /\ T!Deleted(c) \in Nat
  <2>1. cmd[c] \in CommandState /\ cmd[c].held \in SUBSET TraceIds
    BY <1>1 DEF TraceInv, TableInv, CommandState
  <2> QED
    BY <2>1, CountsAreNumbers DEF T!Deleted
<1>3. with \in CommandState /\ with.done = T!Deleted(c)
  BY <1>2 DEF CommandState
<1>4. cmd' = [cmd EXCEPT ![c] = new]
  BY DEF T!PruneCommit, T!Ends
<1> HIDE DEF with
<1>5. new.done = T!Deleted(c)
  BY <1>3, EndedIsCommand
<1> HIDE DEF new
<1>6. cmd'[c].done = T!Cardinality(cmd[c].held)
  BY <1>1, <1>4, <1>5 DEF TraceInv, TableInv, T!Deleted
<1>7. {id \in TraceIds : rows'[id] # rows[id]} = cmd[c].held
  <2>1. \A id \in cmd[c].held : id \in TraceIds /\ rows[id] # T!NoRow
    BY <1>1, HeldIsPresent DEF T!Present
  <2>2. \A id \in TraceIds : rows'[id] = IF id \in cmd[c].held THEN T!NoRow ELSE rows[id]
    BY DEF T!PruneCommit
  <2> QED
    BY <2>1, <2>2
<1> QED
  BY <1>6, <1>7

\* A sanitizer reports the rows it rewrote.
LEMMA SanitizeReport ==
  ASSUME TraceAssumption, TraceInv, NEW c \in Sanitizers, T!SanitizeCommit(c),
         cmd'[c].pc = "done"
  PROVE  cmd'[c].done = T!Cardinality({id \in TraceIds : rows'[id] # rows[id]})
<1>1. c \in T!Commands
  BY CommandKinds
<1>2. cmd[c] \in CommandState /\ T!Changed(c) \in SUBSET TraceIds
  BY <1>1 DEF TraceInv, TableInv, CommandState, T!Changed
<1> DEFINE count == T!Cardinality(T!Changed(c))
<1>3. count \in Nat
  BY <1>2, CountsAreNumbers
<1>4. ASSUME NEW with \in CommandState, T!Ends(c, with)
      PROVE  cmd'[c].pc = with.pc /\ cmd'[c].done = with.done
  <2> DEFINE new == [with EXCEPT !.left = {}, !.held = {}, !.cutoff = 0]
  <2>1. new.pc = with.pc /\ new.done = with.done
    BY EndedIsCommand
  <2>2. cmd' = [cmd EXCEPT ![c] = new]
    BY <1>4 DEF T!Ends
  <2> HIDE DEF new
  <2> QED
    BY <1>1, <2>1, <2>2 DEF TraceInv, TableInv
<1>5. CASE T!Ends(c, [cmd[c] EXCEPT !.pc = "failed", !.failure = "refused"])
  <2> DEFINE with == [cmd[c] EXCEPT !.pc = "failed", !.failure = "refused"]
  <2>1. with \in CommandState /\ with.pc = "failed" /\ T!Ends(c, with)
    BY <1>2, <1>5 DEF CommandState
  <2> HIDE DEF with
  <2> QED
    BY <1>4, <2>1
<1>6. CASE /\ rows' = [id \in TraceIds |-> IF id \in T!Changed(c)
                                      THEN [rows[id] EXCEPT !.content = "safe"]
                                      ELSE rows[id]]
           /\ T!Ends(c, [cmd[c] EXCEPT !.pc = "done", !.matched = count, !.done = count])
  <2> DEFINE with == [cmd[c] EXCEPT !.pc = "done", !.matched = count, !.done = count]
  <2>1. with \in CommandState /\ with.done = count /\ T!Ends(c, with)
    <3>1. T!Ends(c, with)
      BY <1>6
    <3> HIDE DEF count
    <3>2. with \in CommandState /\ with.done = count
      BY <1>2, <1>3 DEF CommandState
    <3> QED
      BY <3>1, <3>2
  <2> HIDE DEF with
  <2>2. cmd'[c].done = count
    BY <1>4, <2>1
  <2>3. ASSUME NEW id \in T!Changed(c)
        PROVE  rows'[id] # rows[id]
    <3>1. id \in TraceIds /\ rows[id] \in StoredRow /\ rows[id].content # "safe"
      BY <1>1, HeldIsPresent DEF T!Changed
    <3>2. rows'[id].content = "safe"
      BY <1>6, <3>1 DEF StoredRow
    <3> QED
      BY <3>1, <3>2
  <2>4. {id \in TraceIds : rows'[id] # rows[id]} = T!Changed(c)
    BY <1>2, <1>6, <2>3
  <2> QED
    BY <2>2, <2>4
<1> QED
  BY <1>5, <1>6, SanitizeCommitFacts

\* The component on its own.
LEMMA CommandsPart ==
  ASSUME TraceAssumption
  PROVE  T!Spec => [][T!YoungRowsStay /\ T!ReportsMatchEffects]_T!vars
<1>1. ASSUME TraceInv, [T!Next]_T!vars
      PROVE  T!YoungRowsStay /\ T!ReportsMatchEffects
  <2>1. T!YoungRowsStay
    <3> SUFFICES ASSUME NEW id \in TraceIds, T!Present(id), ~T!Present(id)'
                 PROVE  now - rows[id].created > 1
      BY DEF T!YoungRowsStay
    <3>1. PICK c \in Pruners : T!PruneCommit(c) /\ id \in cmd[c].held
      BY <1>1, RemovedByPruner
    <3>2. cmd[c].pc = "lock"
      BY <3>1 DEF T!PruneCommit
    <3>3. cmd[c].cutoff + 1 <= now /\ rows[id].created < cmd[c].cutoff
      BY <1>1, <3>1, <3>2 DEF TraceInv, PruneInv
    <3>4. cmd[c].cutoff \in Int /\ rows[id].created \in Int /\ now \in Int
      BY <1>1, CommandKinds DEF TraceInv, TableInv, CommandState, StoredRow, T!Present,
         TraceAssumption, T!DaysAssumption
    <3> QED
      BY <3>3, <3>4
  <2>2. T!ReportsMatchEffects
    BY <1>1, DoneByCommit, PruneReport, SanitizeReport DEF T!ReportsMatchEffects
  <2> QED
    BY <2>1, <2>2
<1>2. TraceInv /\ [T!Next]_T!vars
        => [T!YoungRowsStay /\ T!ReportsMatchEffects]_T!vars
  BY <1>1
<1> QED
  BY <1>2, TraceInvariant, PTL DEF T!Spec

\* For every retention and every interleaving with the recorder and with other
\* commands: no step removes a row less than a whole day old, and the number a command
\* reports when it commits is the number of rows that commit changed.
THEOREM CommandsAlwaysHonest ==
  ASSUME TraceAssumption
  PROVE  Spec => CommandsHonest
<1> DEFINE followed == part = "traces"
           honest == T!YoungRowsStay /\ T!ReportsMatchEffects
<1>1. Init => (followed => T!Init)
  BY DEF Init
<1>2. [Next]_vars => (followed' <=> followed) /\ (followed => [T!Next]_T!vars)
  BY PartsApart
<1>3. [Next]_vars /\ (followed => [honest]_T!vars) => [followed => honest]_vars
  <2> SUFFICES ASSUME [Next]_vars, followed, [honest]_T!vars, ~ UNCHANGED vars
               PROVE  honest
    OBVIOUS
  <2>1. ~ UNCHANGED T!vars
    BY DEF Next, vars, traceVars, sessionVars, grantVars, egressVars, eventVars, T!vars
  <2> QED
    BY <2>1
<1>4. T!Spec => [][honest]_T!vars
  BY CommandsPart
<1>5. [followed => honest]_vars
        <=> [part = "traces" => T!YoungRowsStay /\ T!ReportsMatchEffects]_vars
  OBVIOUS
<1> HIDE DEF followed, honest
<1> QED
  BY <1>1, <1>2, <1>3, <1>4, <1>5, PTL DEF Spec, T!Spec, CommandsHonest

-----------------------------------------------------------------------------
(* Metadata of trace events.                                               *)
(*                                                                         *)
(* Nothing unsafe is left by any turn of any frame, whatever it is given.  *)
(* That what is stored keeps its keys needs what a redaction finds under   *)
(* each key: one redaction leaves mild entries, a second stable ones, and  *)
(* a stable entry leaves exactly one, under its own key.  So the second    *)
(* redaction of a write adds no entry but the count of those left out, and *)
(* what it stores is met again, key by key, by every later one.  The call  *)
(* for reduced bytes is followed through its frame, because only its       *)
(* answer tells whether a binary key leaves one entry.                     *)

\* A sequence, whatever its items.
IsSeq(s) == Len(s) \in Nat /\ s = [i \in 1 .. Len(s) |-> s[i]]

\* Nothing unsafe at any depth.
SafeValue(v) == v.holds \cap {"free", "url", "bytes"} = {}
SafeItems(s) == IsSeq(s) /\ \A i \in DOMAIN s : SafeValue(s[i].value)

DistinctKeys(s) == \A i, j \in DOMAIN s : s[i].key = s[j].key => i = j

IsFrame(f) ==
  /\ f = [type |-> f.type, class |-> f.class, depth |-> f.depth, items |-> f.items,
          extra |-> f.extra, at |-> f.at, out |-> f.out]
  /\ f.at \in Nat \ {0}
  /\ SafeItems(f.out)

\* The outermost frame is the event's metadata; what it waits for is its call.
Outermost(f) ==
  /\ f.type = "map" /\ f.depth = 0
  /\ IsSeq(f.items) /\ Len(f.items) <= MaxItems /\ f.extra \in Nat
  /\ f.at <= Len(f.items) + 1
  /\ DistinctKeys(f.out)

FramesInv ==
  /\ IsSeq(work)
  /\ \A i \in DOMAIN work : IsFrame(work[i])
  /\ work # <<>> => Outermost(work[1])
  /\ Len(work) > 1 => P!More(work[1]) /\ P!Calls(work[1])

\* Redactions are under way in three stages only.
StagesInv ==
  /\ work # <<>> => life \in {"building", "writing", "reading"}
  /\ life = "building" => passes = 1
  /\ life \in {"writing", "reading"} => passes \in {1, 2}

SafeInv ==
  /\ IsSeq(field)
  /\ SafeItems(stored)
  /\ life = "read" => SafeItems(field)

\* The first entry is kept by every later redaction.
HeadKept(s) == s # <<>> => P!Kept(s[1].key)

WriteHead(f) ==
  /\ f.items # <<>> /\ HeadKept(f.items)
  /\ f.at > 1 => f.out # <<>>

HeadInv ==
  /\ work # <<>> => HeadKept(work[1].out)
  /\ work # <<>> /\ life = "writing" => WriteHead(work[1])
  /\ life = "built" => HeadKept(field)
  /\ life = "stored" => stored # <<>>

-----------------------------------------------------------------------------
\* What a redaction finds under a key, and what it leaves: after one redaction
\* every entry is mild, after another it is stable, and a stable entry is left
\* as it is or left out.
Hidden(v) == v.type \in {"redacted", "redacted_url"}

Plain(e) == e.key.class = "binary" /\ e.value.type = "map" => e.value = P!binary_metadata

Mild(e) ==
  /\ e.key.class = "metric" =>
       e.value.type = "number" \/ Hidden(e.value) \/ e.value = P!binary_metadata
  /\ e.key.class \in {"sensitive", "binary"} => Hidden(e.value) \/ e.value = P!binary_metadata

Stable(e) ==
  /\ e.key.class = "metric" => e.value.type = "number" \/ Hidden(e.value)
  /\ e.key.class = "sensitive" => Hidden(e.value)
  /\ e.key.class = "binary" => Hidden(e.value) \/ e.value = P!binary_metadata

AllPlain(s) == \A i \in DOMAIN s : Plain(s[i])
AllMild(s) == \A i \in DOMAIN s : Mild(s[i])
AllStable(s) == \A i \in DOMAIN s : Stable(s[i])
AllKept(s) == \A i \in DOMAIN s : P!Kept(s[i].key)

\* Metadata no redaction changes the keys of.
Settled(s) ==
  /\ IsSeq(s) /\ AllStable(s) /\ AllKept(s) /\ DistinctKeys(s)
  /\ \/ Len(s) <= MaxItems
     \/ Len(s) = MaxItems + 1 /\ s[Len(s)].key = P!TruncatedKey

SameKeys(s, t) == Len(s) = Len(t) /\ \A i \in 1 .. Len(s) : s[i].key = t[i].key

Building(f) == AllPlain(f.items) /\ AllMild(f.out)

FirstWrite(f) == AllMild(f.items) /\ AllStable(f.out)

SecondWrite(f) ==
  /\ AllStable(f.items) /\ AllStable(f.out) /\ AllKept(f.out)
  /\ Len(f.out) < f.at

\* Of s, which is settled.
Reading(f, s) ==
  /\ AllStable(f.items) /\ AllStable(f.out)
  /\ SameKeys(f.items, P!First(s))
  /\ f.extra = Len(s) - Len(P!First(s))
  /\ Len(f.out) = f.at - 1
  /\ \A i \in 1 .. Len(f.out) : f.out[i].key = s[i].key

\* Reduced bytes under a key for binary content come back as they are.
BinaryFrame(n, out) ==
  [type |-> "map", class |-> "binary", depth |-> 1, items |-> P!binary_metadata.items,
   extra |-> 0, at |-> n, out |-> out]
BinaryFrames ==
  {BinaryFrame(1, <<>>), BinaryFrame(2, <<P!KindEntry>>),
   BinaryFrame(3, <<P!KindEntry, P!SizeEntry(1)>>),
   BinaryFrame(4, <<P!KindEntry, P!SizeEntry(1), P!HashEntry>>)}

BinaryInv ==
  Len(work) > 1 /\ P!Current(work[1]).key.class = "binary" =>
    Len(work) = 2 /\ work[2] \in BinaryFrames

GradeInv ==
  /\ work # <<>> =>
       /\ life = "building" => Building(work[1])
       /\ life = "writing" /\ passes = 2 => FirstWrite(work[1])
       /\ life = "writing" /\ passes = 1 => SecondWrite(work[1])
       /\ life = "reading" => Reading(work[1], stored)
  /\ life = "built" => AllMild(field)
  /\ life \in {"stored", "reading", "read"} => Settled(stored)
  /\ life = "read" => SameKeys(field, stored)

PrivacyInv ==
  /\ raw \in RawMappings
  /\ FramesInv
  /\ StagesInv
  /\ SafeInv
  /\ ~changed => HeadInv
  /\ ~changed /\ P!PlainBinary(raw) => GradeInv /\ BinaryInv

-----------------------------------------------------------------------------
\* Sequences and the operators on them.

LEMMA SeqIsSeq == ASSUME NEW S, NEW s \in Seq(S) PROVE IsSeq(s)
BY DEF IsSeq

LEMMA EmptyIsSeq == IsSeq(<<>>) /\ Len(<<>>) = 0 /\ DOMAIN <<>> = {}
BY DEF IsSeq

LEMMA SeqFacts ==
  ASSUME NEW s, IsSeq(s)
  PROVE  /\ s \in Seq({s[i] : i \in 1 .. Len(s)})
         /\ DOMAIN s = 1 .. Len(s)
         /\ Len(s) \in Nat
         /\ s = <<>> <=> Len(s) = 0
<1> DEFINE R == {s[i] : i \in 1 .. Len(s)}
<1>1. s \in Seq(R) BY DEF IsSeq
<1> HIDE DEF R
<1>2. DOMAIN s = 1 .. Len(s) /\ Len(s) \in Nat BY <1>1
<1>3. s = <<>> <=> Len(s) = 0 BY <1>1
<1> QED BY <1>1, <1>2, <1>3 DEF R

LEMMA AppendFacts ==
  ASSUME NEW s, IsSeq(s), NEW e
  PROVE  /\ IsSeq(Append(s, e))
         /\ Len(Append(s, e)) = Len(s) + 1
         /\ \A i \in 1 .. Len(s) : Append(s, e)[i] = s[i]
         /\ Append(s, e)[Len(s) + 1] = e
<1> DEFINE R == {s[i] : i \in 1 .. Len(s)} \cup {e}
<1>1. s \in Seq(R) BY DEF IsSeq
<1>2. e \in R OBVIOUS
<1> HIDE DEF R
<1>3. Append(s, e) \in Seq(R) /\ Len(Append(s, e)) = Len(s) + 1 BY <1>1, <1>2
<1>4. IsSeq(Append(s, e)) BY <1>3, SeqIsSeq
<1> QED BY <1>1, <1>2, <1>3, <1>4

LEMMA FirstFacts ==
  ASSUME MaxItems \in Nat, NEW s, IsSeq(s)
  PROVE  /\ IsSeq(P!First(s))
         /\ Len(P!First(s)) <= MaxItems
         /\ Len(P!First(s)) <= Len(s)
         /\ Len(s) <= MaxItems => P!First(s) = s
         /\ Len(s) > MaxItems => Len(P!First(s)) = MaxItems
         /\ \A i \in 1 .. Len(P!First(s)) : P!First(s)[i] = s[i]
<1> DEFINE R == {s[i] : i \in 1 .. Len(s)}
<1>1. s \in Seq(R) /\ Len(s) \in Nat BY SeqFacts
<1> HIDE DEF R
<1>2. CASE Len(s) > MaxItems
  <2>1. P!First(s) = SubSeq(s, 1, MaxItems) BY <1>2 DEF P!First
  <2>2. SubSeq(s, 1, MaxItems) \in Seq(R) BY <1>1, <1>2
  <2>3. Len(SubSeq(s, 1, MaxItems)) = MaxItems BY <1>1, <1>2
  <2>4. \A i \in 1 .. MaxItems : SubSeq(s, 1, MaxItems)[i] = s[i] BY <1>1, <1>2
  <2>5. IsSeq(SubSeq(s, 1, MaxItems)) BY <2>2, SeqIsSeq
  <2> QED BY <1>1, <1>2, <2>1, <2>3, <2>4, <2>5
<1>3. CASE ~(Len(s) > MaxItems)
  <2>1. P!First(s) = s BY <1>3 DEF P!First
  <2> QED BY <1>1, <1>3, <2>1
<1> QED BY <1>2, <1>3

LEMMA PutFacts ==
  ASSUME NEW s, IsSeq(s), NEW k, NEW v
  PROVE  /\ IsSeq(P!Put(s, k, v))
         /\ Len(P!Put(s, k, v)) >= 1
         /\ Len(s) <= Len(P!Put(s, k, v))
         /\ Len(P!Put(s, k, v)) <= Len(s) + 1
         /\ \A i \in 1 .. Len(s) : P!Put(s, k, v)[i].key = s[i].key
         /\ Len(P!Put(s, k, v)) > Len(s) => P!Put(s, k, v)[Len(s) + 1].key = k
         /\ \A i \in DOMAIN P!Put(s, k, v) :
              \/ P!Put(s, k, v)[i] = P!Entry(k, v)
              \/ i \in DOMAIN s /\ P!Put(s, k, v)[i] = s[i]
         /\ DistinctKeys(s) => DistinctKeys(P!Put(s, k, v))
         /\ (\A i \in DOMAIN s : s[i].key # k) => Len(P!Put(s, k, v)) = Len(s) + 1
<1> DEFINE R == {s[i] : i \in 1 .. Len(s)} \cup {P!Entry(k, v)}
           p == P!Put(s, k, v)
<1>0. SUFFICES /\ IsSeq(p)
               /\ Len(p) >= 1
               /\ Len(s) <= Len(p)
               /\ Len(p) <= Len(s) + 1
               /\ \A i \in 1 .. Len(s) : p[i].key = s[i].key
               /\ Len(p) > Len(s) => p[Len(s) + 1].key = k
               /\ \A i \in DOMAIN p : p[i] = P!Entry(k, v) \/ (i \in DOMAIN s /\ p[i] = s[i])
               /\ DistinctKeys(s) => DistinctKeys(p)
               /\ (\A i \in DOMAIN s : s[i].key # k) => Len(p) = Len(s) + 1
  OBVIOUS
<1>1. s \in Seq(R) /\ DOMAIN s = 1 .. Len(s) /\ Len(s) \in Nat BY DEF IsSeq
<1>2. P!Entry(k, v) \in R OBVIOUS
<1>3. P!Entry(k, v).key = k BY DEF P!Entry
<1> HIDE DEF R, p
<1>4. CASE \E i \in DOMAIN s : s[i].key = k
  <2>1. p = [i \in DOMAIN s |-> IF s[i].key = k THEN P!Entry(k, v) ELSE s[i]]
    BY <1>4 DEF P!Put, p
  <2>2. p \in Seq(R) /\ Len(p) = Len(s)
    BY <1>1, <1>2, <2>1
  <2>3. IsSeq(p) /\ DOMAIN p = 1 .. Len(s) BY <2>2, SeqIsSeq
  <2>4. \A i \in 1 .. Len(s) : p[i].key = s[i].key BY <1>1, <1>3, <2>1
  <2>5. \A i \in DOMAIN p : p[i] = P!Entry(k, v) \/ (i \in DOMAIN s /\ p[i] = s[i])
    BY <1>1, <2>1
  <2>6. DistinctKeys(s) => DistinctKeys(p) BY <1>1, <2>3, <2>4 DEF DistinctKeys
  <2>7. Len(s) >= 1 BY <1>1, <1>4
  <2>8. ~(\A i \in DOMAIN s : s[i].key # k) BY <1>4
  <2>9. Len(p) >= 1 /\ Len(s) <= Len(p) /\ Len(p) <= Len(s) + 1 /\ ~(Len(p) > Len(s))
    BY <1>1, <2>2, <2>7
  <2> QED BY <2>3, <2>4, <2>5, <2>6, <2>8, <2>9
<1>5. CASE ~\E i \in DOMAIN s : s[i].key = k
  <2>1. p = Append(s, P!Entry(k, v))
    BY <1>5 DEF P!Put, p
  <2>2. /\ IsSeq(p) /\ Len(p) = Len(s) + 1
        /\ \A i \in 1 .. Len(s) : p[i] = s[i]
        /\ p[Len(s) + 1] = P!Entry(k, v)
    BY <2>1, AppendFacts
  <2>3. DOMAIN p = 1 .. Len(s) + 1 BY <2>2, SeqFacts
  <2>4. DistinctKeys(s) => DistinctKeys(p)
    BY <1>1, <1>3, <1>5, <2>2, <2>3 DEF DistinctKeys
  <2> QED BY <1>1, <1>3, <2>2, <2>3, <2>4
<1> QED BY <1>4, <1>5

-----------------------------------------------------------------------------
\* What every redaction leaves is safe.

LEMMA SafeLeaves ==
  /\ \A n : SafeValue(P!Number(n))
  /\ SafeValue(P!Redacted) /\ SafeValue(P!Digest) /\ SafeValue(P!Word)
  /\ \A n : \A type \in {"word", "digest", "redacted", "redacted_url"} :
       SafeValue(P!Leaf(type, n))
BY DEF SafeValue, P!Number, P!Redacted, P!Digest, P!Word, P!Leaf

LEMMA SafeCollections ==
  ASSUME NEW s, \A i \in DOMAIN s : SafeValue(s[i].value)
  PROVE  /\ P!Holds(s) \cap {"free", "url", "bytes"} = {}
         /\ SafeValue(P!Mapping(s))
         /\ SafeValue(P!List(s))
<1>1. P!Holds(s) \cap {"free", "url", "bytes"} = {}
  BY DEF SafeValue, P!Holds
<1>2. P!Mapping(s).holds = P!Holds(s) /\ P!List(s).holds = P!Holds(s)
  BY DEF P!Mapping, P!List
<1> QED BY <1>1, <1>2 DEF SafeValue

LEMMA EntryFields ==
  \A k, v : P!Entry(k, v).key = k /\ P!Entry(k, v).value = v
BY DEF P!Entry

LEMMA ItemField == \A v : P!Item(v).value = v
BY DEF P!Item, P!Entry

LEMMA BinaryMetadataItems ==
  /\ P!binary_metadata.items = <<P!KindEntry, P!SizeEntry(1), P!HashEntry>>
  /\ P!binary_metadata.type = "map"
  /\ IsSeq(P!binary_metadata.items)
  /\ Len(P!binary_metadata.items) = 3
  /\ P!binary_metadata.items[1] = P!KindEntry
  /\ P!binary_metadata.items[2] = P!SizeEntry(1)
  /\ P!binary_metadata.items[3] = P!HashEntry
<1>1. P!binary_metadata.items = <<P!KindEntry, P!SizeEntry(1), P!HashEntry>>
      /\ P!binary_metadata.type = "map"
  BY DEF P!binary_metadata, P!Mapping
<1>2. <<P!KindEntry, P!SizeEntry(1), P!HashEntry>>
        \in Seq({P!KindEntry, P!SizeEntry(1), P!HashEntry})
  OBVIOUS
<1>3. IsSeq(<<P!KindEntry, P!SizeEntry(1), P!HashEntry>>) BY <1>2, SeqIsSeq
<1>4. Len(<<P!KindEntry, P!SizeEntry(1), P!HashEntry>>) = 3 OBVIOUS
<1> QED BY <1>1, <1>3, <1>4

LEMMA SafeBinary == SafeValue(P!binary_metadata)
<1>1. \A i \in DOMAIN P!binary_metadata.items : SafeValue(P!binary_metadata.items[i].value)
  <2>1. /\ SafeValue(P!KindEntry.value)
        /\ SafeValue(P!SizeEntry(1).value)
        /\ SafeValue(P!HashEntry.value)
    BY SafeLeaves, EntryFields DEF P!KindEntry, P!SizeEntry, P!HashEntry
  <2>2. DOMAIN P!binary_metadata.items = 1 .. 3 BY BinaryMetadataItems, SeqFacts
  <2> QED BY <2>1, <2>2, BinaryMetadataItems
<1>2. P!binary_metadata = P!Mapping(P!binary_metadata.items)
  BY BinaryMetadataItems DEF P!binary_metadata
<1> QED BY <1>1, <1>2, SafeCollections

LEMMA SafePut ==
  ASSUME NEW s, SafeItems(s), NEW k, NEW v, SafeValue(v)
  PROVE  SafeItems(P!Put(s, k, v))
<1>1. IsSeq(P!Put(s, k, v)) BY PutFacts DEF SafeItems
<1>2. ASSUME NEW i \in DOMAIN P!Put(s, k, v)
      PROVE  SafeValue(P!Put(s, k, v)[i].value)
  <2>1. \/ P!Put(s, k, v)[i] = P!Entry(k, v)
        \/ i \in DOMAIN s /\ P!Put(s, k, v)[i] = s[i]
    BY PutFacts DEF SafeItems
  <2> QED BY <2>1, EntryFields DEF SafeItems
<1> QED BY <1>1, <1>2 DEF SafeItems

LEMMA SafeAppend ==
  ASSUME NEW s, SafeItems(s), NEW v, SafeValue(v)
  PROVE  SafeItems(Append(s, P!Item(v)))
<1> DEFINE t == Append(s, P!Item(v))
<1>1. /\ IsSeq(t) /\ Len(t) = Len(s) + 1
      /\ \A i \in 1 .. Len(s) : t[i] = s[i]
      /\ t[Len(s) + 1] = P!Item(v)
  BY AppendFacts DEF SafeItems
<1> HIDE DEF t
<1>2. DOMAIN t = 1 .. Len(s) + 1 /\ DOMAIN s = 1 .. Len(s) /\ Len(s) \in Nat
  BY <1>1, SeqFacts DEF SafeItems
<1>3. \A i \in DOMAIN t : SafeValue(t[i].value)
  BY <1>1, <1>2, ItemField DEF SafeItems
<1>4. SafeItems(t) BY <1>1, <1>3 DEF SafeItems
<1> QED BY <1>4 DEF t

LEMMA StoreRedactedSafe ==
  ASSUME NEW s, SafeItems(s), NEW k, NEW v
  PROVE  SafeItems(P!_store_redacted(s, k, v))
<1>1. CASE v.type = "bytes"
  BY <1>1, SafePut, SafeBinary DEF P!_store_redacted
<1>2. CASE v.type # "bytes" /\ v.type \in {"redacted", "redacted_url"}
  <2>1. SafeValue(P!Leaf(v.type, 0)) BY <1>2, SafeLeaves
  <2> QED BY <1>2, <2>1, SafePut DEF P!_store_redacted
<1>3. CASE v.type \notin {"bytes", "redacted", "redacted_url"} /\ v.type \in P!Texts
  <2> DEFINE w == IF v.type = "url" THEN P!Leaf("redacted_url", 0) ELSE P!Redacted
             p == P!Put(s, k, w)
             q == P!Put(p, P!Suffixed(k, "length"), P!Number(1))
  <2>1. P!_store_redacted(s, k, v) = P!Put(q, P!Suffixed(k, "sha256"), P!Digest)
    BY <1>3 DEF P!_store_redacted
  <2>2. SafeValue(w) BY SafeLeaves
  <2> HIDE DEF w
  <2>3. SafeItems(p) BY <2>2, SafePut
  <2> HIDE DEF p
  <2>4. SafeItems(q) BY <2>3, SafePut, SafeLeaves
  <2> HIDE DEF q
  <2> QED BY <2>1, <2>4, SafePut, SafeLeaves
<1>4. CASE v.type \notin {"bytes"} \cup P!Texts /\ v.type \in P!Collections
  <2> DEFINE p == P!Put(s, k, P!Redacted)
  <2>1. P!_store_redacted(s, k, v) = P!Put(p, P!Suffixed(k, "count"), P!Number(Len(v.items)))
    BY <1>4 DEF P!_store_redacted, P!Texts
  <2>2. SafeItems(p) BY SafePut, SafeLeaves
  <2> HIDE DEF p
  <2> QED BY <2>1, <2>2, SafePut, SafeLeaves
<1>5. CASE v.type \notin {"bytes"} \cup P!Texts \cup P!Collections
  <2>1. P!_store_redacted(s, k, v) = P!Put(s, k, P!Redacted)
    BY <1>5 DEF P!_store_redacted, P!Texts
  <2> QED BY <2>1, SafePut, SafeLeaves
<1> QED BY <1>1, <1>2, <1>3, <1>4, <1>5 DEF P!Texts

LEMMA SafeWords ==
  /\ \A v : SafeValue(P!safe_identifier(v))
  /\ \A v : SafeValue(P!opaque_trace_identifier(v))
  /\ \A v : SafeValue(P!safe_category(v))
  /\ \A v : SafeValue(P!_sanitize_hash(v))
<1>1. \A v : SafeValue(P!safe_identifier(v)) BY SafeLeaves DEF P!safe_identifier
<1>2. \A v : SafeValue(P!opaque_trace_identifier(v)) BY SafeLeaves DEF P!opaque_trace_identifier
<1>3. \A v : SafeValue(P!safe_category(v)) BY SafeLeaves DEF P!safe_category
<1>4. \A v : SafeValue(P!_sanitize_hash(v)) BY SafeLeaves DEF P!_sanitize_hash
<1> QED BY <1>1, <1>2, <1>3, <1>4

LEMMA SafeIdentifiers ==
  ASSUME NEW class, NEW v
  PROVE  SafeValue(P!_sanitize_identifier_value(class, v))
<1> DEFINE Alone(w) == IF class = "external" THEN P!opaque_trace_identifier(w)
                       ELSE P!safe_identifier(w)
<1>1. \A w : SafeValue(Alone(w)) BY SafeWords
<1>2. CASE v.type # "list"
  <2>1. P!_sanitize_identifier_value(class, v) = Alone(v)
    BY <1>2 DEF P!_sanitize_identifier_value
  <2> QED BY <2>1, <1>1
<1>3. CASE v.type = "list"
  <2> DEFINE s == [i \in DOMAIN P!First(v.items) |-> P!Item(Alone(v.items[i].value))]
  <2>1. P!_sanitize_identifier_value(class, v) = P!List(s)
    BY <1>3 DEF P!_sanitize_identifier_value
  <2> HIDE DEF Alone
  <2>2. \A i \in DOMAIN s : SafeValue(s[i].value) BY <1>1, ItemField
  <2> HIDE DEF s
  <2> QED BY <2>1, <2>2, SafeCollections
<1> QED BY <1>2, <1>3

LEMMA SanitizeEntrySafe ==
  ASSUME NEW s, SafeItems(s), NEW e
  PROVE  SafeItems(P!_sanitize_entry(s, e))
<1> DEFINE class == e.key.class
<1>1. SafeItems(P!_sanitize_metric(s, e.key, e.value))
  BY SafePut, SafeLeaves, StoreRedactedSafe DEF P!_sanitize_metric
<1>2. SafeItems(P!Put(s, e.key, P!_sanitize_identifier_value(class, e.value)))
  BY SafePut, SafeIdentifiers
<1>3. /\ SafeItems(P!Put(s, e.key, P!_sanitize_hash(e.value)))
      /\ SafeItems(P!Put(s, e.key, P!safe_category(e.value)))
      /\ SafeItems(P!Put(s, e.key, P!Redacted))
  BY SafePut, SafeWords, SafeLeaves
<1>4. SafeItems(P!_store_redacted(s, e.key, e.value)) BY StoreRedactedSafe
<1> QED BY <1>1, <1>2, <1>3, <1>4 DEF P!_sanitize_entry

LEMMA SanitizeItemSafe ==
  \A class, v : SafeValue(P!_sanitize_item(class, v))
BY SafeWords, SafeLeaves, SafeBinary DEF P!_sanitize_item

LEMMA FrameIsFrame ==
  ASSUME NEW v, NEW class, NEW depth
  PROVE  IsFrame(P!Frame(v, class, depth))
<1>1. SafeItems(<<>>) BY EmptyIsSeq DEF SafeItems
<1>2. P!Frame(v, class, depth).at = 1 /\ P!Frame(v, class, depth).out = <<>>
  BY DEF P!Frame
<1> QED BY <1>1, <1>2 DEF IsFrame, P!Frame

LEMMA ResultSafe ==
  ASSUME NEW f, SafeItems(f.out)
  PROVE  /\ SafeValue(P!Result(f))
         /\ SafeItems(P!Result(f).items)
<1> DEFINE left == P!Entry(P!TruncatedKey, P!Number(f.extra))
           m == IF f.extra > 0 THEN P!Put(f.out, left.key, left.value) ELSE f.out
           l == IF f.extra > 0 /\ f.class # "category"
                THEN Append(f.out, P!Item(P!Mapping(<<left>>))) ELSE f.out
<1>1. SafeValue(left.value) BY SafeLeaves, EntryFields
<1>2. SafeValue(P!Mapping(<<left>>))
  <2>1. \A i \in DOMAIN <<left>> : SafeValue(<<left>>[i].value) BY <1>1
  <2> HIDE DEF left
  <2> QED BY <2>1, SafeCollections
<1>3. P!Result(f) = IF f.type = "map" THEN P!Mapping(m) ELSE P!List(l)
  BY DEF P!Result
<1> HIDE DEF left
<1>4. SafeItems(m) BY <1>1, SafePut
<1>5. SafeItems(l) BY <1>2, SafeAppend
<1> HIDE DEF m, l
<1>6. SafeValue(P!Mapping(m)) /\ SafeValue(P!List(l))
  BY <1>4, <1>5, SafeCollections DEF SafeItems
<1>7. P!Mapping(m).items = m /\ P!List(l).items = l BY DEF P!Mapping, P!List
<1> QED BY <1>3, <1>4, <1>5, <1>6, <1>7

LEMMA TurnFrame ==
  ASSUME NEW f, IsFrame(f)
  PROVE  /\ IsFrame(P!Turn(f))
         /\ P!Turn(f).at = f.at + 1
         /\ P!Turn(f).type = f.type /\ P!Turn(f).class = f.class
         /\ P!Turn(f).depth = f.depth /\ P!Turn(f).items = f.items
         /\ P!Turn(f).extra = f.extra
         /\ f.type = "map" => P!Turn(f).out = P!_sanitize_entry(f.out, P!Current(f))
<1> DEFINE o == IF f.type = "map" THEN P!_sanitize_entry(f.out, P!Current(f))
                ELSE Append(f.out, P!Item(P!_sanitize_item(f.class, P!Current(f).value)))
<1>1. SafeItems(o) BY SanitizeEntrySafe, SanitizeItemSafe, SafeAppend DEF IsFrame
<1>2. P!Turn(f) = [f EXCEPT !.at = f.at + 1, !.out = o] BY DEF P!Turn
<1>3. f.type = "map" => o = P!_sanitize_entry(f.out, P!Current(f)) OBVIOUS
<1> HIDE DEF o
<1>4. P!Turn(f) = [type |-> f.type, class |-> f.class, depth |-> f.depth,
                   items |-> f.items, extra |-> f.extra, at |-> f.at + 1, out |-> o]
  BY <1>2 DEF IsFrame
<1> QED BY <1>1, <1>3, <1>4 DEF IsFrame

LEMMA ReturnFrame ==
  ASSUME NEW f, IsFrame(f), NEW v, SafeValue(v)
  PROVE  /\ IsFrame(P!Return(f, v))
         /\ P!Return(f, v).at = f.at + 1
         /\ P!Return(f, v).type = f.type /\ P!Return(f, v).class = f.class
         /\ P!Return(f, v).depth = f.depth /\ P!Return(f, v).items = f.items
         /\ P!Return(f, v).extra = f.extra
         /\ f.type = "map" =>
              P!Return(f, v).out =
                IF P!Current(f).key.class = "binary" /\ ~P!_is_binary_metadata(v)
                THEN P!_store_redacted(f.out, P!Current(f).key, P!Current(f).value)
                ELSE P!Put(f.out, P!Current(f).key, v)
<1> DEFINE m == IF P!Current(f).key.class = "binary" /\ ~P!_is_binary_metadata(v)
                THEN P!_store_redacted(f.out, P!Current(f).key, P!Current(f).value)
                ELSE P!Put(f.out, P!Current(f).key, v)
           o == IF f.type = "list" THEN Append(f.out, P!Item(v)) ELSE m
<1>1. SafeItems(o) BY StoreRedactedSafe, SafePut, SafeAppend DEF IsFrame
<1>2. P!Return(f, v) = [f EXCEPT !.at = f.at + 1, !.out = o] BY DEF P!Return
<1>3. f.type = "map" => o = m OBVIOUS
<1> HIDE DEF o
<1>4. P!Return(f, v) = [type |-> f.type, class |-> f.class, depth |-> f.depth,
                   items |-> f.items, extra |-> f.extra, at |-> f.at + 1, out |-> o]
  BY <1>2 DEF IsFrame
<1> HIDE DEF m
<1>5. f.type = "map" => P!Return(f, v).out = m BY <1>3, <1>4
<1>6. IsFrame(P!Return(f, v)) BY <1>1, <1>4 DEF IsFrame
<1> QED BY <1>4, <1>5, <1>6 DEF m

-----------------------------------------------------------------------------
\* What an entry of a mapping leaves of itself.

\* The value under its key, and perhaps its length and hash, or its size.
Stores(s, k, v, t) ==
  \/ t = P!Put(s, k, v)
  \/ \E n : t = P!Put(P!Put(s, k, v), P!Suffixed(k, "count"), P!Number(n))
  \/ t = P!Put(P!Put(P!Put(s, k, v), P!Suffixed(k, "length"), P!Number(1)),
               P!Suffixed(k, "sha256"), P!Digest)

\* One more entry e has been redacted, from s to t.
Reduces(s, e, t) ==
  IF P!Kept(e.key) THEN \E v : Stores(s, e.key, v, t) ELSE t = s

\* The same of an entry that is plain: what it leaves is mild, what a mild entry
\* leaves is stable, and a stable entry leaves one.
Grades(s, e, t) ==
  IF P!Kept(e.key)
  THEN \E v : /\ Stores(s, e.key, v, t)
              /\ Mild(P!Entry(e.key, v))
              /\ Mild(e) => Stable(P!Entry(e.key, v))
              /\ Stable(e) => t = P!Put(s, e.key, v)
  ELSE t = s

LEMMA SuffixedStable ==
  /\ \A k, n : Stable(P!Entry(P!Suffixed(k, "count"), P!Number(n)))
  /\ \A k, n : Stable(P!Entry(P!Suffixed(k, "length"), P!Number(n)))
  /\ \A k : Stable(P!Entry(P!Suffixed(k, "sha256"), P!Digest))
<1>1. /\ \A k : P!Suffixed(k, "count").class = "metric"
      /\ \A k : P!Suffixed(k, "length").class = "metric"
      /\ \A k : P!Suffixed(k, "sha256").class = "hash"
  BY DEF P!Suffixed, P!Key
<1>2. \A n : P!Number(n).type = "number" BY DEF P!Number, P!Leaf
<1> QED BY <1>1, <1>2, EntryFields DEF Stable

LEMMA StableIsMild == \A e : Stable(e) => Mild(e)
BY DEF Stable, Mild

LEMMA MildIsPlain == \A e : Mild(e) => Plain(e)
BY DEF Mild, Plain, Hidden

\* Where the entries of the result come from.
LEMMA StoresFacts ==
  ASSUME NEW s, IsSeq(s), NEW k, NEW v, NEW t, Stores(s, k, v, t)
  PROVE  /\ IsSeq(t) /\ Len(t) >= 1 /\ Len(s) <= Len(t)
         /\ \A i \in 1 .. Len(s) : t[i].key = s[i].key
         /\ Len(s) = 0 => t[1].key = k
         /\ DistinctKeys(s) => DistinctKeys(t)
         /\ \A i \in DOMAIN t : \/ i \in DOMAIN s /\ t[i] = s[i]
                                \/ t[i] = P!Entry(k, v)
                                \/ Stable(t[i])
<1> DEFINE p == P!Put(s, k, v)
<1>1. /\ IsSeq(p) /\ Len(p) >= 1 /\ Len(s) <= Len(p) /\ Len(p) \in Nat /\ Len(s) \in Nat
      /\ \A i \in 1 .. Len(s) : p[i].key = s[i].key
      /\ Len(p) > Len(s) => p[Len(s) + 1].key = k
      /\ DistinctKeys(s) => DistinctKeys(p)
      /\ \A i \in DOMAIN p : p[i] = P!Entry(k, v) \/ (i \in DOMAIN s /\ p[i] = s[i])
  BY PutFacts, SeqFacts
<1>2. Len(s) = 0 => p[1].key = k BY <1>1
<1>3. ASSUME NEW q, IsSeq(q), NEW k2, NEW w, Stable(P!Entry(k2, w)),
             Len(q) >= 1, Len(s) <= Len(q), Len(q) \in Nat,
             \A i \in 1 .. Len(s) : q[i].key = s[i].key,
             Len(s) = 0 => q[1].key = k,
             DistinctKeys(s) => DistinctKeys(q),
             \A i \in DOMAIN q : \/ i \in DOMAIN s /\ q[i] = s[i]
                                 \/ q[i] = P!Entry(k, v)
                                 \/ Stable(q[i]),
             NEW r, r = P!Put(q, k2, w)
      PROVE  /\ IsSeq(r) /\ Len(r) >= 1 /\ Len(s) <= Len(r) /\ Len(r) \in Nat
             /\ \A i \in 1 .. Len(s) : r[i].key = s[i].key
             /\ Len(s) = 0 => r[1].key = k
             /\ DistinctKeys(s) => DistinctKeys(r)
             /\ \A i \in DOMAIN r : \/ i \in DOMAIN s /\ r[i] = s[i]
                                    \/ r[i] = P!Entry(k, v)
                                    \/ Stable(r[i])
  <2> DEFINE u == P!Put(q, k2, w)
  <2>q. IsSeq(q) BY <1>3
  <2>0. /\ IsSeq(u) /\ Len(u) >= 1 /\ Len(q) <= Len(u)
        /\ \A i \in 1 .. Len(q) : u[i].key = q[i].key
        /\ DistinctKeys(q) => DistinctKeys(u)
        /\ \A i \in DOMAIN u : u[i] = P!Entry(k2, w) \/ (i \in DOMAIN q /\ u[i] = q[i])
    BY <2>q, PutFacts
  <2>r. r = u BY <1>3
  <2> HIDE DEF u
  <2>1. /\ IsSeq(r) /\ Len(r) >= 1 /\ Len(q) <= Len(r) /\ Len(r) \in Nat
        /\ \A i \in 1 .. Len(q) : r[i].key = q[i].key
        /\ DistinctKeys(q) => DistinctKeys(r)
        /\ \A i \in DOMAIN r : r[i] = P!Entry(k2, w) \/ (i \in DOMAIN q /\ r[i] = q[i])
    BY <2>0, <2>r, SeqFacts
  <2>2. Len(s) <= Len(r) /\ \A i \in 1 .. Len(s) : r[i].key = s[i].key
    BY <1>1, <1>3, <2>1
  <2>3. Len(s) = 0 => r[1].key = k BY <1>3, <2>1
  <2>4. \A i \in DOMAIN r : \/ i \in DOMAIN s /\ r[i] = s[i]
                            \/ r[i] = P!Entry(k, v)
                            \/ Stable(r[i])
    BY <1>3, <2>1
  <2> QED BY <1>3, <2>1, <2>2, <2>3, <2>4
<1> HIDE DEF p
<1>4. CASE t = p
  BY <1>1, <1>2, <1>4
<1>5. ASSUME NEW n, t = P!Put(p, P!Suffixed(k, "count"), P!Number(n))
      PROVE  /\ IsSeq(t) /\ Len(t) >= 1 /\ Len(s) <= Len(t)
             /\ \A i \in 1 .. Len(s) : t[i].key = s[i].key
             /\ Len(s) = 0 => t[1].key = k
             /\ DistinctKeys(s) => DistinctKeys(t)
             /\ \A i \in DOMAIN t : \/ i \in DOMAIN s /\ t[i] = s[i]
                                    \/ t[i] = P!Entry(k, v)
                                    \/ Stable(t[i])
  <2>1. Stable(P!Entry(P!Suffixed(k, "count"), P!Number(n))) BY SuffixedStable
  <2> QED BY <1>1, <1>2, <1>3, <1>5, <2>1
<1>6. CASE t = P!Put(P!Put(p, P!Suffixed(k, "length"), P!Number(1)),
                     P!Suffixed(k, "sha256"), P!Digest)
  <2> DEFINE q == P!Put(p, P!Suffixed(k, "length"), P!Number(1))
  <2>1. /\ Stable(P!Entry(P!Suffixed(k, "length"), P!Number(1)))
        /\ Stable(P!Entry(P!Suffixed(k, "sha256"), P!Digest))
    BY SuffixedStable
  <2>2. /\ IsSeq(q) /\ Len(q) >= 1 /\ Len(s) <= Len(q) /\ Len(q) \in Nat
        /\ \A i \in 1 .. Len(s) : q[i].key = s[i].key
        /\ Len(s) = 0 => q[1].key = k
        /\ DistinctKeys(s) => DistinctKeys(q)
        /\ \A i \in DOMAIN q : \/ i \in DOMAIN s /\ q[i] = s[i]
                               \/ q[i] = P!Entry(k, v)
                               \/ Stable(q[i])
    BY <1>1, <1>2, <1>3, <2>1
  <2>3. t = P!Put(q, P!Suffixed(k, "sha256"), P!Digest) BY <1>6
  <2> HIDE DEF q
  <2> QED BY <1>3, <2>1, <2>2, <2>3
<1> QED BY <1>4, <1>5, <1>6 DEF Stores, p

\* _store_redacted, and what it leaves of a value under a metric, sensitive or
\* binary key.
LEMMA StoreRedactedForms ==
  ASSUME NEW s, NEW k, NEW v
  PROVE  \E w : /\ Stores(s, k, w, P!_store_redacted(s, k, v))
                /\ Hidden(w) \/ w = P!binary_metadata
                /\ v.type # "bytes" => Hidden(w)
                /\ Hidden(v) => P!_store_redacted(s, k, v) = P!Put(s, k, w)
<1>0. /\ Hidden(P!Redacted)
      /\ \A type \in {"redacted", "redacted_url"} : Hidden(P!Leaf(type, 0))
  BY DEF Hidden, P!Redacted, P!Leaf
<1>1. CASE v.type = "bytes"
  <2>1. P!_store_redacted(s, k, v) = P!Put(s, k, P!binary_metadata)
    BY <1>1 DEF P!_store_redacted
  <2>2. ~Hidden(v) BY <1>1 DEF Hidden
  <2>3. Stores(s, k, P!binary_metadata, P!_store_redacted(s, k, v)) BY <2>1 DEF Stores
  <2> QED BY <1>1, <2>2, <2>3
<1>2. CASE v.type \in {"redacted", "redacted_url"}
  <2>1. P!_store_redacted(s, k, v) = P!Put(s, k, P!Leaf(v.type, 0))
    BY <1>2 DEF P!_store_redacted
  <2>2. Hidden(P!Leaf(v.type, 0)) BY <1>0, <1>2
  <2>3. Stores(s, k, P!Leaf(v.type, 0), P!_store_redacted(s, k, v)) BY <2>1 DEF Stores
  <2> QED BY <2>1, <2>2, <2>3
<1>3. CASE v.type \notin {"bytes", "redacted", "redacted_url"} /\ v.type \in P!Texts
  <2> DEFINE w == IF v.type = "url" THEN P!Leaf("redacted_url", 0) ELSE P!Redacted
  <2>1. P!_store_redacted(s, k, v) =
          P!Put(P!Put(P!Put(s, k, w), P!Suffixed(k, "length"), P!Number(1)),
                P!Suffixed(k, "sha256"), P!Digest)
    BY <1>3 DEF P!_store_redacted
  <2>2. Hidden(w) BY <1>0
  <2> HIDE DEF w
  <2>3. Stores(s, k, w, P!_store_redacted(s, k, v)) BY <2>1 DEF Stores
  <2>4. ~Hidden(v) BY <1>3 DEF Hidden
  <2> QED BY <2>2, <2>3, <2>4
<1>4. CASE v.type \notin {"bytes"} \cup P!Texts /\ v.type \in P!Collections
  <2>1. P!_store_redacted(s, k, v) =
          P!Put(P!Put(s, k, P!Redacted), P!Suffixed(k, "count"), P!Number(Len(v.items)))
    BY <1>4 DEF P!_store_redacted, P!Texts
  <2>3. Stores(s, k, P!Redacted, P!_store_redacted(s, k, v)) BY <2>1 DEF Stores
  <2>4. ~Hidden(v) BY <1>4 DEF Hidden, P!Texts
  <2> QED BY <1>0, <2>3, <2>4
<1>5. CASE v.type \notin {"bytes"} \cup P!Texts \cup P!Collections
  <2>1. P!_store_redacted(s, k, v) = P!Put(s, k, P!Redacted)
    BY <1>5 DEF P!_store_redacted, P!Texts
  <2>2. Stores(s, k, P!Redacted, P!_store_redacted(s, k, v)) BY <2>1 DEF Stores
  <2> QED BY <1>0, <2>1, <2>2
<1> QED BY <1>1, <1>2, <1>3, <1>4, <1>5 DEF P!Texts

\* A turn of the loop that calls nothing, or one that has the answer of its call.
TurnEnds(f, t) ==
  \/ ~P!Calls(f) /\ t = P!_sanitize_entry(f.out, P!Current(f))
  \/ /\ P!Calls(f)
     /\ \E v : t = IF P!Current(f).key.class = "binary" /\ ~P!_is_binary_metadata(v)
                   THEN P!_store_redacted(f.out, P!Current(f).key, P!Current(f).value)
                   ELSE P!Put(f.out, P!Current(f).key, v)

LEMMA CallsAreKept ==
  ASSUME NEW f, f.type = "map", P!Calls(f)
  PROVE  /\ P!Kept(P!Current(f).key)
         /\ P!Current(f).key.class \in {"category", "binary"} \cup P!Containers
         /\ P!Current(f).key.class = "binary" => P!Current(f).value.type = "map"
BY DEF P!Calls, P!Containers

LEMMA PutStores == \A s, k, v : Stores(s, k, v, P!Put(s, k, v))
BY DEF Stores

LEMMA EntryReduces ==
  ASSUME NEW s, NEW e
  PROVE  Reduces(s, e, P!_sanitize_entry(s, e))
<1> DEFINE t == P!_sanitize_entry(s, e)
<1>1. CASE ~P!Kept(e.key)
  BY <1>1 DEF P!_sanitize_entry, Reduces
<1>2. CASE P!Kept(e.key)
  <2>1. \/ t = P!_store_redacted(s, e.key, e.value)
        \/ \E v : t = P!Put(s, e.key, v)
    BY <1>2 DEF P!_sanitize_entry, P!_sanitize_metric
  <2>2. \E v : Stores(s, e.key, v, t) BY <2>1, StoreRedactedForms, PutStores
  <2> QED BY <1>2, <2>2 DEF Reduces
<1> QED BY <1>1, <1>2

LEMMA TurnReduces ==
  ASSUME NEW f, f.type = "map", NEW t, TurnEnds(f, t)
  PROVE  Reduces(f.out, P!Current(f), t)
<1>1. CASE ~P!Calls(f)
  BY <1>1, EntryReduces DEF TurnEnds
<1>2. CASE P!Calls(f)
  <2>1. \/ t = P!_store_redacted(f.out, P!Current(f).key, P!Current(f).value)
        \/ \E v : t = P!Put(f.out, P!Current(f).key, v)
    BY <1>2 DEF TurnEnds
  <2>2. \E v : Stores(f.out, P!Current(f).key, v, t)
    BY <2>1, StoreRedactedForms, PutStores
  <2> QED BY <1>2, <2>2, CallsAreKept DEF Reduces
<1> QED BY <1>1, <1>2

\* The same, when a call for reduced bytes returns them.
TurnEndsWell(f, t) ==
  \/ ~P!Calls(f) /\ t = P!_sanitize_entry(f.out, P!Current(f))
  \/ /\ P!Calls(f)
     /\ \E v : /\ P!Current(f).key.class = "binary" => v = P!binary_metadata
               /\ t = P!Put(f.out, P!Current(f).key, v)

LEMMA TurnGrades ==
  ASSUME P!LimitAssumption, NEW f, f.type = "map", f.depth = 0, Plain(P!Current(f)),
         NEW t, TurnEndsWell(f, t)
  PROVE  Grades(f.out, P!Current(f), t)
<1> DEFINE e == P!Current(f)
           s == f.out
<1> SUFFICES Grades(s, e, t) OBVIOUS
<1>0. /\ P!binary_metadata.type = "map"
      /\ \A n : P!Number(n).type = "number"
      /\ \A k, v : P!Entry(k, v).key = k /\ P!Entry(k, v).value = v
  BY BinaryMetadataItems, EntryFields DEF P!Number, P!Leaf
<1>d. 0 < MaxDepth BY DEF P!LimitAssumption
<1>1. CASE P!Calls(f)
  <2>1. PICK v : (e.key.class = "binary" => v = P!binary_metadata) /\ t = P!Put(s, e.key, v)
    BY <1>1 DEF TurnEndsWell
  <2>2. P!Kept(e.key) /\ e.key.class \in {"category", "binary"} \cup P!Containers
    BY <1>1, CallsAreKept
  <2> HIDE DEF e, s
  <2>3. Mild(P!Entry(e.key, v)) /\ Stable(P!Entry(e.key, v))
    BY <1>0, <2>1, <2>2 DEF Mild, Stable, P!Containers
  <2> QED BY <2>1, <2>2, <2>3, PutStores DEF Grades
<1>2. CASE ~P!Calls(f)
  <2>1. t = P!_sanitize_entry(s, e) BY <1>2 DEF TurnEndsWell
  <2>2. P!Kept(e.key) /\ e.key.class = "binary" => e.value.type # "map"
    BY <1>2, <1>d DEF P!Calls
  <2>p. Plain(e) OBVIOUS
  <2> HIDE DEF e, s
  <2>3. CASE ~P!Kept(e.key)
    BY <2>1, <2>3 DEF P!_sanitize_entry, Grades
  <2>4. CASE P!Kept(e.key) /\ e.key.class = "metric" /\ e.value.type = "number"
    <3>1. t = P!Put(s, e.key, P!Number(e.value.n))
      BY <2>1, <2>4 DEF P!_sanitize_entry, P!_sanitize_metric
    <3>2. Stable(P!Entry(e.key, P!Number(e.value.n))) BY <1>0, <2>4 DEF Stable
    <3> QED BY <2>4, <3>1, <3>2, PutStores, StableIsMild DEF Grades
  <2>5. CASE /\ P!Kept(e.key)
             /\ e.key.class \in {"metric", "sensitive", "binary"}
             /\ ~(e.key.class = "metric" /\ e.value.type = "number")
    <3>1. t = P!_store_redacted(s, e.key, e.value)
      BY <2>1, <2>5 DEF P!_sanitize_entry, P!_sanitize_metric, P!Containers
    <3>2. PICK w : /\ Stores(s, e.key, w, t)
                   /\ Hidden(w) \/ w = P!binary_metadata
                   /\ e.value.type # "bytes" => Hidden(w)
                   /\ Hidden(e.value) => t = P!Put(s, e.key, w)
      BY <3>1, StoreRedactedForms
    <3>3. Mild(P!Entry(e.key, w)) BY <1>0, <3>2 DEF Mild
    <3>4. ASSUME Mild(e), e.key.class # "binary" PROVE Hidden(w)
      BY <1>0, <2>5, <3>2, <3>4 DEF Mild, Hidden
    <3>5. Mild(e) => Stable(P!Entry(e.key, w)) BY <1>0, <3>2, <3>4 DEF Stable
    <3>6. Stable(e) => Hidden(e.value) BY <1>0, <2>2, <2>5 DEF Stable
    <3> QED BY <2>5, <3>2, <3>3, <3>5, <3>6 DEF Grades
  <2>6. CASE /\ P!Kept(e.key)
             /\ e.key.class \notin {"metric", "sensitive", "binary"}
    <3>1. \E v : t = P!Put(s, e.key, v)
      BY <2>1, <2>6 DEF P!_sanitize_entry, P!Kept, P!Classes, P!Containers
    <3>2. \A v : Mild(P!Entry(e.key, v)) /\ Stable(P!Entry(e.key, v))
      BY <1>0, <2>6 DEF Mild, Stable
    <3> QED BY <2>6, <3>1, <3>2, PutStores DEF Grades
  <2> QED BY <2>3, <2>4, <2>5, <2>6
<1> QED BY <1>1, <1>2

\* What one more entry does to what was redacted before it.
LEMMA ReducesFacts ==
  ASSUME NEW s, IsSeq(s), NEW e, NEW t, Reduces(s, e, t)
  PROVE  /\ IsSeq(t) /\ Len(s) <= Len(t)
         /\ \A i \in 1 .. Len(s) : t[i].key = s[i].key
         /\ P!Kept(e.key) => Len(t) >= 1 /\ (Len(s) = 0 => t[1].key = e.key)
         /\ ~P!Kept(e.key) => t = s
         /\ DistinctKeys(s) => DistinctKeys(t)
<1>1. CASE ~P!Kept(e.key)
  BY <1>1, SeqFacts DEF Reduces
<1>2. CASE P!Kept(e.key)
  <2>1. PICK v : Stores(s, e.key, v, t) BY <1>2 DEF Reduces
  <2> QED BY <1>2, <2>1, StoresFacts
<1> QED BY <1>1, <1>2

LEMMA GradesFacts ==
  ASSUME NEW s, IsSeq(s), NEW e, NEW t, Grades(s, e, t)
  PROVE  /\ AllMild(s) => AllMild(t)
         /\ AllStable(s) /\ Mild(e) => AllStable(t)
         /\ Stable(e) /\ AllKept(s) => AllKept(t)
         /\ Stable(e) => Len(t) <= Len(s) + 1
         /\ /\ Stable(e) /\ P!Kept(e.key)
            /\ \A i \in DOMAIN s : s[i].key # e.key
            => Len(t) = Len(s) + 1 /\ t[Len(s) + 1].key = e.key
<1>1. CASE ~P!Kept(e.key)
  <2>1. t = s BY <1>1 DEF Grades
  <2>2. Len(s) <= Len(s) + 1 BY SeqFacts
  <2> QED BY <1>1, <2>1, <2>2
<1>2. CASE P!Kept(e.key)
  <2>1. PICK v : /\ Stores(s, e.key, v, t)
                 /\ Mild(P!Entry(e.key, v))
                 /\ Mild(e) => Stable(P!Entry(e.key, v))
                 /\ Stable(e) => t = P!Put(s, e.key, v)
    BY <1>2 DEF Grades
  <2>2. \A i \in DOMAIN t : \/ i \in DOMAIN s /\ t[i] = s[i]
                            \/ t[i] = P!Entry(e.key, v)
                            \/ Stable(t[i])
    BY <2>1, StoresFacts
  <2>3. AllMild(s) => AllMild(t) BY <2>1, <2>2, StableIsMild DEF AllMild
  <2>4. AllStable(s) /\ Mild(e) => AllStable(t) BY <2>1, <2>2 DEF AllStable
  <2>5. CASE ~Stable(e)
    BY <2>3, <2>4, <2>5
  <2>6. CASE Stable(e)
    <3>1. t = P!Put(s, e.key, v) BY <2>1, <2>6
    <3>2. /\ Len(t) <= Len(s) + 1
          /\ Len(t) > Len(s) => t[Len(s) + 1].key = e.key
          /\ \A i \in DOMAIN t : t[i] = P!Entry(e.key, v) \/ (i \in DOMAIN s /\ t[i] = s[i])
          /\ (\A i \in DOMAIN s : s[i].key # e.key) => Len(t) = Len(s) + 1
      BY <3>1, PutFacts
    <3>3. AllKept(s) => AllKept(t) BY <1>2, <3>2, EntryFields DEF AllKept
    <3>4. Len(s) \in Nat BY SeqFacts
    <3>5. (\A i \in DOMAIN s : s[i].key # e.key) =>
             Len(t) = Len(s) + 1 /\ t[Len(s) + 1].key = e.key
      BY <3>2, <3>4
    <3> QED BY <2>3, <2>4, <3>2, <3>3, <3>5
  <2> QED BY <2>5, <2>6
<1> QED BY <1>1, <1>2

-----------------------------------------------------------------------------
\* The stack of frames.

\* A turn of the loop is over.
Advances(f, g) ==
  /\ P!More(f)
  /\ g.at = f.at + 1
  /\ g.type = f.type /\ g.depth = f.depth /\ g.items = f.items /\ g.extra = f.extra

\* A step leaves the outermost frame alone or redacts its next entry.
FramesStep ==
  /\ work # <<>> /\ work' # <<>>
  /\ FramesInv'
  /\ \/ work'[1] = work[1]
     \/ Advances(work[1], work'[1]) /\ TurnEnds(work[1], work'[1].out)

CurrentIsPlain == P!More(work[1]) => Plain(P!Current(work[1]))

BinaryStep ==
  /\ BinaryInv'
  /\ \/ work'[1] = work[1]
     \/ Advances(work[1], work'[1]) /\ TurnEndsWell(work[1], work'[1].out)

LEMMA OutermostAdvances ==
  ASSUME NEW f, IsFrame(f), Outermost(f), NEW g, Advances(f, g), TurnEnds(f, g.out)
  PROVE  Outermost(g)
<1>1. Reduces(f.out, P!Current(f), g.out) BY TurnReduces DEF Outermost
<1>2. DistinctKeys(g.out) BY <1>1, ReducesFacts DEF Outermost, IsFrame, SafeItems
<1>3. f.at <= Len(f.items) BY DEF Advances, P!More
<1>4. f.at \in Nat /\ Len(f.items) \in Nat BY DEF IsFrame, Outermost, IsSeq
<1> QED BY <1>2, <1>3, <1>4 DEF Outermost, Advances

\* Reduced bytes are redacted to themselves.
LEMMA BinaryFrameFields ==
  \A n, out : /\ BinaryFrame(n, out).type = "map"
              /\ BinaryFrame(n, out).class = "binary"
              /\ BinaryFrame(n, out).depth = 1
              /\ BinaryFrame(n, out).items = P!binary_metadata.items
              /\ BinaryFrame(n, out).extra = 0
              /\ BinaryFrame(n, out).at = n
              /\ BinaryFrame(n, out).out = out
BY DEF BinaryFrame

LEMMA BinaryEntries ==
  /\ P!KindEntry.key.class = "category" /\ P!KindEntry.value = P!Word
  /\ \A n : P!SizeEntry(n).key.class = "metric" /\ P!SizeEntry(n).value = P!Number(n)
  /\ P!HashEntry.key.class = "hash" /\ P!HashEntry.value = P!Digest
  /\ P!KindEntry.key # P!SizeEntry(1).key
  /\ P!KindEntry.key # P!HashEntry.key
  /\ P!SizeEntry(1).key # P!HashEntry.key
  /\ P!LimitAssumption => /\ P!Kept(P!KindEntry.key)
                          /\ P!Kept(P!SizeEntry(1).key)
                          /\ P!Kept(P!HashEntry.key)
<1>1. /\ P!KindEntry.key = P!Key("category", <<"kind">>) /\ P!KindEntry.value = P!Word
      /\ \A n : P!SizeEntry(n).key = P!Key("metric", <<"size_bytes">>)
                /\ P!SizeEntry(n).value = P!Number(n)
      /\ P!HashEntry.key = P!Key("hash", <<"sha256">>) /\ P!HashEntry.value = P!Digest
  BY EntryFields DEF P!KindEntry, P!SizeEntry, P!HashEntry
<1>2. \A class, name : P!Key(class, name).class = class /\ P!Key(class, name).name = name
  BY DEF P!Key
<1>3. P!LimitAssumption => {<<"kind">>, <<"size_bytes">>, <<"sha256">>} \cap TooLong = {}
  BY DEF P!LimitAssumption
<1>4. P!LimitAssumption => /\ P!Kept(P!KindEntry.key)
                           /\ P!Kept(P!SizeEntry(1).key)
                           /\ P!Kept(P!HashEntry.key)
  BY <1>1, <1>2, <1>3 DEF P!Kept, P!Classes
<1> QED BY <1>1, <1>2, <1>4

LEMMA EntryRebuilt ==
  /\ P!Entry(P!KindEntry.key, P!Word) = P!KindEntry
  /\ P!Entry(P!SizeEntry(1).key, P!Number(1)) = P!SizeEntry(1)
  /\ P!Entry(P!HashEntry.key, P!Digest) = P!HashEntry
BY EntryFields DEF P!KindEntry, P!SizeEntry, P!HashEntry

LEMMA PutNew ==
  ASSUME NEW s, NEW k, NEW v, \A i \in DOMAIN s : s[i].key # k
  PROVE  P!Put(s, k, v) = Append(s, P!Entry(k, v))
BY DEF P!Put

LEMMA SeqEqual ==
  ASSUME NEW s, IsSeq(s), NEW t, IsSeq(t), Len(s) = Len(t),
         \A i \in 1 .. Len(s) : s[i] = t[i]
  PROVE  s = t
BY DEF IsSeq

LEMMA AppendLiterals ==
  ASSUME NEW a, NEW b, NEW c
  PROVE  /\ Append(<<>>, a) = <<a>>
         /\ Append(<<a>>, b) = <<a, b>>
         /\ Append(<<a, b>>, c) = <<a, b, c>>
<1>1. Append(<<>>, a) = <<a>> OBVIOUS
<1>2. Append(<<a>>, b) = <<a, b>>
  <2>1. <<a>> \in Seq({a}) /\ <<a, b>> \in Seq({a, b}) OBVIOUS
  <2>2. IsSeq(<<a>>) /\ IsSeq(<<a, b>>) BY <2>1, SeqIsSeq
  <2>3. Len(<<a>>) = 1 /\ <<a>>[1] = a OBVIOUS
  <2>4. Len(<<a, b>>) = 2 /\ <<a, b>>[1] = a /\ <<a, b>>[2] = b OBVIOUS
  <2> DEFINE s == <<a>>
             t == <<a, b>>
             u == Append(s, b)
  <2>5. IsSeq(s) /\ IsSeq(t) /\ Len(s) = 1 /\ s[1] = a /\ Len(t) = 2 /\ t[1] = a /\ t[2] = b
    BY <2>2, <2>3, <2>4
  <2> HIDE DEF s, t
  <2>6. IsSeq(u) /\ Len(u) = 2 /\ u[1] = a /\ u[2] = b
    <3>1. IsSeq(u) /\ Len(u) = Len(s) + 1 /\ u[Len(s) + 1] = b
          /\ \A i \in 1 .. Len(s) : u[i] = s[i]
      <4>1. IsSeq(s) BY <2>5
      <4> QED BY <4>1, AppendFacts
    <3> HIDE DEF u
    <3> QED BY <2>5, <3>1
  <2> HIDE DEF u
  <2>7. \A i \in 1 .. Len(u) : u[i] = t[i] BY <2>5, <2>6
  <2>8. u = t BY <2>5, <2>6, <2>7, SeqEqual
  <2> QED BY <2>8 DEF s, t, u
<1>3. Append(<<a, b>>, c) = <<a, b, c>>
  <2>1. <<a, b>> \in Seq({a, b}) /\ <<a, b, c>> \in Seq({a, b, c}) OBVIOUS
  <2>2. IsSeq(<<a, b>>) /\ IsSeq(<<a, b, c>>) BY <2>1, SeqIsSeq
  <2>3. Len(<<a, b>>) = 2 /\ <<a, b>>[1] = a /\ <<a, b>>[2] = b OBVIOUS
  <2>4. Len(<<a, b, c>>) = 3 /\ <<a, b, c>>[1] = a /\ <<a, b, c>>[2] = b /\ <<a, b, c>>[3] = c
    OBVIOUS
  <2> DEFINE s == <<a, b>>
             t == <<a, b, c>>
             u == Append(s, c)
  <2>5. /\ IsSeq(s) /\ Len(s) = 2 /\ s[1] = a /\ s[2] = b
        /\ IsSeq(t) /\ Len(t) = 3 /\ t[1] = a /\ t[2] = b /\ t[3] = c
    BY <2>2, <2>3, <2>4
  <2> HIDE DEF s, t
  <2>6. IsSeq(u) /\ Len(u) = 3 /\ u[1] = a /\ u[2] = b /\ u[3] = c
    <3>1. IsSeq(u) /\ Len(u) = Len(s) + 1 /\ u[Len(s) + 1] = c
          /\ \A i \in 1 .. Len(s) : u[i] = s[i]
      <4>1. IsSeq(s) BY <2>5
      <4> QED BY <4>1, AppendFacts
    <3> HIDE DEF u
    <3> QED BY <2>5, <3>1
  <2> HIDE DEF u
  <2>7. \A i \in 1 .. Len(u) : u[i] = t[i] BY <2>5, <2>6
  <2>8. u = t BY <2>5, <2>6, <2>7, SeqEqual
  <2> QED BY <2>8 DEF s, t, u
<1> QED BY <1>1, <1>2, <1>3

LEMMA FrameUpdate ==
  ASSUME NEW f, NEW type, NEW class, NEW depth, NEW items, NEW extra, NEW at, NEW out,
         f = [type |-> type, class |-> class, depth |-> depth, items |-> items,
              extra |-> extra, at |-> at, out |-> out],
         NEW n, NEW o, NEW g, g = [f EXCEPT !.at = n, !.out = o]
  PROVE  g = [type |-> type, class |-> class, depth |-> depth, items |-> items,
              extra |-> extra, at |-> n, out |-> o]
OBVIOUS

LEMMA BinaryAdvance ==
  ASSUME NEW n, NEW out, NEW entry, NEW o,
         P!Current(BinaryFrame(n, out)) = entry, P!_sanitize_entry(out, entry) = o
  PROVE  P!Turn(BinaryFrame(n, out)) = BinaryFrame(n + 1, o)
<1> DEFINE f == BinaryFrame(n, out)
<1>1. f.type = "map" /\ f.at = n /\ f.out = out BY BinaryFrameFields
<1>2. P!Turn(f) = [f EXCEPT !.at = n + 1, !.out = o] BY <1>1 DEF P!Turn
<1>3. f = [type |-> "map", class |-> "binary", depth |-> 1,
           items |-> P!binary_metadata.items, extra |-> 0, at |-> n, out |-> out]
  BY DEF BinaryFrame
<1> HIDE DEF f
<1>4. P!Turn(f) = [type |-> "map", class |-> "binary", depth |-> 1,
                   items |-> P!binary_metadata.items, extra |-> 0, at |-> n + 1, out |-> o]
  BY <1>2, <1>3, FrameUpdate
<1>5. P!Turn(f) = BinaryFrame(n + 1, o) BY <1>4 DEF BinaryFrame
<1> QED BY <1>5 DEF f

LEMMA BinaryCurrent ==
  ASSUME NEW out
  PROVE  /\ P!Current(BinaryFrame(1, out)) = P!KindEntry
         /\ P!Current(BinaryFrame(2, out)) = P!SizeEntry(1)
         /\ P!Current(BinaryFrame(3, out)) = P!HashEntry
         /\ ~P!More(BinaryFrame(4, out))
         /\ \A n \in 1 .. 3 : P!More(BinaryFrame(n, out))
<1>1. ASSUME NEW n
      PROVE  /\ P!Current(BinaryFrame(n, out)) = P!binary_metadata.items[n]
             /\ P!More(BinaryFrame(n, out)) <=> n <= 3
  <2>1. BinaryFrame(n, out).items = P!binary_metadata.items /\ BinaryFrame(n, out).at = n
    BY BinaryFrameFields
  <2> QED BY <2>1, BinaryMetadataItems DEF P!Current, P!More
<1> QED BY <1>1, BinaryMetadataItems

LEMMA BinaryPuts ==
  /\ P!Put(<<>>, P!KindEntry.key, P!Word) = <<P!KindEntry>>
  /\ P!Put(<<P!KindEntry>>, P!SizeEntry(1).key, P!Number(1)) = <<P!KindEntry, P!SizeEntry(1)>>
  /\ P!Put(<<P!KindEntry, P!SizeEntry(1)>>, P!HashEntry.key, P!Digest) =
       <<P!KindEntry, P!SizeEntry(1), P!HashEntry>>
<1>1. P!Put(<<>>, P!KindEntry.key, P!Word) = Append(<<>>, P!KindEntry)
  <2>1. \A i \in DOMAIN <<>> : <<>>[i].key # P!KindEntry.key BY EmptyIsSeq
  <2> QED BY <2>1, EntryRebuilt, PutNew
<1>2. P!Put(<<P!KindEntry>>, P!SizeEntry(1).key, P!Number(1)) =
        Append(<<P!KindEntry>>, P!SizeEntry(1))
  <2>1. \A i \in DOMAIN <<P!KindEntry>> : <<P!KindEntry>>[i].key # P!SizeEntry(1).key
    BY BinaryEntries
  <2> QED BY <2>1, EntryRebuilt, PutNew
<1>3. P!Put(<<P!KindEntry, P!SizeEntry(1)>>, P!HashEntry.key, P!Digest) =
        Append(<<P!KindEntry, P!SizeEntry(1)>>, P!HashEntry)
  <2> DEFINE s == <<P!KindEntry, P!SizeEntry(1)>>
  <2>1. \A i \in DOMAIN s : s[i].key # P!HashEntry.key
    BY BinaryEntries
  <2> HIDE DEF s
  <2>2. P!Put(s, P!HashEntry.key, P!Digest) = Append(s, P!Entry(P!HashEntry.key, P!Digest))
    BY <2>1, PutNew
  <2> QED BY <2>2, EntryRebuilt DEF s
<1> QED BY <1>1, <1>2, <1>3, AppendLiterals

LEMMA BinaryTurn ==
  ASSUME P!LimitAssumption, NEW f \in BinaryFrames, P!More(f)
  PROVE  ~P!Calls(f) /\ P!Turn(f) \in BinaryFrames
<1>0. f.type = "map" BY BinaryFrameFields DEF BinaryFrames
<1>1. CASE f = BinaryFrame(1, <<>>)
  <2>1. P!Current(f) = P!KindEntry BY <1>1, BinaryCurrent
  <2>2. P!Word.type = "word" /\ P!Word.n = 0 BY DEF P!Word, P!Leaf
  <2>3. ~P!Calls(f) BY <1>0, <2>1, <2>2, BinaryEntries DEF P!Calls, P!Containers
  <2>4. P!safe_category(P!Word) = P!Word BY <2>2 DEF P!safe_category, P!Word
  <2>5. P!_sanitize_entry(<<>>, P!KindEntry) = <<P!KindEntry>>
    BY <2>4, BinaryEntries, BinaryPuts DEF P!_sanitize_entry
  <2>6. P!Turn(f) = BinaryFrame(2, <<P!KindEntry>>) BY <1>1, <2>1, <2>5, BinaryAdvance
  <2> QED BY <2>3, <2>6 DEF BinaryFrames
<1>2. CASE f = BinaryFrame(2, <<P!KindEntry>>)
  <2>1. P!Current(f) = P!SizeEntry(1) BY <1>2, BinaryCurrent
  <2>2. P!Number(1).type = "number" /\ P!Number(1).n = 1 BY DEF P!Number, P!Leaf
  <2>3. ~P!Calls(f) BY <1>0, <2>1, <2>2, BinaryEntries DEF P!Calls, P!Containers
  <2>4. P!_sanitize_entry(<<P!KindEntry>>, P!SizeEntry(1)) = <<P!KindEntry, P!SizeEntry(1)>>
    BY <2>2, BinaryEntries, BinaryPuts DEF P!_sanitize_entry, P!_sanitize_metric
  <2>5. P!Turn(f) = BinaryFrame(3, <<P!KindEntry, P!SizeEntry(1)>>)
    BY <1>2, <2>1, <2>4, BinaryAdvance
  <2> QED BY <2>3, <2>5 DEF BinaryFrames
<1>3. CASE f = BinaryFrame(3, <<P!KindEntry, P!SizeEntry(1)>>)
  <2>1. P!Current(f) = P!HashEntry BY <1>3, BinaryCurrent
  <2>2. ~P!Calls(f) BY <1>0, <2>1, BinaryEntries DEF P!Calls, P!Containers
  <2>3. P!_sanitize_entry(<<P!KindEntry, P!SizeEntry(1)>>, P!HashEntry) =
          <<P!KindEntry, P!SizeEntry(1), P!HashEntry>>
    BY BinaryEntries, BinaryPuts DEF P!_sanitize_entry, P!_sanitize_hash
  <2>4. P!Turn(f) = BinaryFrame(4, <<P!KindEntry, P!SizeEntry(1), P!HashEntry>>)
    BY <1>3, <2>1, <2>3, BinaryAdvance
  <2> QED BY <2>2, <2>4 DEF BinaryFrames
<1>4. CASE f = BinaryFrame(4, <<P!KindEntry, P!SizeEntry(1), P!HashEntry>>)
  BY <1>4, BinaryCurrent
<1> QED BY <1>1, <1>2, <1>3, <1>4 DEF BinaryFrames

LEMMA BinaryResult ==
  ASSUME NEW f \in BinaryFrames, ~P!More(f)
  PROVE  /\ P!Result(f) = P!binary_metadata
         /\ P!_is_binary_metadata(P!Result(f))
<1>1. f = BinaryFrame(4, <<P!KindEntry, P!SizeEntry(1), P!HashEntry>>)
  BY BinaryCurrent DEF BinaryFrames
<1>2. P!Result(f) = P!Mapping(<<P!KindEntry, P!SizeEntry(1), P!HashEntry>>)
  BY <1>1, BinaryFrameFields DEF P!Result
<1>3. P!Result(f) = P!binary_metadata BY <1>2 DEF P!binary_metadata
<1>4. DOMAIN P!binary_metadata.items = 1 .. 3 BY BinaryMetadataItems, SeqFacts
<1>5. P!Number(1).type = "number" BY DEF P!Number, P!Leaf
<1>6. P!_is_binary_metadata(P!binary_metadata)
  BY <1>4, <1>5, BinaryMetadataItems, BinaryEntries DEF P!_is_binary_metadata
<1> QED BY <1>3, <1>6

LEMMA BinaryCalled ==
  ASSUME P!LimitAssumption, NEW f, f.type = "map", f.depth = 0,
         P!Current(f).key.class = "binary", P!Current(f).value = P!binary_metadata
  PROVE  P!Called(f) = BinaryFrame(1, <<>>)
<1>1. P!First(P!binary_metadata.items) = P!binary_metadata.items
  BY BinaryMetadataItems DEF P!First, P!LimitAssumption
<1>2. P!Called(f) = P!Frame(P!binary_metadata, "binary", 1)
  BY DEF P!Called
<1>3. P!Frame(P!binary_metadata, "binary", 1) = BinaryFrame(1, <<>>)
  BY <1>1, BinaryMetadataItems DEF P!Frame, BinaryFrame
<1> QED BY <1>2, <1>3

\* StackLengths of a stack.
LEMMA StackLengths ==
  /\ \A n \in Nat \ {0} : n = 1 \/ n > 1
  /\ \A n : n = 1 => ~(n > 1)
  /\ \A n \in Nat : n - 1 > 0 => /\ n # 0 /\ n > 1 /\ n - 1 \in Nat \ {0}
                                 /\ n = (n - 1) + 1
OBVIOUS

\* work' is a stack whose frames but the last are those of work.
LEMMA StackFacts ==
  ASSUME FramesInv, work # <<>>
  PROVE  /\ Len(work) \in Nat \ {0} /\ DOMAIN work = 1 .. Len(work)
         /\ IsFrame(work[1]) /\ Outermost(work[1])
         /\ P!Top = work[Len(work)] /\ IsFrame(P!Top)
<1>1. Len(work) \in Nat /\ DOMAIN work = 1 .. Len(work) /\ Len(work) # 0
  BY SeqFacts DEF FramesInv
<1>2. 1 \in DOMAIN work /\ Len(work) \in DOMAIN work BY <1>1
<1> QED BY <1>1, <1>2 DEF FramesInv, P!Top

\* A turn of the innermost loop.
LEMMA TurnStep ==
  ASSUME FramesInv, work # <<>>, P!More(P!Top), ~P!Calls(P!Top),
         work' = [work EXCEPT ![Len(work)] = P!Turn(P!Top)]
  PROVE  /\ FramesStep
         /\ Len(work') = Len(work)
         /\ Len(work) > 1 => work'[1] = work[1]
         /\ Len(work) = 1 => Advances(work[1], work'[1]) /\ TurnEndsWell(work[1], work'[1].out)
         /\ work'[Len(work)] = P!Turn(P!Top)
<1> DEFINE n == Len(work)
           g == P!Turn(P!Top)
<1>1. /\ n \in Nat \ {0} /\ DOMAIN work = 1 .. n
      /\ IsFrame(work[1]) /\ Outermost(work[1])
      /\ P!Top = work[n] /\ IsFrame(P!Top)
  BY StackFacts
<1>2. /\ IsFrame(g) /\ g.at = P!Top.at + 1 /\ g.type = P!Top.type /\ g.depth = P!Top.depth
      /\ g.items = P!Top.items /\ g.extra = P!Top.extra
      /\ P!Top.type = "map" => g.out = P!_sanitize_entry(P!Top.out, P!Current(P!Top))
  BY <1>1, TurnFrame
<1>3. work \in Seq({work[i] : i \in 1 .. n} \cup {g})
  <2>1. IsSeq(work) BY DEF FramesInv
  <2> QED BY <2>1 DEF IsSeq
<1>w. work' = [work EXCEPT ![n] = g] OBVIOUS
<1> HIDE DEF n, g
<1>4. work' \in Seq({work[i] : i \in 1 .. n} \cup {g}) /\ Len(work') = n
  BY <1>1, <1>3, <1>w DEF n
<1>5. IsSeq(work') /\ DOMAIN work' = 1 .. n BY <1>4, SeqIsSeq, SeqFacts
<1>6. work'[n] = g /\ \A i \in 1 .. n : i # n => work'[i] = work[i]
  BY <1>1, <1>w
<1>7. \A i \in DOMAIN work' : IsFrame(work'[i]) BY <1>1, <1>2, <1>5, <1>6 DEF FramesInv
<1>8. work' # <<>> BY <1>1, <1>4, <1>5, SeqFacts
<1>9. CASE n = 1
  <2>1. P!Top = work[1] /\ work'[1] = g BY <1>1, <1>6, <1>9
  <2>2. Advances(work[1], g) BY <1>2, <2>1 DEF Advances
  <2>3. g.out = P!_sanitize_entry(work[1].out, P!Current(work[1]))
    BY <1>1, <1>2, <2>1 DEF Outermost
  <2>4. TurnEnds(work[1], g.out) /\ TurnEndsWell(work[1], g.out)
    BY <2>1, <2>3 DEF TurnEnds, TurnEndsWell
  <2>5. Outermost(g) BY <1>1, <2>2, <2>4, OutermostAdvances
  <2>6. ~(Len(work') > 1)
    <3>1. Len(work') = 1 BY <1>4, <1>9
    <3> QED BY <3>1, StackLengths
  <2>7. FramesInv' BY <1>5, <1>7, <2>1, <2>5, <2>6 DEF FramesInv
  <2> QED BY <1>4, <1>6, <1>8, <1>9, <2>1, <2>2, <2>4, <2>7 DEF FramesStep, n, g
<1>10. CASE n # 1
  <2>1. work'[1] = work[1] /\ n > 1 BY <1>1, <1>6, <1>10
  <2>2. P!More(work[1]) /\ P!Calls(work[1]) BY <2>1 DEF FramesInv, n
  <2>3. FramesInv' BY <1>1, <1>5, <1>7, <2>1, <2>2 DEF FramesInv
  <2> QED BY <1>4, <1>6, <1>8, <1>10, <2>1, <2>3 DEF FramesStep, n, g
<1> QED BY <1>9, <1>10

LEMMA MappingStep ==
  ASSUME P!LimitAssumption, FramesInv, P!_sanitize_mapping
  PROVE  /\ FramesStep
         /\ BinaryInv => BinaryStep
<1>1. /\ FramesStep
      /\ Len(work') = Len(work)
      /\ Len(work) > 1 => work'[1] = work[1]
      /\ Len(work) = 1 => Advances(work[1], work'[1]) /\ TurnEndsWell(work[1], work'[1].out)
      /\ work'[Len(work)] = P!Turn(P!Top)
  BY TurnStep DEF P!_sanitize_mapping
<1>2. work # <<>> /\ P!More(P!Top) BY DEF P!_sanitize_mapping
<1>3. Len(work) \in Nat \ {0} /\ P!Top = work[Len(work)] BY <1>2, StackFacts
<1>4. ASSUME BinaryInv PROVE BinaryStep
  <2>1. CASE Len(work) = 1
    <3>1. BinaryInv' BY <1>1, <2>1 DEF BinaryInv
    <3> QED BY <1>1, <2>1, <3>1 DEF BinaryStep
  <2>2. CASE Len(work) > 1
    <3>1. work'[1] = work[1] BY <1>1, <2>2
    <3>2. ASSUME P!Current(work[1]).key.class = "binary"
          PROVE  Len(work') = 2 /\ work'[2] \in BinaryFrames
      <4>1. Len(work) = 2 /\ work[2] \in BinaryFrames BY <1>4, <2>2, <3>2 DEF BinaryInv
      <4>2. P!Turn(work[2]) \in BinaryFrames BY <1>2, <1>3, <4>1, BinaryTurn
      <4> QED BY <1>1, <1>3, <4>1, <4>2
    <3>3. BinaryInv' BY <3>1, <3>2 DEF BinaryInv
    <3> QED BY <3>1, <3>3 DEF BinaryStep
  <2>3. Len(work) \in Nat \ {0} BY <1>3
  <2>4. Len(work) = 1 \/ Len(work) > 1 BY <2>3, StackLengths
  <2> QED BY <2>1, <2>2, <2>4
<1> QED BY <1>1, <1>4

LEMMA ContainerStep ==
  ASSUME P!LimitAssumption, FramesInv, P!_sanitize_container
  PROVE  /\ FramesStep
         /\ BinaryInv => BinaryStep
<1>1. /\ FramesStep
      /\ Len(work') = Len(work)
      /\ Len(work) > 1 => work'[1] = work[1]
  BY TurnStep DEF P!_sanitize_container
<1>2. work # <<>> /\ P!Top.type = "list" BY DEF P!_sanitize_container
<1>3. /\ Len(work) \in Nat \ {0} /\ P!Top = work[Len(work)]
      /\ work[1].type = "map"
  BY <1>2, StackFacts DEF Outermost
<1>4. Len(work) > 1 BY <1>2, <1>3
<1>5. ASSUME BinaryInv PROVE BinaryStep
  <2>1. P!Current(work[1]).key.class # "binary"
    <3>1. \A f \in BinaryFrames : f.type = "map" BY BinaryFrameFields DEF BinaryFrames
    <3> QED BY <1>2, <1>3, <1>4, <1>5, <3>1 DEF BinaryInv
  <2>2. BinaryInv' BY <1>1, <1>4, <2>1 DEF BinaryInv
  <2> QED BY <1>1, <1>4, <2>2 DEF BinaryStep
<1> QED BY <1>1, <1>5

LEMMA CallStep ==
  ASSUME P!LimitAssumption, FramesInv, P!CallNested
  PROVE  /\ FramesStep
         /\ BinaryInv /\ CurrentIsPlain => BinaryStep
<1> DEFINE n == Len(work)
           g == P!Called(P!Top)
<1>1. work # <<>> /\ P!More(P!Top) /\ P!Calls(P!Top) /\ work' = Append(work, g)
  BY DEF P!CallNested
<1>2. /\ n \in Nat \ {0} /\ DOMAIN work = 1 .. n
      /\ IsFrame(work[1]) /\ Outermost(work[1])
      /\ P!Top = work[n] /\ IsFrame(P!Top)
  BY <1>1, StackFacts
<1>3. IsFrame(g) BY FrameIsFrame DEF P!Called
<1> HIDE DEF g
<1>4. /\ IsSeq(work') /\ Len(work') = n + 1
      /\ \A i \in 1 .. n : work'[i] = work[i]
      /\ work'[n + 1] = g
  <2>1. IsSeq(work) BY DEF FramesInv
  <2> QED BY <1>1, <2>1, AppendFacts
<1> HIDE DEF n
<1>5. DOMAIN work' = 1 .. n + 1 BY <1>4, SeqFacts
<1>6. \A i \in DOMAIN work' : IsFrame(work'[i]) BY <1>2, <1>3, <1>4, <1>5 DEF FramesInv
<1>7. work' # <<>> BY <1>2, <1>4, SeqFacts
<1>8. work'[1] = work[1] BY <1>2, <1>4
<1>9. P!More(work[1]) /\ P!Calls(work[1])
  <2>1. CASE n = 1
    BY <1>1, <1>2, <2>1
  <2>2. CASE n > 1
    BY <2>2 DEF FramesInv, n
  <2> QED BY <1>2, <2>1, <2>2
<1>10. FramesInv' BY <1>2, <1>4, <1>6, <1>8, <1>9 DEF FramesInv
<1>11. ASSUME BinaryInv, CurrentIsPlain PROVE BinaryStep
  <2>1. ASSUME P!Current(work[1]).key.class = "binary"
        PROVE  Len(work') = 2 /\ work'[2] \in BinaryFrames
    <3>1. CASE n > 1
      <4>1. n = 2 /\ work[2] \in BinaryFrames BY <1>11, <2>1, <3>1 DEF BinaryInv, n
      <4> QED BY <1>1, <1>2, <4>1, BinaryTurn
    <3>2. CASE n = 1
      <4>1. P!Top = work[1] /\ work[1].type = "map" /\ work[1].depth = 0
        BY <1>2, <3>2 DEF Outermost
      <4>2. P!Current(work[1]).value = P!binary_metadata
        BY <1>9, <1>11, <2>1, <4>1, CallsAreKept DEF CurrentIsPlain, Plain
      <4>3. g = BinaryFrame(1, <<>>) BY <2>1, <4>1, <4>2, BinaryCalled DEF g
      <4> QED BY <1>4, <3>2, <4>3 DEF BinaryFrames
    <3> QED BY <1>2, <3>1, <3>2
  <2>2. BinaryInv' BY <1>8, <2>1 DEF BinaryInv
  <2> QED BY <1>8, <2>2 DEF BinaryStep
<1> QED BY <1>1, <1>7, <1>8, <1>10, <1>11 DEF FramesStep

LEMMA ReturnStep ==
  ASSUME P!LimitAssumption, FramesInv, P!ReturnNested
  PROVE  /\ FramesStep
         /\ BinaryInv => BinaryStep
<1> DEFINE c == Len(work) - 1
           v == P!Result(P!Top)
           g == P!Return(work[c], v)
<1>1. c > 0 /\ ~P!More(P!Top)
      /\ work' = [i \in 1 .. c |-> IF i = c THEN P!Return(work[i], v) ELSE work[i]]
  BY DEF P!ReturnNested
<1>2. Len(work) \in Nat /\ (work = <<>> <=> Len(work) = 0) BY SeqFacts DEF FramesInv
<1>3. work # <<>> /\ Len(work) > 1 /\ c \in Nat \ {0} /\ Len(work) = c + 1
  <2>1. Len(work) - 1 > 0 BY <1>1
  <2> QED BY <1>2, <2>1, StackLengths
<1>4. /\ DOMAIN work = 1 .. Len(work)
      /\ IsFrame(work[1]) /\ Outermost(work[1])
      /\ P!Top = work[Len(work)] /\ IsFrame(P!Top)
  BY <1>3, StackFacts
<1>5. SafeValue(v) BY <1>4, ResultSafe DEF IsFrame
<1>6. IsFrame(work[c]) BY <1>3, <1>4 DEF FramesInv
<1>7. IsFrame(g) BY <1>5, <1>6, ReturnFrame
<1>8. work' = [i \in 1 .. c |-> IF i = c THEN g ELSE work[i]] BY <1>1
<1> HIDE DEF c, v, g
<1>9. work' \in Seq({work[i] : i \in 1 .. c} \cup {g}) /\ Len(work') = c
  BY <1>3, <1>8
<1>10. IsSeq(work') /\ DOMAIN work' = 1 .. c BY <1>9, SeqIsSeq, SeqFacts
<1>11. work'[c] = g /\ \A i \in 1 .. c : i # c => work'[i] = work[i] BY <1>3, <1>8
<1>12. \A i \in DOMAIN work' : IsFrame(work'[i])
  BY <1>3, <1>4, <1>7, <1>10, <1>11 DEF FramesInv
<1>13. work' # <<>> BY <1>3, <1>9, <1>10, SeqFacts
<1>14. P!More(work[1]) /\ P!Calls(work[1]) BY <1>3 DEF FramesInv
<1>15. CASE c = 1
  <2>1. work'[1] = g /\ g = P!Return(work[1], v) BY <1>11, <1>15 DEF g
  <2>2. work[1].type = "map" BY <1>4 DEF Outermost
  <2>3. /\ g.at = work[1].at + 1 /\ g.type = work[1].type /\ g.depth = work[1].depth
        /\ g.items = work[1].items /\ g.extra = work[1].extra
        /\ g.out = IF P!Current(work[1]).key.class = "binary" /\ ~P!_is_binary_metadata(v)
                   THEN P!_store_redacted(work[1].out, P!Current(work[1]).key,
                                          P!Current(work[1]).value)
                   ELSE P!Put(work[1].out, P!Current(work[1]).key, v)
    BY <1>4, <1>5, <2>1, <2>2, ReturnFrame
  <2>4. Advances(work[1], g) BY <1>14, <2>3 DEF Advances
  <2>5. TurnEnds(work[1], g.out) BY <1>14, <2>3 DEF TurnEnds
  <2>6. Outermost(g) BY <1>4, <2>4, <2>5, OutermostAdvances
  <2>7. ~(Len(work') > 1) BY <1>9, <1>15
  <2>8. FramesInv' BY <1>10, <1>12, <2>1, <2>6, <2>7 DEF FramesInv
  <2>9. FramesStep BY <1>3, <1>13, <2>1, <2>4, <2>5, <2>8 DEF FramesStep
  <2>10. ASSUME BinaryInv PROVE BinaryStep
    <3>1. ASSUME P!Current(work[1]).key.class = "binary"
          PROVE  v = P!binary_metadata /\ P!_is_binary_metadata(v)
      <4>1. work[2] \in BinaryFrames BY <1>3, <2>10, <3>1 DEF BinaryInv
      <4>2. P!Top = work[2] BY <1>3, <1>4, <1>15
      <4> QED BY <1>1, <4>1, <4>2, BinaryResult DEF v
    <3>2. TurnEndsWell(work[1], g.out) BY <1>14, <2>3, <3>1 DEF TurnEndsWell
    <3>3. BinaryInv' BY <2>7 DEF BinaryInv
    <3> QED BY <2>1, <2>4, <3>2, <3>3 DEF BinaryStep
  <2> QED BY <2>9, <2>10
<1>16. CASE c # 1
  <2>1. c > 1 /\ work'[1] = work[1] BY <1>3, <1>11, <1>16
  <2>2. FramesInv' BY <1>4, <1>10, <1>12, <1>14, <2>1 DEF FramesInv
  <2>3. FramesStep BY <1>3, <1>13, <2>1, <2>2 DEF FramesStep
  <2>4. ASSUME BinaryInv PROVE BinaryStep
    <3>1. P!Current(work[1]).key.class # "binary" BY <1>3, <2>1, <2>4 DEF BinaryInv
    <3>2. BinaryInv' BY <2>1, <3>1 DEF BinaryInv
    <3> QED BY <2>1, <3>2 DEF BinaryStep
  <2> QED BY <2>3, <2>4
<1> QED BY <1>15, <1>16

-----------------------------------------------------------------------------
\* One redaction of an event's metadata.

\* It starts with nothing redacted.
LEMMA StartFacts ==
  ASSUME P!LimitAssumption, NEW s, IsSeq(s), NEW w, w = P!redact_trace_mapping(s)
  PROVE  /\ IsSeq(w) /\ Len(w) = 1 /\ w # <<>>
         /\ \A i \in DOMAIN w : IsFrame(w[i])
         /\ Outermost(w[1])
         /\ w[1].items = P!First(s) /\ w[1].out = <<>> /\ w[1].at = 1
         /\ w[1].extra = Len(s) - Len(P!First(s))
<1> DEFINE f == P!Frame(P!Mapping(s), "container", 0)
<1>1. /\ f.type = "map" /\ f.depth = 0 /\ f.items = P!First(s) /\ f.out = <<>> /\ f.at = 1
      /\ f.extra = Len(s) - Len(P!First(s))
  BY DEF P!Frame, P!Mapping
<1>2. IsFrame(f) BY FrameIsFrame
<1>3. w = <<f>> BY DEF P!redact_trace_mapping
<1> HIDE DEF f
<1>4. <<f>> \in Seq({f}) /\ Len(<<f>>) = 1 /\ <<f>>[1] = f /\ DOMAIN <<f>> = {1} OBVIOUS
<1>5. IsSeq(w) BY <1>3, <1>4, SeqIsSeq
<1>6. MaxItems \in Nat BY DEF P!LimitAssumption
<1>7. /\ IsSeq(P!First(s)) /\ Len(P!First(s)) <= MaxItems /\ Len(P!First(s)) <= Len(s)
      /\ Len(P!First(s)) \in Nat /\ Len(s) \in Nat
  BY <1>6, FirstFacts, SeqFacts
<1>8. Len(s) - Len(P!First(s)) \in Nat /\ 1 <= Len(P!First(s)) + 1 BY <1>7
<1>9. DistinctKeys(<<>>) BY EmptyIsSeq DEF DistinctKeys
<1>10. Outermost(f) BY <1>1, <1>7, <1>8, <1>9 DEF Outermost
<1>11. w # <<>> BY <1>3
<1> QED BY <1>1, <1>2, <1>3, <1>4, <1>5, <1>10, <1>11

\* It ends with the entries redacted, and how many were left out.
LEMMA ResultFacts ==
  ASSUME P!LimitAssumption, NEW f, IsFrame(f), Outermost(f),
         NEW r, r = P!Result(f).items
  PROVE  /\ SafeItems(r) /\ IsSeq(r) /\ DistinctKeys(r)
         /\ f.extra > 0 => r = P!Put(f.out, P!TruncatedKey, P!Number(f.extra))
         /\ ~(f.extra > 0) => r = f.out
         /\ HeadKept(f.out) => HeadKept(r)
         /\ f.out # <<>> => r # <<>>
         /\ AllMild(f.out) => AllMild(r)
         /\ AllStable(f.out) => AllStable(r)
         /\ AllKept(f.out) => AllKept(r)
<1> DEFINE p == P!Put(f.out, P!TruncatedKey, P!Number(f.extra))
<1>1. SafeItems(r) /\ IsSeq(r) /\ IsSeq(f.out) BY ResultSafe DEF IsFrame, SafeItems
<1>2. r = IF f.extra > 0 THEN p ELSE f.out
  BY EntryFields DEF P!Result, Outermost, P!Mapping
<1>3. P!Kept(P!TruncatedKey)
  <2>1. P!TruncatedKey.class = "metric" /\ P!TruncatedKey.name = <<"truncated_count">>
    BY DEF P!TruncatedKey, P!Key
  <2>2. <<"truncated_count">> \notin TooLong BY DEF P!LimitAssumption
  <2> QED BY <2>1, <2>2 DEF P!Kept, P!Classes
<1>4. Stable(P!Entry(P!TruncatedKey, P!Number(f.extra)))
  <2>1. P!TruncatedKey.class = "metric" BY DEF P!TruncatedKey, P!Key
  <2>2. P!Number(f.extra).type = "number" BY DEF P!Number, P!Leaf
  <2> QED BY <2>1, <2>2, EntryFields DEF Stable
<1>5. CASE ~(f.extra > 0)
  BY <1>1, <1>2, <1>5 DEF Outermost
<1>6. CASE f.extra > 0
  <2>1. r = p BY <1>2, <1>6
  <2>2. /\ Len(p) >= 1 /\ Len(f.out) <= Len(p) /\ Len(p) <= Len(f.out) + 1
        /\ \A i \in 1 .. Len(f.out) : p[i].key = f.out[i].key
        /\ Len(p) > Len(f.out) => p[Len(f.out) + 1].key = P!TruncatedKey
        /\ \A i \in DOMAIN p : \/ p[i] = P!Entry(P!TruncatedKey, P!Number(f.extra))
                               \/ i \in DOMAIN f.out /\ p[i] = f.out[i]
        /\ DistinctKeys(f.out) => DistinctKeys(p)
    <3>1. IsSeq(f.out) BY <1>1
    <3> QED BY <3>1, PutFacts
  <2> HIDE DEF p
  <2>3. DistinctKeys(r) BY <2>1, <2>2 DEF Outermost
  <2>4. AllMild(f.out) => AllMild(r) BY <1>4, <2>1, <2>2, StableIsMild DEF AllMild
  <2>5. AllStable(f.out) => AllStable(r) BY <1>4, <2>1, <2>2 DEF AllStable
  <2>6. AllKept(f.out) => AllKept(r) BY <1>3, <2>1, <2>2, EntryFields DEF AllKept
  <2>7. Len(f.out) \in Nat /\ Len(r) \in Nat /\ (f.out = <<>> <=> Len(f.out) = 0)
        /\ (r = <<>> <=> Len(r) = 0)
    BY <1>1, SeqFacts
  <2>8. r # <<>>
    <3>1. \A n \in Nat : n >= 1 => n # 0 OBVIOUS
    <3> QED BY <2>1, <2>2, <2>7, <3>1
  <2>9. HeadKept(f.out) => HeadKept(r)
    <3>1. CASE Len(f.out) = 0
      <4>1. r[1].key = P!TruncatedKey BY <2>1, <2>2, <3>1
      <4> QED BY <4>1, <1>3 DEF HeadKept
    <3>2. CASE Len(f.out) # 0
      <4>1. Len(f.out) \in Nat \ {0} BY <2>7, <3>2
      <4>2. \A n \in Nat \ {0} : 1 \in 1 .. n OBVIOUS
      <4>3. r[1].key = f.out[1].key BY <2>1, <2>2, <4>1, <4>2
      <4> QED BY <2>7, <3>2, <4>3 DEF HeadKept
    <3> QED BY <3>1, <3>2
  <2> QED BY <1>1, <1>6, <2>1, <2>3, <2>4, <2>5, <2>6, <2>8, <2>9 DEF p
<1> QED BY <1>5, <1>6

\* A turn keeps the head.
LEMMA HeadTurn ==
  ASSUME NEW f, IsFrame(f), Outermost(f), NEW g, IsFrame(g),
         Advances(f, g), TurnEnds(f, g.out), HeadKept(f.out)
  PROVE  /\ HeadKept(g.out)
         /\ WriteHead(f) => WriteHead(g)
<1> DEFINE e == P!Current(f)
<1>1. Reduces(f.out, e, g.out) BY TurnReduces DEF Outermost
<1>2. IsSeq(f.out) /\ IsSeq(g.out) BY DEF IsFrame, SafeItems
<1> HIDE DEF e
<1>3. /\ Len(f.out) <= Len(g.out)
      /\ \A i \in 1 .. Len(f.out) : g.out[i].key = f.out[i].key
      /\ P!Kept(e.key) => Len(g.out) >= 1 /\ (Len(f.out) = 0 => g.out[1].key = e.key)
      /\ ~P!Kept(e.key) => g.out = f.out
  BY <1>1, <1>2, ReducesFacts
<1>4. /\ Len(f.out) \in Nat /\ (f.out = <<>> <=> Len(f.out) = 0)
      /\ Len(g.out) \in Nat /\ (g.out = <<>> <=> Len(g.out) = 0)
  BY <1>2, SeqFacts
<1>a. /\ \A n \in Nat \ {0} : 1 \in 1 .. n
      /\ \A m, n \in Nat : m # 0 /\ m <= n => n # 0
      /\ \A n \in Nat : n >= 1 => n # 0
  OBVIOUS
<1>5. f.out # <<>> => g.out # <<>> /\ g.out[1].key = f.out[1].key
  <2> SUFFICES ASSUME f.out # <<>> PROVE g.out # <<>> /\ g.out[1].key = f.out[1].key
    OBVIOUS
  <2>1. Len(f.out) \in Nat \ {0} BY <1>4
  <2>2. Len(g.out) # 0 BY <1>3, <1>4, <1>a
  <2> QED BY <1>3, <1>4, <1>a, <2>1, <2>2
<1>6. HeadKept(g.out)
  <2>1. CASE f.out # <<>>
    BY <1>5, <2>1 DEF HeadKept
  <2>2. CASE f.out = <<>>
    BY <1>3, <1>4, <2>2 DEF HeadKept
  <2> QED BY <2>1, <2>2
<1>7. ASSUME WriteHead(f) PROVE WriteHead(g)
  <2>1. g.items = f.items /\ g.at = f.at + 1 BY DEF Advances
  <2>2. g.out # <<>>
    <3>1. CASE f.at > 1
      BY <1>5, <1>7, <3>1 DEF WriteHead
    <3>2. CASE ~(f.at > 1)
      <4>1. f.at = 1 BY <3>2 DEF IsFrame
      <4>2. P!Kept(e.key) BY <1>7, <4>1 DEF WriteHead, HeadKept, e, P!Current
      <4> QED BY <1>3, <1>4, <1>a, <4>2
    <3> QED BY <3>1, <3>2
  <2> QED BY <1>7, <2>1, <2>2 DEF WriteHead
<1> QED BY <1>6, <1>7

LEMMA GradesReduce == \A s, e, t : Grades(s, e, t) => Reduces(s, e, t)
BY DEF Grades, Reduces

\* A turn keeps the grade of a redaction.
LEMMA GradeTurn ==
  ASSUME P!LimitAssumption, NEW f, IsFrame(f), Outermost(f), NEW g, IsFrame(g),
         Advances(f, g), Grades(f.out, P!Current(f), g.out)
  PROVE  /\ Building(f) => Building(g)
         /\ FirstWrite(f) => FirstWrite(g)
         /\ SecondWrite(f) => SecondWrite(g)
         /\ \A s : Settled(s) /\ Reading(f, s) => Reading(g, s)
<1> DEFINE e == P!Current(f)
<1>1. IsSeq(f.out) /\ IsSeq(g.out) BY DEF IsFrame, SafeItems
<1>2. f.at \in Nat \ {0} /\ f.at <= Len(f.items) /\ Len(f.items) \in Nat
      /\ DOMAIN f.items = 1 .. Len(f.items) /\ f.at \in DOMAIN f.items /\ e = f.items[f.at]
  <2>1. f.at \in Nat \ {0} /\ f.at <= Len(f.items) BY DEF IsFrame, Advances, P!More
  <2>2. Len(f.items) \in Nat /\ DOMAIN f.items = 1 .. Len(f.items)
    BY SeqFacts DEF Outermost
  <2> QED BY <2>1, <2>2 DEF P!Current
<1>3. g.items = f.items /\ g.at = f.at + 1 /\ g.extra = f.extra BY DEF Advances
<1>4. Grades(f.out, e, g.out) OBVIOUS
<1> HIDE DEF e
<1>5. /\ AllMild(f.out) => AllMild(g.out)
      /\ AllStable(f.out) /\ Mild(e) => AllStable(g.out)
      /\ Stable(e) /\ AllKept(f.out) => AllKept(g.out)
      /\ Stable(e) => Len(g.out) <= Len(f.out) + 1
      /\ /\ Stable(e) /\ P!Kept(e.key)
         /\ \A i \in DOMAIN f.out : f.out[i].key # e.key
         => Len(g.out) = Len(f.out) + 1 /\ g.out[Len(f.out) + 1].key = e.key
  BY <1>1, <1>4, GradesFacts
<1>6. Building(f) => Building(g) BY <1>3, <1>5 DEF Building
<1>7. FirstWrite(f) => FirstWrite(g) BY <1>2, <1>3, <1>5 DEF FirstWrite, AllMild
<1>8. Len(f.out) \in Nat /\ DOMAIN f.out = 1 .. Len(f.out) /\ Len(g.out) \in Nat
  BY <1>1, SeqFacts
<1>9. ASSUME SecondWrite(f) PROVE SecondWrite(g)
  <2>1. Stable(e) /\ Mild(e) BY <1>2, <1>9, StableIsMild DEF SecondWrite, AllStable
  <2>2. Len(g.out) <= Len(f.out) + 1 BY <1>5, <2>1
  <2>3. Len(g.out) < g.at BY <1>2, <1>3, <1>8, <1>9, <2>2 DEF SecondWrite
  <2> QED BY <1>3, <1>5, <1>9, <2>1, <2>3 DEF SecondWrite
<1>10. ASSUME NEW s, Settled(s), Reading(f, s) PROVE Reading(g, s)
  <2>1. Stable(e) /\ Mild(e) BY <1>2, <1>10, StableIsMild DEF Reading, AllStable
  <2>2. IsSeq(s) /\ MaxItems \in Nat BY <1>10 DEF Settled, P!LimitAssumption
  <2>3. /\ Len(P!First(s)) <= Len(s) /\ IsSeq(P!First(s))
        /\ \A i \in 1 .. Len(P!First(s)) : P!First(s)[i] = s[i]
    BY <2>2, FirstFacts
  <2>4. Len(s) \in Nat /\ DOMAIN s = 1 .. Len(s) BY <2>2, SeqFacts
  <2>5. Len(f.items) = Len(P!First(s)) /\ f.items[f.at].key = P!First(s)[f.at].key
    BY <1>2, <1>10 DEF Reading, SameKeys
  <2>6. f.at \in 1 .. Len(s) /\ e.key = s[f.at].key BY <1>2, <2>3, <2>4, <2>5
  <2>7. P!Kept(e.key) BY <1>10, <2>4, <2>6 DEF Settled, AllKept
  <2>8. Len(f.out) = f.at - 1 /\ \A i \in 1 .. Len(f.out) : f.out[i].key = s[i].key
    BY <1>10 DEF Reading
  <2>9. ASSUME NEW i \in DOMAIN f.out PROVE f.out[i].key # e.key
    <3>1. i \in 1 .. Len(f.out) /\ i \in 1 .. Len(s) /\ i # f.at BY <1>2, <1>8, <2>4, <2>6, <2>8
    <3>2. f.out[i].key = s[i].key BY <2>8, <3>1
    <3>3. s[i].key # s[f.at].key BY <1>10, <2>4, <2>6, <3>1 DEF Settled, DistinctKeys
    <3> QED BY <2>6, <3>2, <3>3
  <2>10. Len(g.out) = Len(f.out) + 1 /\ g.out[Len(f.out) + 1].key = e.key
    BY <1>5, <2>1, <2>7, <2>9
  <2>11. \A i \in 1 .. Len(f.out) : g.out[i].key = f.out[i].key
    BY <1>1, <1>4, GradesReduce, ReducesFacts
  <2>12. Len(g.out) = g.at - 1 BY <1>2, <1>3, <2>8, <2>10
  <2>13. ASSUME NEW i \in 1 .. Len(g.out) PROVE g.out[i].key = s[i].key
    <3>1. CASE i = f.at
      BY <1>2, <2>6, <2>8, <2>10, <3>1
    <3>2. CASE i # f.at
      <4>1. i \in 1 .. Len(f.out) BY <1>2, <1>8, <2>8, <2>10, <3>2
      <4> QED BY <2>8, <2>11, <4>1
    <3> QED BY <3>1, <3>2
  <2>14. AllStable(g.out) BY <1>5, <1>10, <2>1 DEF Reading
  <2> QED BY <1>3, <1>10, <2>12, <2>13, <2>14 DEF Reading
<1> QED BY <1>6, <1>7, <1>9, <1>10

-----------------------------------------------------------------------------
\* The steps of an event.

LEMMA PrivacyInitial ==
  ASSUME P!RawAssumption, P!Init
  PROVE  PrivacyInv
<1> USE DEF P!Init
<1>1. IsSeq(<<>>) /\ DOMAIN <<>> = {} BY EmptyIsSeq
<1>2. Len(work) = 0 /\ ~(Len(work) > 1) BY EmptyIsSeq
<1>3. FramesInv BY <1>1, <1>2 DEF FramesInv
<1>4. SafeInv BY <1>1 DEF SafeInv, SafeItems
<1> QED BY <1>2, <1>3, <1>4 DEF PrivacyInv, StagesInv, HeadInv, GradeInv, BinaryInv

\* A step of a redaction.
LEMMA RedactionSafe ==
  ASSUME P!LimitAssumption, PrivacyInv, UNCHANGED P!eventVars, FramesStep,
         BinaryInv /\ CurrentIsPlain => BinaryStep
  PROVE  PrivacyInv'
<1> DEFINE f == work[1]
           g == work'[1]
<1>0. /\ raw' = raw /\ life' = life /\ field' = field /\ stored' = stored
      /\ changed' = changed /\ passes' = passes
  BY DEF P!eventVars
<1>1. /\ work # <<>> /\ work' # <<>> /\ FramesInv /\ FramesInv'
      /\ g = f \/ (Advances(f, g) /\ TurnEnds(f, g.out))
  BY DEF FramesStep, PrivacyInv
<1>2. /\ IsFrame(f) /\ Outermost(f)
  BY <1>1, StackFacts
<1>3. IsFrame(g)
  <2>1. IsSeq(work') /\ \A i \in DOMAIN work' : IsFrame(work'[i]) BY <1>1 DEF FramesInv
  <2>2. Len(work') \in Nat /\ DOMAIN work' = 1 .. Len(work') /\ Len(work') # 0
    BY <1>1, <2>1, SeqFacts
  <2>3. \A n \in Nat : n # 0 => 1 \in 1 .. n OBVIOUS
  <2> QED BY <2>1, <2>2, <2>3
<1>4. StagesInv' BY <1>0, <1>1 DEF PrivacyInv, StagesInv
<1>5. SafeInv' BY <1>0 DEF PrivacyInv, SafeInv
<1>6. ASSUME ~changed PROVE HeadInv'
  <2>1. HeadInv BY <1>6 DEF PrivacyInv
  <2>2. HeadKept(f.out) /\ (life = "writing" => WriteHead(f)) BY <1>1, <2>1 DEF HeadInv
  <2>3. HeadKept(g.out) /\ (life = "writing" => WriteHead(g))
    BY <1>1, <1>2, <1>3, <2>2, HeadTurn
  <2> HIDE DEF f, g
  <2> QED BY <1>0, <2>1, <2>3 DEF HeadInv, g
<1>7. ASSUME ~changed, P!PlainBinary(raw) PROVE GradeInv' /\ BinaryInv'
  <2>1. GradeInv /\ BinaryInv BY <1>7 DEF PrivacyInv
  <2>2. life \in {"building", "writing", "reading"}
        /\ (life = "building" => passes = 1)
        /\ (life \in {"writing", "reading"} => passes \in {1, 2})
    BY <1>1 DEF PrivacyInv, StagesInv
  <2>3. /\ life = "building" => Building(f)
        /\ life = "writing" /\ passes = 2 => FirstWrite(f)
        /\ life = "writing" /\ passes = 1 => SecondWrite(f)
        /\ life = "reading" => Reading(f, stored) /\ Settled(stored)
    BY <1>1, <2>1 DEF GradeInv
  <2>4. \A i \in DOMAIN f.items : Plain(f.items[i])
    BY <2>2, <2>3, StableIsMild, MildIsPlain
    DEF Building, FirstWrite, SecondWrite, Reading, AllPlain, AllMild, AllStable
  <2>5. ASSUME P!More(f) PROVE Plain(P!Current(f))
    <3>1. f.at \in Nat \ {0} /\ f.at <= Len(f.items) BY <1>2, <2>5 DEF IsFrame, P!More
    <3>2. Len(f.items) \in Nat /\ DOMAIN f.items = 1 .. Len(f.items)
      BY <1>2, SeqFacts DEF Outermost
    <3> QED BY <2>4, <3>1, <3>2 DEF P!Current
  <2>6. BinaryInv' /\ (g = f \/ (Advances(f, g) /\ TurnEndsWell(f, g.out)))
    BY <2>1, <2>5 DEF CurrentIsPlain, BinaryStep
  <2>7. ASSUME Advances(f, g), TurnEndsWell(f, g.out) PROVE Grades(f.out, P!Current(f), g.out)
    BY <1>2, <2>5, <2>7, TurnGrades DEF Advances, Outermost
  <2>8. /\ life = "building" => Building(g)
        /\ life = "writing" /\ passes = 2 => FirstWrite(g)
        /\ life = "writing" /\ passes = 1 => SecondWrite(g)
        /\ life = "reading" => Reading(g, stored)
    <3>1. CASE g = f
      BY <2>3, <3>1
    <3>2. CASE Advances(f, g) /\ TurnEndsWell(f, g.out)
      <4>1. /\ Building(f) => Building(g)
            /\ FirstWrite(f) => FirstWrite(g)
            /\ SecondWrite(f) => SecondWrite(g)
            /\ \A s : Settled(s) /\ Reading(f, s) => Reading(g, s)
        BY <1>2, <1>3, <2>7, <3>2, GradeTurn
      <4> HIDE DEF f, g
      <4> QED BY <2>3, <4>1
    <3> QED BY <2>6, <3>1, <3>2
  <2> HIDE DEF f, g
  <2>9. GradeInv' BY <1>0, <2>1, <2>8 DEF GradeInv, g
  <2> QED BY <2>6, <2>9
<1>8. raw' \in RawMappings BY <1>0 DEF PrivacyInv
<1>9. (~changed => HeadInv)' BY <1>0, <1>6
<1>10. (~changed /\ P!PlainBinary(raw) => GradeInv /\ BinaryInv)'
  BY <1>0, <1>7
<1> QED BY <1>1, <1>4, <1>5, <1>8, <1>9, <1>10 DEF PrivacyInv

\* A redaction of s begins.
LEMMA BeginsFrames ==
  ASSUME P!LimitAssumption, NEW s, IsSeq(s), work' = P!redact_trace_mapping(s)
  PROVE  /\ FramesInv' /\ BinaryInv' /\ work' # <<>>
         /\ work'[1].items = P!First(s) /\ work'[1].out = <<>> /\ work'[1].at = 1
         /\ work'[1].extra = Len(s) - Len(P!First(s))
<1>1. /\ IsSeq(work') /\ Len(work') = 1 /\ work' # <<>>
      /\ \A i \in DOMAIN work' : IsFrame(work'[i])
      /\ Outermost(work'[1])
      /\ work'[1].items = P!First(s) /\ work'[1].out = <<>> /\ work'[1].at = 1
      /\ work'[1].extra = Len(s) - Len(P!First(s))
  BY StartFacts
<1>2. ~(Len(work') > 1) BY <1>1, StackLengths
<1> QED BY <1>1, <1>2 DEF FramesInv, BinaryInv

LEMMA NothingRedacted ==
  AllMild(<<>>) /\ AllStable(<<>>) /\ AllKept(<<>>) /\ HeadKept(<<>>)
BY EmptyIsSeq DEF AllMild, AllStable, AllKept, HeadKept

LEMMA FirstKeeps ==
  ASSUME P!LimitAssumption, NEW s, IsSeq(s)
  PROVE  /\ AllPlain(s) => AllPlain(P!First(s))
         /\ AllMild(s) => AllMild(P!First(s))
         /\ AllStable(s) => AllStable(P!First(s))
         /\ s # <<>> => P!First(s) # <<>> /\ P!First(s)[1] = s[1]
<1>1. MaxItems \in Nat /\ MaxItems >= 3 BY DEF P!LimitAssumption
<1>2. /\ IsSeq(P!First(s)) /\ Len(P!First(s)) <= Len(s)
      /\ Len(s) <= MaxItems => P!First(s) = s
      /\ Len(s) > MaxItems => Len(P!First(s)) = MaxItems
      /\ \A i \in 1 .. Len(P!First(s)) : P!First(s)[i] = s[i]
  BY <1>1, FirstFacts
<1> DEFINE t == P!First(s)
           m == Len(s)
           n == Len(t)
<1>3. m \in Nat /\ DOMAIN s = 1 .. m /\ (s = <<>> <=> m = 0) BY SeqFacts
<1>4. n \in Nat /\ DOMAIN t = 1 .. n /\ (t = <<>> <=> n = 0) BY <1>2, SeqFacts
<1>5. n <= m /\ (m <= MaxItems => n = m) /\ (m > MaxItems => n = MaxItems)
      /\ \A i \in 1 .. n : t[i] = s[i]
  BY <1>2
<1> HIDE DEF t, m, n
<1>6. \A i \in DOMAIN t : i \in DOMAIN s /\ t[i] = s[i] BY <1>3, <1>4, <1>5
<1>7. s # <<>> => t # <<>> /\ t[1] = s[1] BY <1>1, <1>3, <1>4, <1>5
<1>8. (AllPlain(s) => AllPlain(t)) /\ (AllMild(s) => AllMild(t)) /\ (AllStable(s) => AllStable(t))
  BY <1>6 DEF AllPlain, AllMild, AllStable
<1> QED BY <1>7, <1>8 DEF t

\* Settled entries are met again by a redaction of anything with their keys.
LEMMA ReadingBegins ==
  ASSUME P!LimitAssumption, NEW s, IsSeq(s), NEW r, IsSeq(r), SameKeys(r, s), AllStable(r),
         NEW f, f.items = P!First(r), f.out = <<>>, f.at = 1,
         f.extra = Len(r) - Len(P!First(r))
  PROVE  Reading(f, s)
<1>1. MaxItems \in Nat BY DEF P!LimitAssumption
<1>2. /\ Len(s) <= MaxItems => P!First(s) = s
      /\ Len(s) > MaxItems => Len(P!First(s)) = MaxItems
      /\ \A i \in 1 .. Len(P!First(s)) : P!First(s)[i] = s[i]
      /\ Len(P!First(s)) <= Len(s) /\ IsSeq(P!First(s))
  BY <1>1, FirstFacts
<1>3. /\ Len(r) <= MaxItems => P!First(r) = r
      /\ Len(r) > MaxItems => Len(P!First(r)) = MaxItems
      /\ \A i \in 1 .. Len(P!First(r)) : P!First(r)[i] = r[i]
      /\ Len(P!First(r)) <= Len(r) /\ IsSeq(P!First(r))
  BY <1>1, FirstFacts
<1>4. Len(r) = Len(s) /\ \A i \in 1 .. Len(r) : r[i].key = s[i].key BY DEF SameKeys
<1>5. Len(r) \in Nat /\ Len(P!First(r)) \in Nat BY <1>3, SeqFacts
<1>6. Len(P!First(r)) = Len(P!First(s)) BY <1>1, <1>2, <1>3, <1>4, <1>5
<1>7. \A i \in 1 .. Len(P!First(r)) : P!First(r)[i].key = P!First(s)[i].key
  BY <1>2, <1>3, <1>4, <1>5, <1>6
<1>8. SameKeys(f.items, P!First(s)) BY <1>6, <1>7 DEF SameKeys
<1>9. Len(<<>>) = 0 /\ \A i \in 1 .. 0 : FALSE OBVIOUS
<1>10. AllStable(f.items) /\ AllStable(f.out) BY FirstKeeps, NothingRedacted
<1>11. f.extra = Len(s) - Len(P!First(s)) BY <1>4, <1>6
<1>12. Len(f.out) = f.at - 1 BY <1>9
<1>13. \A i \in 1 .. Len(f.out) : f.out[i].key = s[i].key BY <1>9
<1> QED BY <1>8, <1>10, <1>11, <1>12, <1>13 DEF Reading

LEMMA BuildEventSafe ==
  ASSUME P!LimitAssumption, P!RawAssumption, PrivacyInv, P!Build
  PROVE  PrivacyInv'
<1>1. /\ life = "emitted" /\ life' = "building" /\ work' = P!redact_trace_mapping(raw)
      /\ passes' = 1 /\ raw' = raw /\ field' = field /\ stored' = stored /\ changed' = changed
  BY DEF P!Build
<1>2. IsSeq(raw) BY DEF P!RawAssumption, PrivacyInv, IsSeq
<1>3. /\ FramesInv' /\ BinaryInv' /\ work' # <<>>
      /\ work'[1].items = P!First(raw) /\ work'[1].out = <<>>
  BY <1>1, <1>2, BeginsFrames
<1>4. StagesInv' BY <1>1 DEF StagesInv
<1>5. SafeInv' BY <1>1 DEF PrivacyInv, SafeInv
<1>6. HeadInv' BY <1>1, <1>3, NothingRedacted DEF HeadInv
<1>7. ASSUME P!PlainBinary(raw) PROVE GradeInv'
  <2>1. AllPlain(raw) BY <1>7 DEF P!PlainBinary, AllPlain, Plain
  <2>2. AllPlain(work'[1].items) BY <1>2, <1>3, <2>1, FirstKeeps
  <2>3. Building(work'[1]) BY <1>3, <2>2, NothingRedacted DEF Building
  <2> QED BY <1>1, <2>3 DEF GradeInv
<1> QED BY <1>1, <1>3, <1>4, <1>5, <1>6, <1>7 DEF PrivacyInv

LEMMA ChangeSafe ==
  ASSUME PrivacyInv, P!Change
  PROVE  PrivacyInv'
<1>1. /\ life = "built" /\ life' = life /\ changed' = TRUE /\ raw' = raw
      /\ stored' = stored /\ work' = work /\ passes' = passes
  BY DEF P!Change
<1>2. PICK e \in RawEntries : field' = P!Put(field, e.key, e.value) BY DEF P!Change
<1>3. IsSeq(field) BY DEF PrivacyInv, SafeInv
<1>4. IsSeq(field') BY <1>2, <1>3, PutFacts
<1>5. SafeInv' BY <1>1, <1>4 DEF PrivacyInv, SafeInv
<1>6. FramesInv' BY <1>1 DEF PrivacyInv, FramesInv
<1>7. StagesInv' BY <1>1 DEF PrivacyInv, StagesInv
<1> QED BY <1>1, <1>5, <1>6, <1>7 DEF PrivacyInv

LEMMA WriteSafe ==
  ASSUME P!LimitAssumption, PrivacyInv, P!Write
  PROVE  PrivacyInv'
<1>1. /\ life = "built" /\ field # <<>> /\ life' = "writing"
      /\ work' = P!redact_trace_mapping(field) /\ passes' = 2
      /\ raw' = raw /\ field' = field /\ stored' = stored /\ changed' = changed
  BY DEF P!Write, P!for_persistence
<1>2. IsSeq(field) BY DEF PrivacyInv, SafeInv
<1>3. /\ FramesInv' /\ BinaryInv' /\ work' # <<>>
      /\ work'[1].items = P!First(field) /\ work'[1].out = <<>> /\ work'[1].at = 1
  BY <1>1, <1>2, BeginsFrames
<1>4. StagesInv' BY <1>1 DEF StagesInv
<1>5. SafeInv' BY <1>1 DEF PrivacyInv, SafeInv
<1>6. ASSUME ~changed PROVE HeadInv'
  <2>1. HeadKept(field) BY <1>1, <1>6 DEF PrivacyInv, HeadInv
  <2>2. P!First(field) # <<>> /\ P!First(field)[1] = field[1] BY <1>1, <1>2, FirstKeeps
  <2>3. WriteHead(work'[1]) BY <1>1, <1>3, <2>1, <2>2 DEF WriteHead, HeadKept
  <2> QED BY <1>1, <1>3, <2>3, NothingRedacted DEF HeadInv
<1>7. ASSUME ~changed, P!PlainBinary(raw) PROVE GradeInv'
  <2>1. AllMild(field) BY <1>1, <1>7 DEF PrivacyInv, GradeInv
  <2>2. FirstWrite(work'[1]) BY <1>2, <1>3, <2>1, FirstKeeps, NothingRedacted DEF FirstWrite
  <2> QED BY <1>1, <2>2 DEF GradeInv
<1> QED BY <1>1, <1>3, <1>4, <1>5, <1>6, <1>7 DEF PrivacyInv

LEMMA RefuseEventSafe ==
  ASSUME PrivacyInv, P!Refuse
  PROVE  PrivacyInv'
<1>1. /\ life = "built" /\ life' = "refused" /\ raw' = raw /\ field' = field
      /\ stored' = stored /\ changed' = changed /\ work' = work /\ passes' = passes
  BY DEF P!Refuse
<1>2. work = <<>> BY <1>1 DEF PrivacyInv, StagesInv
<1>3. SafeInv' BY <1>1 DEF PrivacyInv, SafeInv
<1>4. FramesInv' BY <1>1 DEF PrivacyInv, FramesInv
<1>5. StagesInv' BY <1>1, <1>2 DEF StagesInv
<1>6. HeadInv' /\ GradeInv' BY <1>1, <1>2 DEF HeadInv, GradeInv
<1>7. BinaryInv => BinaryInv' BY <1>1 DEF BinaryInv
<1> QED BY <1>1, <1>3, <1>4, <1>5, <1>6, <1>7 DEF PrivacyInv

LEMMA ReadSafe ==
  ASSUME P!LimitAssumption, PrivacyInv, P!Read
  PROVE  PrivacyInv'
<1>1. /\ life = "stored" /\ life' = "reading"
      /\ work' = P!redact_trace_mapping(stored) /\ passes' = 2
      /\ raw' = raw /\ field' = field /\ stored' = stored /\ changed' = changed
  BY DEF P!Read, P!for_persistence
<1>2. IsSeq(stored) BY DEF PrivacyInv, SafeInv, SafeItems
<1>3. /\ FramesInv' /\ BinaryInv' /\ work' # <<>>
      /\ work'[1].items = P!First(stored) /\ work'[1].out = <<>> /\ work'[1].at = 1
      /\ work'[1].extra = Len(stored) - Len(P!First(stored))
  BY <1>1, <1>2, BeginsFrames
<1>4. StagesInv' BY <1>1 DEF StagesInv
<1>5. SafeInv' BY <1>1 DEF PrivacyInv, SafeInv
<1>6. HeadInv' BY <1>1, <1>3, NothingRedacted DEF HeadInv
<1>7. ASSUME ~changed, P!PlainBinary(raw) PROVE GradeInv'
  <2>1. Settled(stored) BY <1>1, <1>7 DEF PrivacyInv, GradeInv
  <2>2. SameKeys(stored, stored) BY DEF SameKeys
  <2>3. AllStable(stored) BY <2>1 DEF Settled
  <2>4. Reading(work'[1], stored) BY <1>2, <1>3, <2>2, <2>3, ReadingBegins
  <2> QED BY <1>1, <2>1, <2>4 DEF GradeInv
<1> QED BY <1>1, <1>3, <1>4, <1>5, <1>6, <1>7 DEF PrivacyInv

LEMMA EndedFrame ==
  ASSUME FramesInv, P!Ended
  PROVE  /\ work # <<>> /\ P!Top = work[1]
         /\ IsFrame(work[1]) /\ Outermost(work[1])
         /\ work[1].at = Len(work[1].items) + 1
<1>1. Len(work) = 1 /\ ~P!More(P!Top) BY DEF P!Ended
<1>2. work # <<>>
  <2>1. Len(work) # 0
    <3>1. \A n : n = 1 => n # 0 OBVIOUS
    <3> QED BY <1>1, <3>1
  <2> QED BY <2>1, SeqFacts DEF FramesInv
<1>3. IsFrame(work[1]) /\ Outermost(work[1]) /\ P!Top = work[Len(work)] BY <1>2, StackFacts
<1>4. P!Top = work[1] BY <1>1, <1>3
<1>5. /\ work[1].at \in Nat /\ Len(work[1].items) \in Nat
      /\ work[1].at <= Len(work[1].items) + 1
  BY <1>3 DEF IsFrame, Outermost, IsSeq
<1>6. ~(work[1].at <= Len(work[1].items)) BY <1>1, <1>4 DEF P!More
<1>7. work[1].at = Len(work[1].items) + 1 BY <1>5, <1>6
<1> QED BY <1>2, <1>3, <1>4, <1>7

LEMMA HeadEnds ==
  ASSUME P!LimitAssumption, NEW f, IsFrame(f), Outermost(f), f.at = Len(f.items) + 1,
         HeadKept(f.out), NEW r, r = P!Result(f).items
  PROVE  HeadKept(r) /\ (WriteHead(f) => r # <<>>)
<1>1. HeadKept(r) /\ (f.out # <<>> => r # <<>>) BY ResultFacts
<1>2. ASSUME WriteHead(f) PROVE f.out # <<>>
  <2>1. f.items # <<>> BY <1>2 DEF WriteHead
  <2>2. Len(f.items) \in Nat /\ Len(f.items) # 0 BY <2>1, SeqFacts DEF Outermost
  <2>3. \A n \in Nat : n # 0 => n + 1 > 1 OBVIOUS
  <2>4. f.at > 1 BY <2>2, <2>3
  <2> QED BY <1>2, <2>4 DEF WriteHead
<1> QED BY <1>1, <1>2

\* What the second redaction of a write leaves is settled.
LEMMA WriteEnds ==
  ASSUME P!LimitAssumption, NEW f, IsFrame(f), Outermost(f), f.at = Len(f.items) + 1,
         SecondWrite(f), NEW r, r = P!Result(f).items
  PROVE  Settled(r)
<1>1. /\ IsSeq(r) /\ DistinctKeys(r)
      /\ f.extra > 0 => r = P!Put(f.out, P!TruncatedKey, P!Number(f.extra))
      /\ ~(f.extra > 0) => r = f.out
      /\ AllStable(f.out) => AllStable(r)
      /\ AllKept(f.out) => AllKept(r)
  BY ResultFacts
<1>2. AllStable(r) /\ AllKept(r) BY <1>1 DEF SecondWrite
<1>3. IsSeq(f.out) BY DEF IsFrame, SafeItems
<1> DEFINE m == Len(f.out)
           n == Len(r)
<1>4. m \in Nat /\ n \in Nat BY <1>1, <1>3, SeqFacts
<1>5. m <= MaxItems /\ MaxItems \in Nat
  <2>1. m < Len(f.items) + 1 /\ Len(f.items) <= MaxItems /\ Len(f.items) \in Nat
    BY DEF SecondWrite, Outermost, IsSeq
  <2>2. MaxItems \in Nat BY DEF P!LimitAssumption
  <2> QED BY <1>4, <2>1, <2>2
<1>6. ~(f.extra > 0) => n = m BY <1>1
<1>7. f.extra > 0 => n <= m + 1 /\ (n > m => r[m + 1].key = P!TruncatedKey)
  BY <1>1, <1>3, PutFacts
<1> HIDE DEF m, n
<1>8. n <= MaxItems \/ (n = MaxItems + 1 /\ r[n].key = P!TruncatedKey)
  <2>1. CASE n <= m
    BY <1>4, <1>5, <2>1
  <2>2. CASE n > m
    <3>1. n <= m + 1 /\ r[m + 1].key = P!TruncatedKey BY <1>4, <1>6, <1>7, <2>2
    <3>2. n = m + 1 BY <1>4, <2>2, <3>1
    <3> QED BY <1>4, <1>5, <3>1, <3>2
  <2> QED BY <1>4, <2>1, <2>2
<1> QED BY <1>1, <1>2, <1>8 DEF Settled, n

\* What a redaction of settled metadata leaves has its keys.
LEMMA ReadingEnds ==
  ASSUME P!LimitAssumption, NEW f, IsFrame(f), Outermost(f), f.at = Len(f.items) + 1,
         NEW s, Settled(s), Reading(f, s), NEW r, r = P!Result(f).items
  PROVE  SameKeys(r, s) /\ AllStable(r)
<1>1. /\ IsSeq(r)
      /\ f.extra > 0 => r = P!Put(f.out, P!TruncatedKey, P!Number(f.extra))
      /\ ~(f.extra > 0) => r = f.out
      /\ AllStable(f.out) => AllStable(r)
  BY ResultFacts
<1>2. AllStable(r) BY <1>1 DEF Reading
<1>3. IsSeq(f.out) /\ IsSeq(s) /\ IsSeq(f.items) /\ MaxItems \in Nat
  BY DEF IsFrame, SafeItems, Settled, Outermost, P!LimitAssumption
<1> DEFINE m == Len(f.out)
           n == Len(s)
           k == Len(P!First(s))
<1>4. m \in Nat /\ n \in Nat /\ DOMAIN f.out = 1 .. m /\ DOMAIN s = 1 .. n BY <1>3, SeqFacts
<1>5. /\ IsSeq(P!First(s)) /\ k <= n /\ (n <= MaxItems => P!First(s) = s)
      /\ n > MaxItems => k = MaxItems
  BY <1>3, FirstFacts
<1>6. k \in Nat BY <1>5, SeqFacts
<1>7. m = k
  <2>1. Len(f.items) = k /\ m = f.at - 1 BY DEF Reading, SameKeys
  <2> QED BY <1>6, <2>1
<1>8. \A i \in 1 .. m : f.out[i].key = s[i].key BY DEF Reading
<1>9. f.extra = n - k BY DEF Reading
<1>10. n <= MaxItems \/ (n = MaxItems + 1 /\ s[n].key = P!TruncatedKey) BY DEF Settled
<1>11. DistinctKeys(s) BY DEF Settled
<1>12. n <= MaxItems => k = n BY <1>5
<1> HIDE DEF m, n, k
<1>13. CASE n <= MaxItems
  <2>1. ~(f.extra > 0) /\ m = n BY <1>4, <1>6, <1>7, <1>9, <1>12, <1>13
  <2>2. r = f.out BY <1>1, <2>1
  <2>3. Len(r) = Len(s) BY <2>1, <2>2 DEF m, n
  <2> QED BY <1>2, <1>8, <2>2, <2>3 DEF SameKeys, m
<1>14. CASE n = MaxItems + 1 /\ s[n].key = P!TruncatedKey
  <2>1. k = MaxItems /\ m = MaxItems /\ f.extra > 0 BY <1>3, <1>5, <1>6, <1>7, <1>9, <1>14
  <2>2. ASSUME NEW i \in DOMAIN f.out PROVE f.out[i].key # P!TruncatedKey
    <3>1. i \in 1 .. m /\ i \in DOMAIN s /\ n \in DOMAIN s /\ i # n
      BY <1>3, <1>4, <1>14, <2>1
    <3>2. s[i].key # s[n].key BY <1>11, <3>1 DEF DistinctKeys
    <3> QED BY <1>8, <1>14, <3>1, <3>2
  <2>3. r = P!Put(f.out, P!TruncatedKey, P!Number(f.extra)) BY <1>1, <2>1
  <2>4. /\ Len(r) = m + 1
        /\ \A i \in 1 .. m : r[i].key = f.out[i].key
        /\ Len(r) > m => r[m + 1].key = P!TruncatedKey
    BY <1>3, <2>2, <2>3, PutFacts DEF m
  <2>5. r[m + 1].key = P!TruncatedKey
    <3>1. m + 1 > m BY <1>4
    <3> QED BY <2>4, <3>1
  <2>6. Len(r) = n BY <1>14, <2>1, <2>4
  <2>7. ASSUME NEW i \in 1 .. n PROVE r[i].key = s[i].key
    <3>1. CASE i = n
      BY <1>14, <2>1, <2>5, <3>1
    <3>2. CASE i # n
      <4>1. i \in 1 .. m BY <1>3, <1>4, <1>14, <2>1, <3>2
      <4> QED BY <1>8, <2>4, <4>1
    <3> QED BY <3>1, <3>2
  <2> QED BY <1>2, <2>6, <2>7 DEF SameKeys, n
<1> QED BY <1>10, <1>13, <1>14

LEMMA NextPassSafe ==
  ASSUME P!LimitAssumption, PrivacyInv, P!NextPass
  PROVE  PrivacyInv'
<1> DEFINE f == work[1]
           r == P!Result(f).items
<1>0. FramesInv /\ StagesInv /\ P!Ended BY DEF PrivacyInv, P!NextPass
<1>1. /\ work # <<>> /\ P!Top = f /\ IsFrame(f) /\ Outermost(f)
      /\ f.at = Len(f.items) + 1
  BY <1>0, EndedFrame
<1>2. /\ passes > 1 /\ work' = P!redact_trace_mapping(r) /\ passes' = passes - 1
      /\ raw' = raw /\ life' = life /\ field' = field /\ stored' = stored /\ changed' = changed
  BY <1>1 DEF P!NextPass
<1>3. life \in {"writing", "reading"} /\ passes = 2 /\ passes' = 1
  BY <1>0, <1>1, <1>2 DEF StagesInv
<1> HIDE DEF f
<1>4. /\ IsSeq(r)
      /\ AllStable(f.out) => AllStable(r)
  BY <1>1, ResultFacts
<1> HIDE DEF r
<1>5. /\ FramesInv' /\ BinaryInv' /\ work' # <<>>
      /\ work'[1].items = P!First(r) /\ work'[1].out = <<>> /\ work'[1].at = 1
      /\ work'[1].extra = Len(r) - Len(P!First(r))
  BY <1>2, <1>4, BeginsFrames
<1>6. StagesInv' BY <1>2, <1>3 DEF StagesInv
<1>7. SafeInv' BY <1>2 DEF PrivacyInv, SafeInv
<1>8. ASSUME ~changed PROVE HeadInv'
  <2>1. HeadInv BY <1>8 DEF PrivacyInv
  <2>2. HeadKept(f.out) /\ (life = "writing" => WriteHead(f)) BY <1>1, <2>1 DEF HeadInv, f
  <2>3. HeadKept(r) /\ (WriteHead(f) => r # <<>>) BY <1>1, <2>2, HeadEnds DEF r
  <2>4. r # <<>> => P!First(r) # <<>> /\ P!First(r)[1] = r[1] BY <1>4, FirstKeeps
  <2>5. WriteHead(f) => WriteHead(work'[1])
    BY <1>5, <2>3, <2>4 DEF WriteHead, HeadKept
  <2> QED BY <1>2, <1>3, <1>5, <2>2, <2>5, NothingRedacted DEF HeadInv
<1>9. ASSUME ~changed, P!PlainBinary(raw) PROVE GradeInv'
  <2>1. GradeInv BY <1>9 DEF PrivacyInv
  <2>2. ASSUME life = "writing" PROVE SecondWrite(work'[1])
    <3>1. FirstWrite(f) BY <1>1, <1>3, <2>1, <2>2 DEF GradeInv, f
    <3>2. AllStable(work'[1].items) BY <1>4, <1>5, <3>1, FirstKeeps DEF FirstWrite
    <3>3. Len(<<>>) < 1 OBVIOUS
    <3> QED BY <1>5, <3>2, <3>3, NothingRedacted DEF SecondWrite
  <2>3. ASSUME life = "reading" PROVE Settled(stored) /\ Reading(work'[1], stored)
    <3>1. Reading(f, stored) /\ Settled(stored) BY <1>1, <2>1, <2>3 DEF GradeInv, f
    <3>2. SameKeys(r, stored) /\ AllStable(r) BY <1>1, <3>1, ReadingEnds DEF r
    <3>3. IsSeq(stored) BY <3>1 DEF Settled
    <3>4. Reading(work'[1], stored) BY <1>4, <1>5, <3>2, <3>3, ReadingBegins
    <3> QED BY <3>1, <3>4
  <2> QED BY <1>2, <1>3, <2>2, <2>3 DEF GradeInv
<1> QED BY <1>2, <1>5, <1>6, <1>7, <1>8, <1>9 DEF PrivacyInv

LEMMA LastPassSafe ==
  ASSUME P!LimitAssumption, PrivacyInv, P!LastPass
  PROVE  PrivacyInv'
<1> DEFINE f == work[1]
           r == P!Result(f).items
<1>0. FramesInv /\ StagesInv /\ P!Ended BY DEF PrivacyInv, P!LastPass
<1>1. /\ work # <<>> /\ P!Top = f /\ IsFrame(f) /\ Outermost(f)
      /\ f.at = Len(f.items) + 1
  BY <1>0, EndedFrame
<1>2. /\ passes = 1 /\ work' = <<>> /\ raw' = raw /\ changed' = changed
      /\ \/ life = "building" /\ life' = "built" /\ field' = r /\ stored' = stored
         \/ life = "reading" /\ life' = "read" /\ field' = r /\ stored' = stored
         \/ life = "writing" /\ life' = "stored" /\ stored' = r /\ field' = field
  BY <1>1 DEF P!LastPass
<1> HIDE DEF f
<1>3. /\ IsSeq(r) /\ SafeItems(r)
      /\ AllMild(f.out) => AllMild(r)
  BY <1>1, ResultFacts
<1> HIDE DEF r
<1>4. FramesInv' /\ BinaryInv'
  <2>1. IsSeq(work') /\ DOMAIN work' = {} /\ Len(work') = 0 BY <1>2, EmptyIsSeq
  <2>2. ~(Len(work') > 1)
    <3>1. \A n : n = 0 => ~(n > 1) OBVIOUS
    <3> QED BY <2>1, <3>1
  <2> QED BY <1>2, <2>1, <2>2 DEF FramesInv, BinaryInv
<1>5. StagesInv' BY <1>2 DEF StagesInv
<1>6. SafeInv' BY <1>2, <1>3 DEF PrivacyInv, SafeInv
<1>7. ASSUME ~changed PROVE HeadInv'
  <2>1. HeadInv BY <1>7 DEF PrivacyInv
  <2>2. HeadKept(f.out) /\ (life = "writing" => WriteHead(f)) BY <1>1, <2>1 DEF HeadInv, f
  <2>3. HeadKept(r) /\ (WriteHead(f) => r # <<>>) BY <1>1, <2>2, HeadEnds DEF r
  <2> QED BY <1>2, <2>2, <2>3 DEF HeadInv
<1>8. ASSUME ~changed, P!PlainBinary(raw) PROVE GradeInv'
  <2>1. GradeInv BY <1>8 DEF PrivacyInv
  <2>2. life = "building" => AllMild(r) BY <1>1, <1>3, <2>1 DEF GradeInv, Building, f
  <2>3. ASSUME life = "writing" PROVE Settled(r)
    <3>1. SecondWrite(f) BY <1>1, <1>2, <2>1, <2>3 DEF GradeInv, f
    <3> QED BY <1>1, <3>1, WriteEnds DEF r
  <2>4. ASSUME life = "reading" PROVE Settled(stored) /\ SameKeys(r, stored)
    <3>1. Reading(f, stored) /\ Settled(stored) BY <1>1, <2>1, <2>4 DEF GradeInv, f
    <3> QED BY <1>1, <3>1, ReadingEnds DEF r
  <2> QED BY <1>2, <2>2, <2>3, <2>4 DEF GradeInv
<1> QED BY <1>2, <1>4, <1>5, <1>6, <1>7, <1>8 DEF PrivacyInv

LEMMA PrivacyStep ==
  ASSUME P!LimitAssumption, P!RawAssumption, PrivacyInv, [P!Next]_P!vars
  PROVE  PrivacyInv'
<1>1. CASE P!Build BY <1>1, BuildEventSafe
<1>2. CASE P!Change BY <1>2, ChangeSafe
<1>3. CASE P!Write BY <1>3, WriteSafe
<1>4. CASE P!Refuse BY <1>4, RefuseEventSafe
<1>5. CASE P!Read BY <1>5, ReadSafe
<1>6. CASE P!_sanitize_mapping
  <2>1. FramesInv BY DEF PrivacyInv
  <2>2. UNCHANGED P!eventVars BY <1>6 DEF P!_sanitize_mapping
  <2> QED BY <1>6, <2>1, <2>2, MappingStep, RedactionSafe
<1>7. CASE P!_sanitize_container
  <2>1. FramesInv BY DEF PrivacyInv
  <2>2. UNCHANGED P!eventVars BY <1>7 DEF P!_sanitize_container
  <2> QED BY <1>7, <2>1, <2>2, ContainerStep, RedactionSafe
<1>8. CASE P!CallNested
  <2>1. FramesInv BY DEF PrivacyInv
  <2>2. UNCHANGED P!eventVars BY <1>8 DEF P!CallNested
  <2> QED BY <1>8, <2>1, <2>2, CallStep, RedactionSafe
<1>9. CASE P!ReturnNested
  <2>1. FramesInv BY DEF PrivacyInv
  <2>2. UNCHANGED P!eventVars BY <1>9 DEF P!ReturnNested
  <2> QED BY <1>9, <2>1, <2>2, ReturnStep, RedactionSafe
<1>10. CASE P!NextPass BY <1>10, NextPassSafe
<1>11. CASE P!LastPass BY <1>11, LastPassSafe
<1>12. CASE UNCHANGED P!vars
  <2>1. /\ raw' = raw /\ life' = life /\ field' = field /\ stored' = stored
        /\ changed' = changed /\ work' = work /\ passes' = passes
    BY <1>12 DEF P!vars
  <2>2. FramesInv' /\ StagesInv' /\ SafeInv'
    BY <2>1 DEF PrivacyInv, FramesInv, StagesInv, SafeInv
  <2>3. (HeadInv => HeadInv') /\ (GradeInv => GradeInv') /\ (BinaryInv => BinaryInv')
    BY <2>1 DEF HeadInv, GradeInv, BinaryInv
  <2> QED BY <2>1, <2>2, <2>3 DEF PrivacyInv
<1> QED
  BY <1>1, <1>2, <1>3, <1>4, <1>5, <1>6, <1>7, <1>8, <1>9, <1>10, <1>11, <1>12 DEF P!Next

LEMMA PromiseFollows ==
  ASSUME PrivacyInv
  PROVE  P!StoredAsPromised
<1>1. P!StoredIsSafe
  <2>1. SafeItems(<<>>) BY EmptyIsSeq DEF SafeItems
  <2>2. \A items \in {stored, IF life = "read" THEN field ELSE <<>>} : SafeItems(items)
    BY <2>1 DEF PrivacyInv, SafeInv
  <2> QED BY <2>2, SafeCollections DEF P!StoredIsSafe, SafeItems
<1>2. P!StoredIsSettled
  <2> SUFFICES ASSUME life = "read", ~changed, P!PlainBinary(raw)
               PROVE  P!KeysOf(field) = P!KeysOf(stored)
    BY DEF P!StoredIsSettled
  <2>1. SameKeys(field, stored) BY DEF PrivacyInv, GradeInv
  <2>2. DOMAIN field = 1 .. Len(field) /\ DOMAIN stored = 1 .. Len(stored)
    BY SeqFacts DEF PrivacyInv, SafeInv, SafeItems
  <2> QED BY <2>1, <2>2 DEF P!KeysOf, SameKeys
<1>3. P!StoredIsComplete BY DEF PrivacyInv, HeadInv, P!StoredIsComplete
<1> QED BY <1>1, <1>2, <1>3 DEF P!StoredAsPromised

LEMMA PrivacyPart ==
  ASSUME P!LimitAssumption, P!RawAssumption
  PROVE  P!Spec => []P!StoredAsPromised
<1>1. P!Init => PrivacyInv BY PrivacyInitial
<1>2. PrivacyInv /\ [P!Next]_P!vars => PrivacyInv' BY PrivacyStep
<1>3. PrivacyInv => P!StoredAsPromised BY PromiseFollows
<1> QED BY <1>1, <1>2, <1>3, PTL DEF P!Spec

\* For metadata of any size, depth and keys and any entry a caller puts into the event
\* afterwards, with the limits of the code and names of at most _MAX_KEY_LENGTH for what
\* the redaction itself adds: no free text, URL or bytes are stored or read back; an
\* event that was not changed in place and has no mapping that only looks like reduced
\* bytes under a binary key is read with exactly the keys it was stored with; and an
\* event that passed require_trace_completeness is not stored empty.
THEOREM StoredAlwaysAsPromised ==
  ASSUME P!LimitAssumption, P!RawAssumption
  PROVE  Spec => []StoredAsPromised
<1> DEFINE followed == part = "privacy"
<1>1. Init => (followed => P!Init)
  BY DEF Init
<1>2. [Next]_vars => (followed' <=> followed) /\ (followed => [P!Next]_P!vars)
  BY PartsApart
<1>3. (followed => P!StoredAsPromised) => StoredAsPromised
  BY DEF StoredAsPromised
<1>4. P!Spec => []P!StoredAsPromised
  BY PrivacyPart
<1> HIDE DEF followed
<1> QED
  BY <1>1, <1>2, <1>3, <1>4, PTL DEF Spec, P!Spec
=============================================================================
