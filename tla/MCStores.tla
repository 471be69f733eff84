------------------------------- MODULE MCStores -------------------------------
(* Model-checking values for Stores.                                          *)
EXTENDS Stores, Naturals, TLC

CONSTANTS c1, c2, c3

\* Two messages of one tenant and of two types; the other tenant owns none.
TheTenantOf == <<"t1", "t1">>
TheTypeOf == <<"reminder", "other">>

\* Keys and ids collide in every way; approval ids are derived from the key
\* (commands._approval_id), an event's key is its id, and only an outbox message
\* carries a CloudEvent of its own.  Two bodies are told apart under one key, so the
\* other key goes with one of them.
TheRequests ==
  {r \in [kind : {"event", "outbox", "approval", "calendar", "reminder"},
          tenant : {"t1", "t2"}, caller_tenant : {"t1"},
          key : {"k1", "k2"}, id : {"i1", "i2", "no_id"}, event : {"e1", "e2"},
          body : {"untimed", "timed"}] :
     /\ r.kind # "outbox" => r.event = "e1"
     /\ r.kind = "event" => r.key = "k1" /\ r.id # "no_id"
     /\ r.key = "k2" => r.body = "timed"
     /\ r.kind = "approval" => r.id = IF r.key = "k1" THEN "i1" ELSE "i2"
     /\ r.tenant = "t2" => r.kind \in {"event", "outbox", "approval"}
                           /\ r.key = "k1" /\ r.id = "i1" /\ r.event = "e1"
                           /\ r.body = "timed"}

ASSUME StoresAssumption == O!ParityAssumption /\ MaxTime \in Nat /\ I!StoreAssumption

\* Two callers on their own and one inside the unit of work.
CallerSymmetry == Permutations({c1, c2})
=============================================================================
