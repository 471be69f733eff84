----------------------------- MODULE AtomicStores -----------------------------
(***************************************************************************)
(* What the docstring of InMemoryReminderTransaction promises: readers of  *)
(* any store see the state before a transaction or the state after it, and *)
(* only a committed transaction changes anything.                          *)
(***************************************************************************)
CONSTANTS Threads, Stores, Values

VARIABLES
  store,    \* the contents of each store
  seen,     \* the last value each thread read, and from which store
  outcome   \* how each thread's last transaction ended

atomic == <<store, seen, outcome>>

Init ==
  /\ store \in [Stores -> Values]
  /\ seen = [t \in Threads |-> << >>]
  /\ outcome = [t \in Threads |-> "none"]

Get(t, s) ==
  /\ seen' = [seen EXCEPT ![t] = <<s, store[s]>>]
  /\ UNCHANGED <<store, outcome>>

Put(s, v) ==
  /\ store' = [store EXCEPT ![s] = v]
  /\ UNCHANGED <<seen, outcome>>

Begin(t) ==
  /\ outcome' = [outcome EXCEPT ![t] = "none"]
  /\ UNCHANGED <<store, seen>>

Commit(t) ==
  /\ outcome[t] = "none"
  /\ outcome' = [outcome EXCEPT ![t] = "committed"]
  /\ store' \in [Stores -> Values]
  /\ UNCHANGED seen

Rollback(t) ==
  /\ outcome[t] = "none"
  /\ outcome' = [outcome EXCEPT ![t] = "rolled_back"]
  /\ UNCHANGED <<store, seen>>

Next ==
  \/ \E t \in Threads, s \in Stores : Get(t, s)
  \/ \E s \in Stores, v \in Values : Put(s, v)
  \/ \E t \in Threads : Begin(t) \/ Commit(t) \/ Rollback(t)

Spec == Init /\ [][Next]_atomic
=============================================================================
