-------------------------- MODULE InMemoryUnitOfWork --------------------------
(***************************************************************************)
(* The in-memory unit of work: a transaction takes the re-entrant lock of  *)
(* every store in a fixed order, takes a snapshot of all of them, lets its *)
(* body write in place, restores the snapshots unless the body committed,  *)
(* and gives the locks back one by one in the reverse order.  Callers      *)
(* outside a transaction take the lock of one store for one operation.     *)
(*                                                                         *)
(* The lock is taken again, by its owner, inside each store operation; that *)
(* never blocks and is not a step.  What a store holds is one value.       *)
(***************************************************************************)
EXTENDS Integers

CONSTANTS
  Threads,
  Participants,  \* their number: calendar, scheduler, events, outbox, states
  Values

NoThread == "none"

Stores == 1..Participants

ASSUME UnitOfWorkAssumption ==
  /\ Participants \in Nat \ {0}
  /\ Values # {}
  /\ NoThread \notin Threads

VARIABLES
  data,    \* the contents of each store
  owner,   \* who holds the lock of each store
  tx,      \* the transaction of each thread
  seen,    \* the last value each thread read, and from which store
  outcome  \* how each thread's last transaction ended

vars == <<data, owner, tx, seen, outcome>>

-----------------------------------------------------------------------------
Pc == {"idle", "acquire", "body", "release"}

\* locks is the length of the list _locks: the stores 1..locks are held.
Transaction ==
  [pc        : Pc,
   locks     : 0..Participants,
   snapshots : [Stores -> Values],
   committed : BOOLEAN]

Outcome == {"none", "committed", "rolled_back"}

TypeOK ==
  /\ data \in [Stores -> Values]
  /\ owner \in [Stores -> Threads \cup {NoThread}]
  /\ tx \in [Threads -> Transaction]
  /\ seen \in [Threads -> {<< >>} \cup (Stores \X Values)]
  /\ outcome \in [Threads -> Outcome]

Init ==
  /\ data \in [Stores -> Values]
  /\ owner = [s \in Stores |-> NoThread]
  /\ tx = [t \in Threads |-> [pc |-> "idle", locks |-> 0, snapshots |-> data,
                              committed |-> FALSE]]
  /\ seen = [t \in Threads |-> << >>]
  /\ outcome = [t \in Threads |-> "none"]

-----------------------------------------------------------------------------
(* One operation on one store, outside a transaction.                      *)

Get(t, s) ==
  /\ tx[t].pc = "idle"
  /\ owner[s] = NoThread
  /\ seen' = [seen EXCEPT ![t] = <<s, data[s]>>]
  /\ UNCHANGED <<data, owner, tx, outcome>>

Put(t, s, v) ==
  /\ tx[t].pc = "idle"
  /\ owner[s] = NoThread
  /\ data' = [data EXCEPT ![s] = v]
  /\ UNCHANGED <<owner, tx, seen, outcome>>

-----------------------------------------------------------------------------
(* __enter__.                                                              *)

Begin(t) ==
  /\ tx[t].pc = "idle"
  /\ tx' = [tx EXCEPT ![t].pc = "acquire", ![t].committed = FALSE]
  /\ outcome' = [outcome EXCEPT ![t] = "none"]
  /\ UNCHANGED <<data, owner, seen>>

\* Mutant of NextLock: a participant list in an order of the caller's own.
NextLockAnyOrder(t, s) == owner[s] # t

\* The participants are locked in the order of the tuple.
NextLock(t, s) == s = tx[t].locks + 1

Acquire(t) ==
  /\ tx[t].pc = "acquire"
  /\ \E s \in Stores :
       /\ NextLock(t, s)
       /\ owner[s] = NoThread
       /\ owner' = [owner EXCEPT ![s] = t]
  /\ tx' = [tx EXCEPT ![t].locks = @ + 1]
  /\ UNCHANGED <<data, seen, outcome>>

Snapshot(t) ==
  /\ tx[t].pc = "acquire"
  /\ tx[t].locks = Participants
  /\ tx' = [tx EXCEPT ![t].pc = "body", ![t].snapshots = data]
  /\ UNCHANGED <<data, owner, seen, outcome>>

\* An exception while locks or snapshots are taken: nothing was written yet.
EnterFails(t) ==
  /\ tx[t].pc = "acquire"
  /\ tx' = [tx EXCEPT ![t].pc = "release"]
  /\ outcome' = [outcome EXCEPT ![t] = "rolled_back"]
  /\ UNCHANGED <<data, owner, seen>>

-----------------------------------------------------------------------------
(* The body and __exit__.                                                  *)

Write(t, s, v) ==
  /\ tx[t].pc = "body"
  /\ data' = [data EXCEPT ![s] = v]
  /\ UNCHANGED <<owner, tx, seen, outcome>>

\* commit only sets a flag; an exception after it still rolls back.
Commit(t) ==
  /\ tx[t].pc = "body"
  /\ tx' = [tx EXCEPT ![t].committed = TRUE]
  /\ UNCHANGED <<data, owner, seen, outcome>>

ExitCommitted(t) ==
  /\ tx[t].pc = "body"
  /\ tx[t].committed
  /\ tx' = [tx EXCEPT ![t].pc = "release"]
  /\ outcome' = [outcome EXCEPT ![t] = "committed"]
  /\ UNCHANGED <<data, owner, seen>>

\* Mutant of Restored: the participant locked last is not restored.
RestoredButLast(t) ==
  [s \in Stores |-> IF s = Participants THEN data[s] ELSE tx[t].snapshots[s]]

Restored(t) == [s \in Stores |-> tx[t].snapshots[s]]

\* The body raised, or ended without commit.
ExitRollback(t) ==
  /\ tx[t].pc = "body"
  /\ data' = Restored(t)
  /\ tx' = [tx EXCEPT ![t].pc = "release", ![t].committed = FALSE]
  /\ outcome' = [outcome EXCEPT ![t] = "rolled_back"]
  /\ UNCHANGED <<owner, seen>>

\* _release_locks, in the reverse order.
Release(t) ==
  /\ tx[t].pc = "release"
  /\ tx[t].locks > 0
  /\ owner' = [owner EXCEPT ![tx[t].locks] = NoThread]
  /\ tx' = [tx EXCEPT ![t].locks = @ - 1]
  /\ UNCHANGED <<data, seen, outcome>>

Leave(t) ==
  /\ tx[t].pc = "release"
  /\ tx[t].locks = 0
  /\ tx' = [tx EXCEPT ![t].pc = "idle"]
  /\ UNCHANGED <<data, owner, seen, outcome>>

-----------------------------------------------------------------------------
\* The steps of a transaction once it was entered; its body ends.
Proceed(t) ==
  \/ Acquire(t) \/ Snapshot(t)
  \/ ExitCommitted(t) \/ ExitRollback(t)
  \/ Release(t) \/ Leave(t)

Next ==
  \E t \in Threads :
    \/ Begin(t) \/ Proceed(t) \/ EnterFails(t) \/ Commit(t)
    \/ \E s \in Stores : Get(t, s)
    \/ \E s \in Stores, v \in Values : Put(t, s, v) \/ Write(t, s, v)

Spec == Init /\ [][Next]_vars

-----------------------------------------------------------------------------
(* Properties.                                                             *)

\* The transaction that has taken its snapshot and not yet left its body.
Active == {t \in Threads : tx[t].pc = "body"}

\* What a caller outside may know: the snapshot of an active transaction.
Visible ==
  [s \in Stores |->
     IF Active = {} THEN data[s] ELSE tx[CHOOSE t \in Active : TRUE].snapshots[s]]

Atomic == INSTANCE AtomicStores WITH store <- Visible

\* "Other readers of these adapters therefore observe either the state before
\* the transaction or the state after its context exits."  A rolled-back
\* transaction, also one that fails after commit, leaves nothing behind.
ImplementsAtomicStores == Atomic!Spec

\* The lock that a thread waits for, if any.
Waits(t, s) == tx[t].pc = "acquire" /\ tx[t].locks < Participants /\ NextLock(t, s)

\* Transactions never block each other for good: while one is under way, some
\* transaction has a step to take.
SomeoneProceeds ==
  (\E t \in Threads : tx[t].pc # "idle") =>
    \E t \in Threads :
      /\ tx[t].pc # "idle"
      /\ (\E s \in Stores : Waits(t, s)) =>
           \E s \in Stores : Waits(t, s) /\ owner[s] = NoThread

\* A thread holds exactly the locks its transaction has taken and not yet given
\* back, and none between two transactions, on every path out of one.
LocksAccounted ==
  \A t \in Threads :
    /\ {s \in Stores : owner[s] = t} = 1..tx[t].locks
    /\ tx[t].pc = "idle" => tx[t].locks = 0
    /\ tx[t].pc = "body" => tx[t].locks = Participants
=============================================================================
