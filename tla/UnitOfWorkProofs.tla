--------------------------- MODULE UnitOfWorkProofs ---------------------------
(***************************************************************************)
(* Proofs about InMemoryUnitOfWork, for any number of threads and stores.  *)
(*                                                                         *)
(* Everything follows from one fact about the locks: the stores a thread   *)
(* owns are the first tx[t].locks of them.  A thread in its body owns all  *)
(* of them, so it is alone there, and a store that is free shows that      *)
(* nobody is.                                                              *)
(***************************************************************************)
EXTENDS InMemoryUnitOfWork, WellFoundedInduction, TLAPS

\* LocksAccounted, store by store.
Held ==
  \A t \in Threads, s \in Stores : owner[s] = t <=> s <= tx[t].locks

Phases ==
  \A t \in Threads :
    /\ tx[t].pc = "idle" => tx[t].locks = 0
    /\ tx[t].pc = "body" => tx[t].locks = Participants

Inv == TypeOK /\ Held /\ Phases

-----------------------------------------------------------------------------
(* Facts about one state.                                                  *)

\* The fields of a transaction.
LEMMA TransactionFields ==
  ASSUME TypeOK, NEW t \in Threads
  PROVE  /\ tx[t].pc \in Pc
         /\ tx[t].locks \in 0..Participants
         /\ tx[t].locks \in Int
         /\ tx[t].snapshots \in [Stores -> Values]
         /\ tx[t].committed \in BOOLEAN
BY UnitOfWorkAssumption DEF TypeOK, Transaction

\* A thread in its body owns every lock.
LEMMA BodyOwnsAll ==
  ASSUME Inv, NEW t \in Threads, tx[t].pc = "body", NEW s \in Stores
  PROVE  owner[s] = t
<1>1. tx[t].locks = Participants
  BY DEF Inv, Phases
<1>2. s <= Participants
  BY UnitOfWorkAssumption DEF Stores
<1> QED
  BY <1>1, <1>2 DEF Inv, Held

\* So there is at most one.
LEMMA OneInBody ==
  ASSUME Inv, NEW t \in Threads, tx[t].pc = "body"
  PROVE  Active = {t}
<1>1. 1 \in Stores
  BY UnitOfWorkAssumption DEF Stores
<1>2. ASSUME NEW u \in Threads, tx[u].pc = "body"
      PROVE  u = t
  BY <1>1, <1>2, BodyOwnsAll
<1> QED
  BY <1>2 DEF Active

\* And while it is there nobody else sees a free lock.
LEMMA FreeLockMeansNobody ==
  ASSUME Inv, NEW s \in Stores, owner[s] = NoThread
  PROVE  Active = {}
BY BodyOwnsAll, UnitOfWorkAssumption DEF Active

\* What is visible with and without a transaction in its body.
LEMMA VisibleInBody ==
  ASSUME Inv, NEW t \in Threads, tx[t].pc = "body"
  PROVE  Visible = tx[t].snapshots
<1>1. Active = {t}
  BY OneInBody
<1>2. (CHOOSE u \in Active : TRUE) = t
  BY <1>1
<1>3. Visible = [s \in Stores |-> tx[t].snapshots[s]]
  BY <1>1, <1>2 DEF Visible
<1>4. tx[t].snapshots \in [Stores -> Values]
  BY TransactionFields DEF Inv
<1> QED
  BY <1>3, <1>4

\* Outside a body the stores show what they hold.
LEMMA VisibleOutside ==
  ASSUME TypeOK, Active = {}
  PROVE  Visible = data
<1>1. Visible = [s \in Stores |-> data[s]]
  BY DEF Visible
<1> QED
  BY <1>1 DEF TypeOK

-----------------------------------------------------------------------------
(* The invariant.                                                          *)

\* A step that changes one record and keeps the locks keeps the invariant, if
\* it enters idle and the body only with the locks that go with them.
LEMMA SameLocks ==
  ASSUME Inv, TypeOK', NEW t \in Threads, UNCHANGED owner,
         \A u \in Threads : u # t => tx'[u] = tx[u],
         tx'[t].locks = tx[t].locks,
         tx'[t].pc = "idle" => tx[t].locks = 0,
         tx'[t].pc = "body" => tx[t].locks = Participants
  PROVE  Inv'
<1>1. \A u \in Threads : tx'[u].locks = tx[u].locks
  OBVIOUS
<1>2. Held'
  BY <1>1 DEF Inv, Held, Stores
<1>3. Phases'
  BY DEF Inv, Phases
<1> QED
  BY <1>2, <1>3 DEF Inv

\* So does one that leaves the transactions alone.
LEMMA NoTransactionStep ==
  ASSUME Inv, TypeOK', UNCHANGED <<owner, tx>>
  PROVE  Inv'
BY DEF Inv, Held, Phases, Stores

\* Entering a transaction takes no lock yet.
LEMMA BeginKeeps ==
  ASSUME Inv, NEW t \in Threads, Begin(t)
  PROVE  Inv'
<1>1. /\ \A u \in Threads : u # t => tx'[u] = tx[u]
      /\ tx'[t].locks = tx[t].locks
      /\ tx'[t].pc = "acquire"
      /\ UNCHANGED owner
  BY DEF Inv, TypeOK, Begin
<1>2. TypeOK'
  BY DEF Inv, TypeOK, Transaction, Pc, Outcome, Begin
<1> QED
  BY <1>1, <1>2, SameLocks

\* The body is entered with every lock.
LEMMA SnapshotKeeps ==
  ASSUME Inv, NEW t \in Threads, Snapshot(t)
  PROVE  Inv'
<1>1. /\ \A u \in Threads : u # t => tx'[u] = tx[u]
      /\ tx'[t].locks = tx[t].locks
      /\ tx'[t].pc = "body"
      /\ tx[t].locks = Participants
      /\ UNCHANGED owner
  BY DEF Inv, TypeOK, Snapshot
<1>2. tx' \in [Threads -> Transaction]
  <2>1. tx[t] \in Transaction /\ data \in [Stores -> Values]
    BY DEF Inv, TypeOK
  <2> DEFINE r == [tx[t] EXCEPT !.pc = "body", !.snapshots = data]
  <2>2. r \in Transaction
    BY <2>1 DEF Transaction, Pc
  <2>3. tx' = [tx EXCEPT ![t] = r]
    BY DEF Snapshot
  <2> HIDE DEF r
  <2> QED
    BY <2>2, <2>3 DEF Inv, TypeOK
<1>3. TypeOK'
  BY <1>2 DEF Inv, TypeOK, Snapshot
<1> QED
  BY <1>1, <1>3, SameLocks

\* A failed __enter__ goes on to give back what it took.
LEMMA EnterFailsKeeps ==
  ASSUME Inv, NEW t \in Threads, EnterFails(t)
  PROVE  Inv'
<1>1. /\ \A u \in Threads : u # t => tx'[u] = tx[u]
      /\ tx'[t].locks = tx[t].locks
      /\ tx'[t].pc = "release"
      /\ UNCHANGED owner
  BY DEF Inv, TypeOK, EnterFails
<1>2. TypeOK'
  BY DEF Inv, TypeOK, Transaction, Pc, Outcome, EnterFails
<1> QED
  BY <1>1, <1>2, SameLocks

\* commit stays in the body.
LEMMA CommitKeeps ==
  ASSUME Inv, NEW t \in Threads, Commit(t)
  PROVE  Inv'
<1>1. /\ \A u \in Threads : u # t => tx'[u] = tx[u]
      /\ tx'[t].locks = tx[t].locks
      /\ tx'[t].pc = "body"
      /\ tx[t].pc = "body"
      /\ UNCHANGED owner
  BY DEF Inv, TypeOK, Commit
<1>2. TypeOK'
  BY DEF Inv, TypeOK, Transaction, Pc, Outcome, Commit
<1> QED
  BY <1>1, <1>2, SameLocks DEF Inv, Phases

\* __exit__ after a commit starts to give the locks back.
LEMMA ExitCommittedKeeps ==
  ASSUME Inv, NEW t \in Threads, ExitCommitted(t)
  PROVE  Inv'
<1>1. /\ \A u \in Threads : u # t => tx'[u] = tx[u]
      /\ tx'[t].locks = tx[t].locks
      /\ tx'[t].pc = "release"
      /\ UNCHANGED owner
  BY DEF Inv, TypeOK, ExitCommitted
<1>2. TypeOK'
  BY DEF Inv, TypeOK, Transaction, Pc, Outcome, ExitCommitted
<1> QED
  BY <1>1, <1>2, SameLocks

\* So does __exit__ after a failure, once the snapshots are restored.
LEMMA ExitRollbackKeeps ==
  ASSUME Inv, NEW t \in Threads, ExitRollback(t)
  PROVE  Inv'
<1>1. /\ \A u \in Threads : u # t => tx'[u] = tx[u]
      /\ tx'[t].locks = tx[t].locks
      /\ tx'[t].pc = "release"
      /\ UNCHANGED owner
  BY DEF Inv, TypeOK, ExitRollback
<1>2. TypeOK'
  BY DEF Inv, TypeOK, Transaction, Pc, Outcome, ExitRollback, Restored
<1> QED
  BY <1>1, <1>2, SameLocks

\* The context is left without a lock.
LEMMA LeaveKeeps ==
  ASSUME Inv, NEW t \in Threads, Leave(t)
  PROVE  Inv'
<1>1. /\ \A u \in Threads : u # t => tx'[u] = tx[u]
      /\ tx'[t].locks = tx[t].locks
      /\ tx'[t].pc = "idle"
      /\ tx[t].locks = 0
      /\ UNCHANGED owner
  BY DEF Inv, TypeOK, Leave
<1>2. TypeOK'
  BY DEF Inv, TypeOK, Transaction, Pc, Outcome, Leave
<1> QED
  BY <1>1, <1>2, SameLocks

\* The next lock in the order was free, and extends what the thread owns by one.
LEMMA AcquireKeeps ==
  ASSUME Inv, NEW t \in Threads, Acquire(t)
  PROVE  Inv'
<1> DEFINE k == tx[t].locks + 1
<1>1. /\ k \in Stores
      /\ owner[k] = NoThread
      /\ owner' = [owner EXCEPT ![k] = t]
      /\ tx[t].pc = "acquire"
      /\ tx' = [tx EXCEPT ![t].locks = @ + 1]
      /\ UNCHANGED <<data, seen, outcome>>
  BY DEF Acquire, NextLock
<1>2. tx[t].locks \in 0..Participants /\ k \in 0..Participants
  BY <1>1, TransactionFields, UnitOfWorkAssumption DEF Inv, Stores
<1>3. /\ \A u \in Threads : u # t => tx'[u] = tx[u]
      /\ tx'[t].locks = k
      /\ tx'[t].pc = "acquire"
  BY <1>1 DEF Inv, TypeOK
<1>4. TypeOK'
  <2>1. tx' \in [Threads -> Transaction]
    BY <1>1, <1>2 DEF Inv, TypeOK, Transaction
  <2>2. owner' \in [Stores -> Threads \cup {NoThread}]
    BY <1>1 DEF Inv, TypeOK
  <2> QED
    BY <1>1, <2>1, <2>2 DEF Inv, TypeOK
<1>5. Held'
  <2> SUFFICES ASSUME NEW u \in Threads, NEW s \in Stores
               PROVE  owner'[s] = u <=> s <= tx'[u].locks
    BY DEF Held, Stores
  <2>1. s \in Int /\ tx[u].locks \in Int /\ tx[t].locks \in Int
    BY TransactionFields, UnitOfWorkAssumption DEF Inv, Stores
  <2>2. owner[s] = u <=> s <= tx[u].locks
    BY DEF Inv, Held
  <2>3. owner[k] = NoThread /\ u # NoThread
    BY <1>1, UnitOfWorkAssumption
  <2>4. owner'[s] = IF s = k THEN t ELSE owner[s]
    BY <1>1 DEF Inv, TypeOK
  <2>5. s = k => ~(s <= tx[u].locks)
    BY <2>2, <2>3
  <2> HIDE DEF k
  <2>6. CASE u = t
    <3>1. s <= k <=> s = k \/ s <= tx[t].locks
      BY <2>1 DEF k
    <3> QED
      BY <1>3, <2>2, <2>4, <2>6, <3>1
  <2>7. CASE u # t
    BY <1>3, <2>2, <2>4, <2>5, <2>7
  <2> QED
    BY <2>6, <2>7
<1>6. Phases'
  BY <1>3 DEF Inv, Phases
<1> QED
  BY <1>4, <1>5, <1>6 DEF Inv

\* The last lock taken is the thread's own, and is given back first.
LEMMA ReleaseKeeps ==
  ASSUME Inv, NEW t \in Threads, Release(t)
  PROVE  Inv'
<1> DEFINE k == tx[t].locks
<1>1. /\ k > 0
      /\ owner' = [owner EXCEPT ![k] = NoThread]
      /\ tx[t].pc = "release"
      /\ tx' = [tx EXCEPT ![t].locks = @ - 1]
      /\ UNCHANGED <<data, seen, outcome>>
  BY DEF Release
<1>2. k \in Stores /\ k - 1 \in 0..Participants
  BY <1>1, TransactionFields, UnitOfWorkAssumption DEF Inv, Stores
<1>3. /\ \A u \in Threads : u # t => tx'[u] = tx[u]
      /\ tx'[t].locks = k - 1
      /\ tx'[t].pc = "release"
  BY <1>1 DEF Inv, TypeOK
<1>4. TypeOK'
  <2>1. tx' \in [Threads -> Transaction]
    BY <1>1, <1>2 DEF Inv, TypeOK, Transaction
  <2>2. owner' \in [Stores -> Threads \cup {NoThread}]
    BY <1>1 DEF Inv, TypeOK
  <2> QED
    BY <1>1, <2>1, <2>2 DEF Inv, TypeOK
<1>5. Held'
  <2> SUFFICES ASSUME NEW u \in Threads, NEW s \in Stores
               PROVE  owner'[s] = u <=> s <= tx'[u].locks
    BY DEF Held, Stores
  <2>1. s \in Int /\ tx[u].locks \in Int /\ k \in Int
    BY TransactionFields, UnitOfWorkAssumption DEF Inv, Stores
  <2>2. owner[s] = u <=> s <= tx[u].locks
    BY DEF Inv, Held
  <2>3. owner[k] = t /\ u # NoThread
    <3>1. k <= k
      BY <2>1
    <3>2. owner[k] = t <=> k <= tx[t].locks
      BY <1>2 DEF Inv, Held
    <3> QED
      BY <3>1, <3>2, UnitOfWorkAssumption
  <2>4. owner'[s] = IF s = k THEN NoThread ELSE owner[s]
    BY <1>1 DEF Inv, TypeOK
  <2>5. u # t /\ s = k => ~(s <= tx[u].locks)
    BY <2>2, <2>3
  <2>6. s <= k - 1 <=> s # k /\ s <= k
    BY <2>1
  <2>7. u = t => (owner[s] = u <=> s <= k)
    BY <2>2
  <2> HIDE DEF k
  <2>8. CASE u = t
    BY <1>3, <2>3, <2>4, <2>6, <2>7, <2>8
  <2>9. CASE u # t
    BY <1>3, <2>2, <2>3, <2>4, <2>5, <2>9
  <2> QED
    BY <2>8, <2>9
<1>6. Phases'
  BY <1>3 DEF Inv, Phases
<1> QED
  BY <1>4, <1>5, <1>6 DEF Inv

\* Initially nobody owns anything.
LEMMA InitInv ==
  ASSUME Init
  PROVE  Inv
<1>1. TypeOK
  BY UnitOfWorkAssumption DEF Init, TypeOK, Transaction, Pc, Outcome
<1>2. Held
  BY UnitOfWorkAssumption DEF Init, Held, Stores
<1>3. Phases
  BY DEF Init, Phases
<1> QED
  BY <1>1, <1>2, <1>3 DEF Inv

\* Every step keeps the invariant.
LEMMA NextInv ==
  ASSUME Inv, [Next]_vars
  PROVE  Inv'
<1>1. CASE UNCHANGED vars
  <2>1. TypeOK'
    BY <1>1 DEF vars, Inv, TypeOK
  <2> QED
    BY <1>1, <2>1, NoTransactionStep DEF vars
<1>2. ASSUME NEW t \in Threads, Begin(t) \/ Proceed(t) \/ EnterFails(t) \/ Commit(t)
      PROVE  Inv'
  BY <1>2, BeginKeeps, AcquireKeeps, SnapshotKeeps, EnterFailsKeeps, CommitKeeps,
     ExitCommittedKeeps, ExitRollbackKeeps, ReleaseKeeps, LeaveKeeps DEF Proceed
<1>3. ASSUME NEW t \in Threads, NEW s \in Stores, Get(t, s)
      PROVE  Inv'
  <2>1. TypeOK'
    BY <1>3 DEF Get, Inv, TypeOK
  <2> QED
    BY <1>3, <2>1, NoTransactionStep DEF Get
<1>4. ASSUME NEW t \in Threads, NEW s \in Stores, NEW v \in Values,
             Put(t, s, v) \/ Write(t, s, v)
      PROVE  Inv'
  <2>1. TypeOK'
    BY <1>4 DEF Put, Write, Inv, TypeOK
  <2> QED
    BY <1>4, <2>1, NoTransactionStep DEF Put, Write
<1> QED
  BY <1>1, <1>2, <1>3, <1>4 DEF Next

\* The invariant holds in every reachable state.
THEOREM UnitOfWorkInvariant == Spec => []Inv
<1>1. Init => Inv
  BY InitInv
<1>2. Inv /\ [Next]_vars => Inv'
  BY NextInv
<1> QED
  BY <1>1, <1>2, PTL DEF Spec

\* Type correctness.
THEOREM UnitOfWorkTypeCorrect == Spec => []TypeOK
<1>1. Inv => TypeOK
  BY DEF Inv
<1> QED
  BY <1>1, UnitOfWorkInvariant, PTL

-----------------------------------------------------------------------------
(* Locks.                                                                  *)

\* Held, in the words of LocksAccounted.
LEMMA InvLocksAccounted ==
  ASSUME Inv
  PROVE  LocksAccounted
<1> SUFFICES ASSUME NEW t \in Threads
             PROVE  {s \in Stores : owner[s] = t} = 1..tx[t].locks
  BY DEF Inv, Phases, LocksAccounted
<1>1. tx[t].locks \in 0..Participants
  BY TransactionFields DEF Inv
<1>2. 1..tx[t].locks = {s \in Stores : s <= tx[t].locks}
  BY <1>1, UnitOfWorkAssumption DEF Stores
<1> QED
  BY <1>2 DEF Inv, Held

\* Every thread owns exactly the locks that its transaction has taken and not
\* yet given back (__enter__, __exit__ and _release_locks, on every path).
THEOREM LocksAlwaysAccounted == Spec => []LocksAccounted
<1>1. Inv => LocksAccounted
  BY InvLocksAccounted
<1> QED
  BY <1>1, UnitOfWorkInvariant, PTL

\* Among the transactions under way one has the most locks; the lock it waits
\* for belongs to nobody, since its owner would have more.
LEMMA InvSomeoneProceeds ==
  ASSUME Inv
  PROVE  SomeoneProceeds
<1> SUFFICES ASSUME NEW t0 \in Threads, tx[t0].pc # "idle"
             PROVE  \E t \in Threads :
                      /\ tx[t].pc # "idle"
                      /\ (\E s \in Stores : Waits(t, s)) =>
                           \E s \in Stores : Waits(t, s) /\ owner[s] = NoThread
  BY DEF SomeoneProceeds
<1> DEFINE Under == {t \in Threads : tx[t].pc # "idle"}
           Missing == {Participants - tx[t].locks : t \in Under}
           R == OpToRel(<, Nat)
<1>1. ASSUME NEW t \in Under
      PROVE  Participants - tx[t].locks \in Nat
  <2>1. tx[t].locks \in 0..Participants
    BY TransactionFields DEF Inv
  <2> QED
    BY <2>1, UnitOfWorkAssumption
<1>2. Missing \subseteq Nat /\ Missing # {}
  BY <1>1
<1>3. PICK x \in Missing : \A y \in Missing : ~(<<y, x>> \in R)
  <2>1. IsWellFoundedOn(R, Nat)
    BY NatLessThanWellFounded
  <2> HIDE DEF R, Missing
  <2> QED
    BY <1>2, <2>1, WFMin
<1>4. \A y \in Missing : ~(y < x)
  BY <1>2, <1>3 DEF OpToRel
<1>5. PICK t \in Under : x = Participants - tx[t].locks
  OBVIOUS
<1>6. ASSUME NEW s \in Stores, Waits(t, s), owner[s] # NoThread
      PROVE  FALSE
  <2>1. PICK u \in Threads : owner[s] = u
    BY <1>6 DEF Inv, TypeOK
  <2>2. s <= tx[u].locks
    BY <2>1 DEF Inv, Held
  <2>3. s = tx[t].locks + 1
    BY <1>6 DEF Waits, NextLock
  <2>4. tx[u].locks \in Int /\ tx[t].locks \in 0..Participants /\ tx[t].locks \in Int
    BY TransactionFields DEF Inv
  <2>5. tx[t].locks < tx[u].locks /\ tx[u].locks # 0
    BY <2>2, <2>3, <2>4, UnitOfWorkAssumption
  <2>6. u \in Under
    BY <2>5 DEF Inv, Phases
  <2>7. Participants - tx[u].locks \in Missing
    BY <2>6
  <2> HIDE DEF Missing, Under
  <2> QED
    BY <1>4, <1>5, <2>4, <2>5, <2>7, UnitOfWorkAssumption
<1> QED
  BY <1>6

\* Transactions cannot block each other for good: the fixed order in which
\* __enter__ takes the locks always leaves one of them a step.
THEOREM NoDeadlock == Spec => []SomeoneProceeds
<1>1. Inv => SomeoneProceeds
  BY InvSomeoneProceeds
<1> QED
  BY <1>1, UnitOfWorkInvariant, PTL

-----------------------------------------------------------------------------
(* Atomicity.                                                              *)

\* A transaction that is not over has no outcome yet.
Undecided ==
  \A t \in Threads : tx[t].pc \in {"acquire", "body"} => outcome[t] = "none"

\* A step of one thread keeps it if that thread is not decided in these phases.
LEMMA UndecidedStep ==
  ASSUME Undecided, NEW t \in Threads,
         \A u \in Threads : u # t => tx'[u] = tx[u] /\ outcome'[u] = outcome[u],
         tx'[t].pc \in {"acquire", "body"} => outcome'[t] = "none"
  PROVE  Undecided'
BY DEF Undecided

\* Every step keeps it: what leads into these phases is Begin.
LEMMA NextUndecided ==
  ASSUME Inv, Undecided, [Next]_vars
  PROVE  Undecided'
<1>1. CASE UNCHANGED vars
  BY <1>1 DEF vars, Undecided
<1>2. ASSUME NEW t \in Threads, Acquire(t)
      PROVE  Undecided'
  <2>1. /\ \A u \in Threads : u # t => tx'[u] = tx[u] /\ outcome'[u] = outcome[u]
        /\ tx'[t].pc \in {"acquire", "body"} => outcome'[t] = "none"
    BY <1>2 DEF Acquire, Inv, TypeOK, Undecided
  <2> QED
    BY <2>1, UndecidedStep
<1>3. ASSUME NEW t \in Threads, Snapshot(t)
      PROVE  Undecided'
  <2>1. /\ \A u \in Threads : u # t => tx'[u] = tx[u] /\ outcome'[u] = outcome[u]
        /\ tx'[t].pc \in {"acquire", "body"} => outcome'[t] = "none"
    BY <1>3 DEF Snapshot, Inv, TypeOK, Undecided
  <2> QED
    BY <2>1, UndecidedStep
<1>4. ASSUME NEW t \in Threads, Commit(t)
      PROVE  Undecided'
  <2>1. /\ \A u \in Threads : u # t => tx'[u] = tx[u] /\ outcome'[u] = outcome[u]
        /\ tx'[t].pc \in {"acquire", "body"} => outcome'[t] = "none"
    BY <1>4 DEF Commit, Inv, TypeOK, Undecided
  <2> QED
    BY <2>1, UndecidedStep
<1>5. ASSUME NEW t \in Threads, Release(t)
      PROVE  Undecided'
  <2>1. /\ \A u \in Threads : u # t => tx'[u] = tx[u] /\ outcome'[u] = outcome[u]
        /\ tx'[t].pc \in {"acquire", "body"} => outcome'[t] = "none"
    BY <1>5 DEF Release, Inv, TypeOK, Undecided
  <2> QED
    BY <2>1, UndecidedStep
<1>6. ASSUME NEW t \in Threads, Leave(t)
      PROVE  Undecided'
  <2>1. /\ \A u \in Threads : u # t => tx'[u] = tx[u] /\ outcome'[u] = outcome[u]
        /\ tx'[t].pc \in {"acquire", "body"} => outcome'[t] = "none"
    BY <1>6 DEF Leave, Inv, TypeOK, Undecided
  <2> QED
    BY <2>1, UndecidedStep
<1>7. ASSUME NEW t \in Threads, Begin(t)
      PROVE  Undecided'
  <2>1. /\ \A u \in Threads : u # t => tx'[u] = tx[u] /\ outcome'[u] = outcome[u]
        /\ tx'[t].pc \in {"acquire", "body"} => outcome'[t] = "none"
    BY <1>7 DEF Begin, Inv, TypeOK
  <2> QED
    BY <2>1, UndecidedStep
<1>8. ASSUME NEW t \in Threads, EnterFails(t)
      PROVE  Undecided'
  <2>1. /\ \A u \in Threads : u # t => tx'[u] = tx[u] /\ outcome'[u] = outcome[u]
        /\ tx'[t].pc \in {"acquire", "body"} => outcome'[t] = "none"
    BY <1>8 DEF EnterFails, Inv, TypeOK
  <2> QED
    BY <2>1, UndecidedStep
<1>9. ASSUME NEW t \in Threads, ExitCommitted(t)
      PROVE  Undecided'
  <2>1. /\ \A u \in Threads : u # t => tx'[u] = tx[u] /\ outcome'[u] = outcome[u]
        /\ tx'[t].pc \in {"acquire", "body"} => outcome'[t] = "none"
    BY <1>9 DEF ExitCommitted, Inv, TypeOK
  <2> QED
    BY <2>1, UndecidedStep
<1>10. ASSUME NEW t \in Threads, ExitRollback(t)
      PROVE  Undecided'
  <2>1. /\ \A u \in Threads : u # t => tx'[u] = tx[u] /\ outcome'[u] = outcome[u]
        /\ tx'[t].pc \in {"acquire", "body"} => outcome'[t] = "none"
    BY <1>10 DEF ExitRollback, Inv, TypeOK
  <2> QED
    BY <2>1, UndecidedStep
<1>11. ASSUME NEW t \in Threads, NEW s \in Stores, Get(t, s)
      PROVE  Undecided'
  BY <1>11 DEF Get, Undecided
<1>12. ASSUME NEW t \in Threads, NEW s \in Stores, NEW v \in Values,
             Put(t, s, v) \/ Write(t, s, v)
      PROVE  Undecided'
  BY <1>12 DEF Put, Write, Undecided
<1> QED
  BY <1>1, <1>2, <1>3, <1>4, <1>5, <1>6, <1>7, <1>8, <1>9, <1>10, <1>11, <1>12 DEF Next, Proceed

\* What is visible after a step that changes no snapshot in use.
LEMMA VisibleKept ==
  ASSUME Active' = Active, UNCHANGED data,
         \A u \in Active : tx'[u].snapshots = tx[u].snapshots
  PROVE  Visible' = Visible
<1>1. Stores' = Stores
  BY DEF Stores
<1>2. CASE Active = {}
  BY <1>1, <1>2 DEF Visible
<1>3. CASE Active # {}
  <2>1. PICK c \in Active : c = CHOOSE t \in Active : TRUE
    BY <1>3
  <2>2. (CHOOSE t \in Active' : TRUE) = c
    BY <2>1
  <2>3. tx'[c].snapshots = tx[c].snapshots
    OBVIOUS
  <2>4. Visible' = [s \in Stores |-> tx'[c].snapshots[s]]
    <3>1. Active' # {}
      BY <1>3
    <3> QED
      BY <2>2, <3>1 DEF Visible, Stores
  <2>5. Visible = [s \in Stores |-> tx[c].snapshots[s]]
    BY <1>3, <2>1 DEF Visible
  <2> QED
    BY <2>3, <2>4, <2>5
<1> QED
  BY <1>2, <1>3

\* The same after a step.
LEMMA VisibleOutsideNext ==
  ASSUME data' \in [Stores -> Values], Active' = {}
  PROVE  Visible' = data'
<1>1. Visible' = [s \in Stores |-> data'[s]]
  BY DEF Visible, Stores
<1> QED
  BY <1>1

\* A step outside the body neither starts nor ends one.
LEMMA StepOutsideBody ==
  ASSUME Inv, NEW t \in Threads,
         Begin(t) \/ Acquire(t) \/ EnterFails(t) \/ Release(t) \/ Leave(t)
  PROVE  Visible' = Visible
<1>1. /\ \A u \in Threads : u # t => tx'[u] = tx[u]
      /\ tx[t].pc # "body"
      /\ tx'[t].pc # "body"
      /\ UNCHANGED data
  <2>1. CASE Begin(t)
    BY <2>1 DEF Inv, TypeOK, Begin
  <2>2. CASE Acquire(t)
    BY <2>2 DEF Inv, TypeOK, Acquire
  <2>3. CASE EnterFails(t)
    BY <2>3 DEF Inv, TypeOK, EnterFails
  <2>4. CASE Release(t)
    BY <2>4 DEF Inv, TypeOK, Release
  <2>5. CASE Leave(t)
    BY <2>5 DEF Inv, TypeOK, Leave
  <2> QED
    BY <2>1, <2>2, <2>3, <2>4, <2>5
<1>2. Active' = Active
  BY <1>1 DEF Active
<1>3. \A u \in Active : tx'[u].snapshots = tx[u].snapshots
  BY <1>1 DEF Active
<1> QED
  BY <1>1, <1>2, <1>3, VisibleKept

\* Taking the snapshots shows nothing.
LEMMA SnapshotShowsNothing ==
  ASSUME Inv, NEW t \in Threads, Snapshot(t)
  PROVE  Visible' = Visible
<1>1. /\ \A u \in Threads : u # t => tx'[u] = tx[u]
      /\ tx'[t].pc = "body"
      /\ tx'[t].snapshots = data
      /\ tx[t].pc = "acquire"
      /\ tx[t].locks = Participants
      /\ UNCHANGED data
  BY DEF Inv, TypeOK, Snapshot, Transaction
<1>2. Active = {}
  <2>1. 1 \in Stores /\ 1 <= Participants
    BY UnitOfWorkAssumption DEF Stores
  <2>2. owner[1] = t
    BY <1>1, <2>1 DEF Inv, Held
  <2>3. ASSUME NEW u \in Threads, tx[u].pc = "body"
        PROVE  FALSE
    BY <1>1, <2>1, <2>2, <2>3, BodyOwnsAll
  <2> QED
    BY <2>3 DEF Active
<1>3. Active' = {t}
  BY <1>1, <1>2 DEF Active
<1>4. Visible = data
  BY <1>2, VisibleOutside DEF Inv
<1>5. (CHOOSE u \in Active' : TRUE) = t
  BY <1>3
<1>6. Visible' = [s \in Stores |-> tx'[t].snapshots[s]]
  BY <1>3, <1>5 DEF Visible, Stores
<1> QED
  BY <1>1, <1>4, <1>6 DEF Inv, TypeOK

\* Nor does what the body does.
LEMMA BodyShowsNothing ==
  ASSUME Inv, NEW t \in Threads,
         Commit(t) \/ \E s \in Stores, v \in Values : Write(t, s, v)
  PROVE  Visible' = Visible
<1>1. tx[t].pc = "body"
  BY DEF Commit, Write
<1>2. /\ \A u \in Threads : tx'[u].pc = tx[u].pc
      /\ \A u \in Threads : tx'[u].snapshots = tx[u].snapshots
  <2>1. CASE Commit(t)
    <3>1. /\ \A u \in Threads : u # t => tx'[u] = tx[u]
          /\ tx'[t].pc = tx[t].pc
          /\ tx'[t].snapshots = tx[t].snapshots
      BY <2>1 DEF Commit, Inv, TypeOK, Transaction
    <3> QED
      BY <3>1
  <2>2. CASE \E s \in Stores, v \in Values : Write(t, s, v)
    BY <2>2 DEF Write
  <2> QED
    BY <2>1, <2>2
<1>3. Active = {t} /\ Active' = {t}
  <2>1. Active = {t}
    BY <1>1, OneInBody
  <2> QED
    BY <1>2, <2>1 DEF Active
<1>4. (CHOOSE u \in Active : TRUE) = t /\ (CHOOSE u \in Active' : TRUE) = t
  BY <1>3
<1>5. Visible = [s \in Stores |-> tx[t].snapshots[s]]
  BY <1>3, <1>4 DEF Visible
<1>6. Visible' = [s \in Stores |-> tx'[t].snapshots[s]]
  BY <1>3, <1>4 DEF Visible, Stores
<1> QED
  BY <1>2, <1>5, <1>6

\* Leaving the body shows what the stores hold by then.
LEMMA ExitShowsData ==
  ASSUME Inv, NEW t \in Threads, ExitCommitted(t) \/ ExitRollback(t)
  PROVE  Visible' = data' /\ data' \in [Stores -> Values]
<1>1. /\ \A u \in Threads : u # t => tx'[u] = tx[u]
      /\ tx[t].pc = "body"
      /\ tx'[t].pc = "release"
  <2>1. CASE ExitCommitted(t)
    BY <2>1 DEF ExitCommitted, Inv, TypeOK
  <2>2. CASE ExitRollback(t)
    BY <2>2 DEF ExitRollback, Inv, TypeOK
  <2> QED
    BY <2>1, <2>2
<1>2. data' \in [Stores -> Values]
  <2>1. tx[t].snapshots \in [Stores -> Values]
    BY TransactionFields DEF Inv
  <2> QED
    BY <2>1 DEF ExitCommitted, ExitRollback, Restored, Inv, TypeOK
<1>3. Active' = {}
  <2>1. Active = {t}
    BY <1>1, OneInBody
  <2> QED
    BY <1>1, <2>1 DEF Active
<1> QED
  BY <1>2, <1>3, VisibleOutsideNext

\* Every step is a step of AtomicStores on what is visible, or shows nothing.
LEMMA StepRefines ==
  ASSUME Inv, Undecided, [Next]_vars
  PROVE  [Atomic!Next]_(Atomic!atomic)
<1>1. CASE UNCHANGED vars
  <2>1. Visible' = Visible
    <3>1. Active' = Active
      BY <1>1 DEF vars, Active
    <3>2. \A u \in Active : tx'[u].snapshots = tx[u].snapshots
      BY <1>1 DEF vars
    <3> QED
      BY <1>1, <3>1, <3>2, VisibleKept DEF vars
  <2> QED
    BY <1>1, <2>1 DEF vars, Atomic!atomic
<1>2. ASSUME NEW t \in Threads, Acquire(t) \/ Release(t) \/ Leave(t)
      PROVE  UNCHANGED Atomic!atomic
  <2>1. Visible' = Visible
    BY <1>2, StepOutsideBody
  <2> QED
    BY <1>2, <2>1 DEF Acquire, Release, Leave, Atomic!atomic
<1>3. ASSUME NEW t \in Threads, Snapshot(t)
      PROVE  UNCHANGED Atomic!atomic
  <2>1. Visible' = Visible
    BY <1>3, SnapshotShowsNothing
  <2> QED
    BY <1>3, <2>1 DEF Snapshot, Atomic!atomic
<1>4. ASSUME NEW t \in Threads,
             Commit(t) \/ \E s \in Stores, v \in Values : Write(t, s, v)
      PROVE  UNCHANGED Atomic!atomic
  <2>1. Visible' = Visible
    BY <1>4, BodyShowsNothing
  <2> QED
    BY <1>4, <2>1 DEF Commit, Write, Atomic!atomic
<1>5. ASSUME NEW t \in Threads, Begin(t)
      PROVE  Atomic!Begin(t)
  <2>1. Visible' = Visible
    BY <1>5, StepOutsideBody
  <2> QED
    BY <1>5, <2>1 DEF Begin, Atomic!Begin
<1>6. ASSUME NEW t \in Threads, EnterFails(t)
      PROVE  Atomic!Rollback(t)
  <2>1. Visible' = Visible
    BY <1>6, StepOutsideBody
  <2>2. outcome[t] = "none"
    BY <1>6 DEF EnterFails, Undecided
  <2> QED
    BY <1>6, <2>1, <2>2 DEF EnterFails, Atomic!Rollback
<1>7. ASSUME NEW t \in Threads, ExitCommitted(t)
      PROVE  Atomic!Commit(t)
  <2>1. Visible' \in [Stores -> Values]
    BY <1>7, ExitShowsData
  <2>2. outcome[t] = "none"
    BY <1>7 DEF ExitCommitted, Undecided
  <2> QED
    BY <1>7, <2>1, <2>2 DEF ExitCommitted, Atomic!Commit
<1>8. ASSUME NEW t \in Threads, ExitRollback(t)
      PROVE  Atomic!Rollback(t)
  <2>1. tx[t].pc = "body" /\ data' = Restored(t)
    BY <1>8 DEF ExitRollback
  <2>2. Restored(t) = tx[t].snapshots
    <3>1. tx[t].snapshots \in [Stores -> Values]
      BY TransactionFields DEF Inv
    <3> QED
      BY <3>1 DEF Restored
  <2>3. Visible' = Visible
    BY <1>8, <2>1, <2>2, ExitShowsData, VisibleInBody
  <2>4. outcome[t] = "none"
    BY <2>1 DEF Undecided
  <2> QED
    BY <1>8, <2>3, <2>4 DEF ExitRollback, Atomic!Rollback
<1>9. ASSUME NEW t \in Threads, NEW s \in Stores, Get(t, s)
      PROVE  Atomic!Get(t, s)
  <2>1. Visible = data
    BY <1>9, FreeLockMeansNobody, VisibleOutside DEF Get, Inv
  <2>2. Visible' = Visible
    <3>1. Active' = Active
      BY <1>9 DEF Get, Active
    <3>2. \A u \in Active : tx'[u].snapshots = tx[u].snapshots
      BY <1>9 DEF Get
    <3> QED
      BY <1>9, <3>1, <3>2, VisibleKept DEF Get
  <2> QED
    BY <1>9, <2>1, <2>2 DEF Get, Atomic!Get
<1>10. ASSUME NEW t \in Threads, NEW s \in Stores, NEW v \in Values, Put(t, s, v)
      PROVE  Atomic!Put(s, v)
  <2>1. Active = {}
    BY <1>10, FreeLockMeansNobody DEF Put
  <2>2. Visible = data
    BY <2>1, VisibleOutside DEF Inv
  <2>3. data' \in [Stores -> Values] /\ data' = [data EXCEPT ![s] = v]
    BY <1>10 DEF Put, Inv, TypeOK
  <2>4. Active' = {}
    BY <1>10, <2>1 DEF Put, Active
  <2>5. Visible' = data'
    BY <2>3, <2>4, VisibleOutsideNext
  <2> QED
    BY <1>10, <2>2, <2>3, <2>5 DEF Put, Atomic!Put
<1> QED
  BY <1>1, <1>2, <1>3, <1>4, <1>5, <1>6, <1>7, <1>8, <1>9, <1>10
  DEF Next, Proceed, Atomic!Next

\* The unit of work implements AtomicStores: the docstring of
\* InMemoryReminderTransaction holds for any number of threads and stores.
THEOREM TransactionsAreAtomic == Spec => ImplementsAtomicStores
<1>1. Init => Inv /\ Undecided
  BY InitInv DEF Init, Undecided
<1>2. Init => Atomic!Init
  <2> SUFFICES ASSUME Init PROVE Atomic!Init
    OBVIOUS
  <2>1. Active = {}
    BY DEF Init, Active
  <2>2. Visible = data
    BY <2>1, InitInv, VisibleOutside DEF Inv
  <2> QED
    BY <2>2 DEF Init, Atomic!Init
<1>3. Inv /\ Undecided /\ [Next]_vars => Inv' /\ Undecided'
  BY NextInv, NextUndecided
<1>4. Inv /\ Undecided /\ [Next]_vars => [Atomic!Next]_(Atomic!atomic)
  BY StepRefines
<1> QED
  BY <1>1, <1>2, <1>3, <1>4, PTL DEF Spec, ImplementsAtomicStores, Atomic!Spec

=============================================================================
