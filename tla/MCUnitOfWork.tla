----------------------------- MODULE MCUnitOfWork -----------------------------
(* Model-checking values for InMemoryUnitOfWork.                           *)
EXTENDS InMemoryUnitOfWork, TLC

\* Threads are interchangeable, and so are values.
Symmetry == Permutations(Threads) \cup Permutations(Values)
=============================================================================
