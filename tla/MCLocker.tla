------------------------------ MODULE MCLocker ------------------------------
(* The instance of Locker that TLC explores.                               *)
EXTENDS Locker, TLC

\* processes, instances and ids of one kind are interchangeable (used by
\* the safety runs only)
Symmetry == Permutations(Proc) \cup Permutations(WriteId)
            \cup Permutations(ReadId) \cup Permutations(Inst)
=============================================================================
