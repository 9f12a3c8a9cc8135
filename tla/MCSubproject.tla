---------------------------- MODULE MCSubproject ----------------------------
(* The instances of Subproject that TLC explores.                          *)
EXTENDS Subproject, TLC

\* requests, names and tags of one kind are interchangeable
Symmetry == Permutations(Proc) \cup Permutations(Inst) \cup Permutations(Ltag)
            \cup Permutations(Dataset) \cup Permutations(Bucket)
            \cup Permutations(Uuid)
=============================================================================
