------------------------------ MODULE MCTenant ------------------------------
(* The instances of Tenant that TLC explores.                              *)
EXTENDS Tenant, TLC

CONSTANTS j1, j2

Same  == [v \in Version |-> j1]
Other == [v \in Version |-> IF v = 1 THEN j1 ELSE j2]

\* deletions between lookups and creations; subprojects that come and go
\* meanwhile, in one project and in one that a creation changes; applications
\* that are registered, and trusted, at the same time, and registered in two
\* projects
Explored ==
  {[ops |-> {"create", "get", "delete"}, faulty |-> TRUE, home |-> Same],
   [ops |-> {"create", "delete", "createSub", "deleteSub"}, faulty |-> FALSE, home |-> Same],
   [ops |-> {"create", "delete", "createSub"}, faulty |-> FALSE, home |-> Other],
   [ops |-> {"create", "register", "trust"}, faulty |-> TRUE, home |-> Same],
   [ops |-> {"create", "delete", "register"}, faulty |-> FALSE, home |-> Other]}

Symmetry == Permutations(Proc) \cup Permutations(Inst) \cup Permutations(Sub)
=============================================================================
