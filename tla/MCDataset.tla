----------------------------- MODULE MCDataset -----------------------------
(* The instances of Dataset that TLC explores.                             *)
EXTENDS Dataset, TLC

\* so many requests, names, locations and write ids
Uses(procs, names, stores, ids) ==
  {ReadId \cup U : U \in {V \in SUBSET (Proc \cup Name \cup Store \cup WriteId) :
     /\ Cardinality(V \cap Proc) = procs
     /\ Cardinality(V \cap Name) = names
     /\ Cardinality(V \cap Store) = stores
     /\ Cardinality(V \cap WriteId) = ids}}

\* the register and delete protocol: clients that share one name, and calls
\* that fail; fewer clients with more operations, and where records are found by
\* name
Protocol ==
  [enforceKey : {TRUE}, faulty : {TRUE}, slow : {FALSE}, records : {FALSE},
   idempotent : {FALSE}, ops : {{"register", "delete", "lockWrite"}},
   uses : Uses(3, 1, 2, 2)]
  \cup
  [enforceKey : {TRUE}, faulty : {TRUE}, slow : {FALSE}, records : {FALSE},
   idempotent : {FALSE}, ops : {{"register", "delete", "lockWrite", "lockRead", "close"}},
   uses : Uses(2, 1, 2, 2)]
  \cup
  [enforceKey : {FALSE}, faulty : {TRUE}, slow : {FALSE}, records : {FALSE},
   idempotent : {FALSE}, ops : {{"register", "delete", "lockWrite", "unlock"}},
   uses : Uses(2, 1, 3, 2)]

\* the same where the mutex may expire under its owner: of two names one may
\* keep its mutex
Slow ==
  [enforceKey : {FALSE}, faulty : {FALSE}, slow : {TRUE}, records : {FALSE},
   idempotent : {FALSE}, ops : {{"register"}}, uses : Uses(2, 2, 2, 2)]
  \cup
  [enforceKey : {FALSE}, faulty : {FALSE}, slow : {TRUE}, records : {FALSE},
   idempotent : {FALSE}, ops : {{"register", "delete"}}, uses : Uses(2, 1, 2, 2)]

\* the changes of one record: a client that retries, and two names; fewer
\* operations where every call may fail and leave its writes behind
Changes ==
  [enforceKey : {TRUE}, faulty : {FALSE}, slow : {FALSE}, records : {TRUE}, idempotent : {TRUE},
   ops  : {{"register", "delete", "rename", "patch", "putTags", "computeSize"}},
   uses : Uses(1, 2, 2, 1)]
  \cup
  [enforceKey : {TRUE}, faulty : {TRUE}, slow : {FALSE}, records : {TRUE}, idempotent : {FALSE},
   ops  : {{"register", "rename", "computeSize"}},
   uses : Uses(1, 2, 2, 1)]

ProtocolAndChanges == Protocol \cup Slow \cup Changes

\* a registration with a storage record that fails
Registrations ==
  [enforceKey : {TRUE}, faulty : {TRUE}, slow : {FALSE}, records : {TRUE}, idempotent : {FALSE},
   ops  : {{"register"}},
   uses : Uses(2, 1, 2, 2)]

\* requests, locations, names and ids of one kind are interchangeable
Symmetry == Permutations(Proc) \cup Permutations(Store)
            \cup Permutations(WriteId) \cup Permutations(Name)
=============================================================================
