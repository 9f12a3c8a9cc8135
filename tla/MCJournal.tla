----------------------------- MODULE MCJournal -----------------------------
(* The instance of Journal that TLC explores.                              *)
EXTENDS Journal, TLC

On(P, f, c, K, T) ==
  {[db |-> p, faulty |-> f, calls |-> c, keys |-> K, tags |-> T] : p \in P}

Two   == {1, 2, 11, 12}
Three == Name \cup Rand
One   == {1, 11}

\* every cloud lists datasets while they come and go (three where pages are
\* cheap), deletes all of them, and commits transactions whose calls may fail,
\* next to a client that saves.  On PostgreSQL a deletion that deleteAll left behind
\* may land, while the datasets are listed, before a save of its dataset.  The sidecar
\* does the same with and without failures
Explored ==
  On(Database \ {"datastore"}, FALSE, {"save", "delete", "list"}, Two, Tag)
  \cup On({"datastore"}, FALSE, {"save", "delete", "list"}, Three, Tag)
  \cup On(Database \ {"sidecar"}, TRUE, {"save", "deleteAll"}, Two, {})
  \cup On({"postgres"}, TRUE, {"save", "deleteAll", "list"}, {11, 12}, {})
  \cup On(Database \ {"cloudant", "sidecar"}, TRUE, {"transaction"}, Two, Tag)
  \cup On(Database, TRUE, {"save", "transaction"}, One, Tag)
  \cup On({"sidecar"}, FALSE, {"save", "deleteAll"}, Two, {})
  \cup On({"sidecar"}, FALSE, {"save", "transaction"}, One, Tag)
  \cup On({"sidecar"}, TRUE, {"save", "deleteAll"}, One, {})

Symmetry == Permutations(Client)
=============================================================================
