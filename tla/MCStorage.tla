----------------------------- MODULE MCStorage -----------------------------
(* The instance of Storage that TLC explores.                              *)
EXTENDS Storage, TLC

CONSTANTS b1, b2

Places == {<<b1, 1>>, <<b1, 2>>, <<b2, 3>>}

On(P, a, f, c, S) == {[provider |-> p, policy |-> a, faulty |-> f, calls |-> c,
                       start |-> S] : p \in P}

One   == {<<b1, 1>>}
Two   == {<<b1, 1>>, <<b1, 2>>}
Other == {<<b1, 1>>, <<b2, 3>>}

\* datasets are deleted next to others that are written to, deleted and copied
\* with requests that fail; subprojects come and go
Explored ==
  On(Provider \ {"anthos"}, "uniform", FALSE, {"erase", "upload"}, Two)
  \cup On(Provider, "uniform", TRUE, {"erase"}, Two)
  \cup On(Provider, "uniform", TRUE, {"copy", "erase"}, One)
  \cup On(Provider, "uniform", TRUE, {"make", "unmake"}, Other)
  \cup On({"google"}, "uniform", TRUE, {"make", "unmake"}, {})
  \cup On({"azure"}, "dataset", TRUE, {"make", "unmake", "erase"}, Two)

Symmetry == Permutations(Slot)
=============================================================================
