---------------------------- MODULE MCCredentials ----------------------------
(* Credentials on small instances, for TLC. *)
EXTENDS Credentials, TLC

CONSTANTS s1, s2, d1, p1, p2

MCSub == {s1, s2}
MCDataset == {d1}
MCHome == d1 :> s1

Hands(provider, policy, own, kinds, ops) ==
  [provider |-> provider, policy |-> policy, own |-> own, kinds |-> kinds, exact |-> FALSE,
   ops |-> ops, calls |-> 1]

Serves(provider, exact) ==
  [provider |-> provider, policy |-> "uniform", own |-> {}, kinds |-> {}, exact |-> exact,
   ops |-> {"service"}, calls |-> 2]

Explored ==
  {Hands("google", "dataset", {d1}, {"old"}, Op \ {"service"}),
   Hands("azure", "dataset", {d1}, {"new"}, Op \ {"service"})}
  \cup {Hands("google", "uniform", {}, {}, {"credential"}),
        Hands("azure", "dataset", {}, {}, {"credential"})}
  \cup {Hands(c, "uniform", {}, {}, {"credential"}) : c \in {"azure", "aws", "ibm", "minio"}}
  \cup {Serves("google", TRUE), Serves("google", FALSE), Serves("aws", FALSE)}

Symmetric == Permutations({p1, p2})
=============================================================================
