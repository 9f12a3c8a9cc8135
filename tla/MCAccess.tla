------------------------------ MODULE MCAccess ------------------------------
(* The instances of Access that TLC explores.                              *)
EXTENDS Access, TLC

CONSTANTS a1, a2, v1, v2, u1

\* a subproject with default groups among others, one without, and datasets
\* whose groups do, or do not, fit into a page
Lists == {[dataset |-> FALSE, admins |-> <<a1, a2>>, viewers |-> <<v1>>],
          [dataset |-> FALSE, admins |-> <<a2>>, viewers |-> <<v2>>],
          [dataset |-> TRUE, admins |-> <<a1>>, viewers |-> <<v1>>],
          [dataset |-> TRUE, admins |-> <<a1>>, viewers |-> <<v2>>]}

On(l, n, ops) == [dataset |-> l.dataset, admins |-> l.admins,
                  viewers |-> l.viewers, nested |-> n, ops |-> ops]

\* all of them with additions and removals, for a user who is a group when the
\* lists are short; one with authorizations, too
Resources ==
  {On(l, {}, {"add", "remove"}) : l \in Lists}
  \cup {On(l, {u1}, {"add", "remove"}) : l \in {k \in Lists : ~k.dataset /\ k.admins = <<a2>>}}
  \cup {On([dataset |-> FALSE, admins |-> <<a1>>, viewers |-> <<v1>>], {},
           {"add", "remove", "check"})}
=============================================================================
