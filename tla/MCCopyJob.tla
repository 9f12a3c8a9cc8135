----------------------------- MODULE MCCopyJob -----------------------------
(* The instances of CopyJob that TLC explores.                             *)
EXTENDS CopyJob, TLC

CONSTANT p1   \* the request of the settings with one request

\* two requests for one destination; the locker may give up on a mutex
Two == [requests |-> Proc, withLock |-> {TRUE}, deleting |-> FALSE,
        expiring |-> {}, copyFails |-> FALSE,
        faults |-> {"busy"}]

\* one request; the copy may fail, the destination may be deleted under it, and
\* the locks may expire
One == [requests |-> {p1}, withLock |-> BOOLEAN, deleting |-> TRUE,
        expiring |-> Dataset, copyFails |-> TRUE, faults |-> {"complete", "busy"}]

\* one request, all of whose calls may fail
Failing == [One EXCEPT !.deleting = FALSE, !.expiring = {},
            !.faults = {"save", "add", "get", "complete", "abort", "busy"}]

\* one request that asks for the locks; the copy may fail
Retry == [One EXCEPT !.withLock = {TRUE}, !.expiring = {}, !.faults = {}]

Several == {Two, One, Failing}
OnlyRetry == {Retry}
=============================================================================
