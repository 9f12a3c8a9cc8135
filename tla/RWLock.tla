------------------------------- MODULE RWLock -------------------------------
(***************************************************************************)
(* What the dataset locker promises to the rest of the service: a resource *)
(* is free, held by one writer, or shared by readers, and it changes       *)
(* between writing and reading only by becoming free first.                *)
(*                                                                         *)
(* Revive is part of the promise because the locker writes the list of     *)
(* readers back from a copy it read earlier: when the entry expires in     *)
(* Redis in between, the write brings the readers back.                    *)
(***************************************************************************)
CONSTANTS WriteId,   \* session ids of writers ('W...')
          ReadId     \* session ids of readers ('R...')

VARIABLE holders     \* ids of the sessions that hold the resource

Init == holders = {}

TakeWrite(w) == holders = {} /\ holders' = {w}

JoinRead(r) == holders \subseteq ReadId /\ holders' = holders \cup {r}

LeaveRead(r) == holders \subseteq ReadId /\ holders' = holders \ {r}

Revive(S) == holders = {} /\ holders' = S

\* the end of a write session, a global unlock, an expiry, a rollback
Clear == holders' = {}

Next == \/ \E w \in WriteId : TakeWrite(w)
        \/ \E r \in ReadId : JoinRead(r) \/ LeaveRead(r)
        \/ \E S \in SUBSET ReadId : Revive(S)
        \/ Clear

Spec == Init /\ [][Next]_holders
=============================================================================
