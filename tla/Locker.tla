------------------------------- MODULE Locker -------------------------------
(***************************************************************************)
(* The lock of one dataset: services/dataset/locker.ts over Redis.         *)
(*                                                                         *)
(* Redis keeps, for a dataset, the lock entry (absent, one write id, or    *)
(* the list of the read ids), one session key per reader, and a Redlock    *)
(* mutex; all of them expire.  Every operation is a sequence of Redis      *)
(* commands, one action each; between two of them anything may happen.     *)
(* The lock entry is the set of the ids in it: {} is an absent key.        *)
(* Time is counted in ticks; Tick is the only action that advances it.     *)
(***************************************************************************)
EXTENDS Integers, FiniteSets

CONSTANTS
  Proc,        \* requests and event handlers that run at the same time
  Inst,        \* instances of the service that subscribe to Redis events
  WriteId,     \* lock ids that start with 'W'
  ReadId,      \* lock ids that start with 'R'
  NoProc, NoId,
  WriteTtl,    \* EXP_WRITELOCK, in ticks
  ReadTtl,     \* EXP_READLOCK, in ticks
  Margin,      \* TIME_5MIN, in ticks
  SlowSection  \* may the mutex expire while a section of the locker runs?

Id == WriteId \cup ReadId

ASSUME LockerAssumption ==
  /\ WriteId \cap ReadId = {}
  /\ NoId \notin Id
  /\ NoProc \notin Proc
  /\ WriteTtl \in Nat \ {0}
  /\ ReadTtl \in Nat \ {0}
  /\ Margin \in Nat \ {0}
  /\ SlowSection \in BOOLEAN

VARIABLES
  lock,        \* the ids in the lock entry
  lockTtl,     \* ticks until the lock entry expires, 0 when it is absent
  session,     \* ticks until each read session key expires, 0 when absent
  mutex,       \* the owner of the Redlock mutex
  subscribed,  \* instances subscribed to the expired-key events
  events,      \* expired-key events <<instance, id>> not yet handled
  pc,          \* the next Redis command of each process
  req,         \* the call each process executes
  seen,        \* the lock entry each process read
  todo,        \* the session keys each process still has to delete
  left         \* the remaining TTL each process read

entry == <<lock, lockTtl>>
redis == <<entry, session>>
bus   == <<subscribed, events>>
local == <<pc, req, seen, todo, left>>
vars  == <<redis, mutex, bus, local>>

Call == [op   : {"create", "write", "read", "unlock", "expired"},
         new  : Id \cup {NoId},   \* the id a lock would be placed with
         idem : BOOLEAN,          \* did the client choose it?
         wid  : Id \cup {NoId}]   \* the id of a session held already

NoCall == [op |-> "unlock", new |-> NoId, idem |-> FALSE, wid |-> NoId]

\* the commands a process runs between acquireMutex and releaseMutex
Section == {"get", "setWrite", "setSession", "setList", "delSession",
            "getTtl", "rewrite", "delLock", "release"}

Label == Section \cup {"idle", "acquire", "body", "dropLock"}

TypeOK ==
  /\ lock \in SUBSET Id
  /\ lockTtl \in 0 .. WriteTtl + ReadTtl + Margin
  /\ session \in [ReadId -> 0 .. ReadTtl]
  /\ mutex \in Proc \cup {NoProc}
  /\ subscribed \in SUBSET Inst
  /\ events \in SUBSET (Inst \X ReadId)
  /\ pc \in [Proc -> Label]
  /\ req \in [Proc -> Call]
  /\ seen \in [Proc -> SUBSET Id]
  /\ todo \in [Proc -> SUBSET ReadId]
  /\ left \in [Proc -> 0 .. WriteTtl + ReadTtl + Margin]

Init ==
  /\ lock = {} /\ lockTtl = 0
  /\ session = [r \in ReadId |-> 0]
  /\ mutex = NoProc
  /\ subscribed = {} /\ events = {}
  /\ pc = [p \in Proc |-> "idle"]
  /\ req = [p \in Proc |-> NoCall]
  /\ seen = [p \in Proc |-> {}]
  /\ todo = [p \in Proc |-> {}]
  /\ left = [p \in Proc |-> 0]

-----------------------------------------------------------------------------
(* Calls.                                                                  *)

\* an id made of 15 random letters is one that nothing refers to
Fresh(id) ==
  /\ id \notin lock
  /\ id \in ReadId => session[id] = 0
  /\ \A i \in Inst : <<i, id>> \notin events
  /\ \A p \in Proc : id \notin seen[p] \cup {req[p].new, req[p].wid}

CreateCall == {c \in Call : c.op = "create" /\ c.new # NoId /\ c.wid = NoId
                            /\ (~c.idem => c.new \in WriteId)}
WriteCall  == {c \in Call : c.op = "write" /\ c.new \in WriteId}
ReadCall   == {c \in Call : c.op = "read" /\ c.new \in ReadId}
UnlockCall == {c \in Call : c.op = "unlock" /\ c.new = NoId /\ ~c.idem}

\* slip: a reader is let in without looking for a writer
Places_NoWriterCheck(c, l) ==
  \/ /\ c.op \in {"create", "write", "read"}
     /\ l = {}
     /\ c.op = "create" => c.new \in WriteId
  \/ c.op = "read" /\ c.wid = NoId /\ c.new \notin l

\* slip: a writer is let in when it presents no session
Places_WriterJoins(c, l) ==
  \/ c.op \in {"write", "read"} /\ l = {}
  \/ c.op = "create" /\ l = {} /\ c.new \in WriteId
  \/ c.op = "write" /\ c.wid = NoId

\* does the call place a lock when the entry it read is l?
Places(c, l) ==
  \/ /\ c.op \in {"create", "write", "read"}
     /\ l = {}
     /\ c.op = "create" => c.new \in WriteId
  \/ /\ c.op = "read"
     /\ l \subseteq ReadId
     /\ c.wid = NoId
     /\ c.new \notin l

\* is it answered from the entry: the same id again, or a "trusted open"?
Repeats(c, l) == /\ c.op \in {"create", "write", "read"}
                 /\ c.idem /\ c.new \in l
                 /\ c.op = "create" => c.new \in WriteId
\* slip: any session id opens the dataset
Trusted_AnyId(c, l) == c.op \in {"write", "read"} /\ l # {} /\ c.wid # NoId

Trusted(c, l) == c.op \in {"write", "read"} /\ c.wid \in l

Removes(c, l) ==
  \/ c.op = "unlock" /\ l # {} /\ c.wid \in l \cup {NoId}
  \/ c.op = "expired" /\ l \subseteq ReadId /\ c.wid \in l

Remaining(c, l) == IF c.wid = NoId THEN {} ELSE l \ {c.wid}

\* the session keys the removal deletes; an expired one is gone already
SessionsOf(c, l) ==
  IF c.op = "unlock" /\ l \subseteq ReadId /\ Removes(c, l)
  THEN l \ Remaining(c, l)
  ELSE {}

\* after the session keys: delete the entry, or write the rest back
Shrink(c, l) == IF Remaining(c, l) = {} THEN "delLock" ELSE "getTtl"

\* slip: an idempotent retry sets the lock again, with a new TTL
AfterGet_Renew(c, l) ==
  CASE Places(c, l) -> IF c.op = "read" THEN "setSession" ELSE "setWrite"
    [] Repeats(c, l) /\ c.op = "create" -> "setWrite"
    [] SessionsOf(c, l) # {} -> "delSession"
    [] Removes(c, l) /\ SessionsOf(c, l) = {} -> Shrink(c, l)
    [] OTHER -> "release"

\* the command that follows getLock
AfterGet(c, l) ==
  CASE Places(c, l) -> IF c.op = "read" THEN "setSession" ELSE "setWrite"
    [] Repeats(c, l) /\ c.op = "create" -> "body"
    [] SessionsOf(c, l) # {} -> "delSession"
    [] Removes(c, l) /\ SessionsOf(c, l) = {} -> Shrink(c, l)
    [] OTHER -> "release"

\* the id an acquire call returns, NoId when it answers 423
Granted(c, l) ==
  CASE Places(c, l) \/ Repeats(c, l) -> c.new
    [] Trusted(c, l) /\ ~Repeats(c, l) -> c.wid
    [] OTHER -> NoId

-----------------------------------------------------------------------------
(* Steps of a process.                                                     *)

Goto(p, l) == pc' = [pc EXCEPT ![p] = l]

Finish(p) ==
  /\ Goto(p, "idle")
  /\ req' = [req EXCEPT ![p] = NoCall]
  /\ seen' = [seen EXCEPT ![p] = {}]
  /\ todo' = [todo EXCEPT ![p] = {}]
  /\ left' = [left EXCEPT ![p] = 0]

Begin(p, c) ==
  /\ pc[p] = "idle"
  /\ Goto(p, "acquire")
  /\ req' = [req EXCEPT ![p] = c]
  /\ UNCHANGED <<redis, mutex, subscribed, seen, todo, left>>

\* a client calls the locker through the dataset handlers
Request(p) ==
  \E c \in CreateCall \cup WriteCall \cup ReadCall \cup UnlockCall :
    /\ (c.new # NoId /\ ~c.idem) => Fresh(c.new)
    /\ Begin(p, c)
    /\ UNCHANGED events

\* the subscription client of an instance receives an expired-key event
HandleExpired(p) ==
  \E e \in events :
    /\ Begin(p, [op |-> "expired", new |-> NoId, idem |-> FALSE, wid |-> e[2]])
    /\ events' = events \ {e}

\* slip: the mutex is taken without looking for an owner
AcquireMutex_NoWait(p) ==
  /\ pc[p] = "acquire"
  /\ mutex' = p
  /\ Goto(p, "get")
  /\ UNCHANGED <<redis, bus, req, seen, todo, left>>

AcquireMutex(p) ==
  /\ pc[p] = "acquire"
  /\ mutex = NoProc
  /\ mutex' = p
  /\ Goto(p, "get")
  /\ UNCHANGED <<redis, bus, req, seen, todo, left>>

\* ten attempts failed: 423; an event handler drops its event
MutexBusy(p) ==
  /\ pc[p] = "acquire"
  /\ mutex # NoProc
  /\ Finish(p)
  /\ UNCHANGED <<redis, mutex, bus>>

\* createWriteLock throws without releasing the mutex
Refused(p) ==
  /\ req[p].op = "create"
  /\ ~Places(req[p], lock)
  /\ ~Repeats(req[p], lock)

GetLock(p) ==
  /\ pc[p] = "get"
  /\ ~Refused(p)
  /\ seen' = [seen EXCEPT ![p] = lock]
  /\ todo' = [todo EXCEPT ![p] = SessionsOf(req[p], lock)]
  /\ Goto(p, AfterGet(req[p], lock))
  /\ UNCHANGED <<redis, mutex, bus, req, left>>

RefuseCreate(p) ==
  /\ pc[p] = "get"
  /\ Refused(p)
  /\ Finish(p)
  /\ UNCHANGED <<redis, mutex, bus>>

SetWrite(p) ==
  /\ pc[p] = "setWrite"
  /\ lock' = {req[p].new}
  /\ lockTtl' = WriteTtl
  /\ Goto(p, IF req[p].op = "create" THEN "body" ELSE "release")
  /\ UNCHANGED <<session, mutex, bus, req, seen, todo, left>>

SetSession(p) ==
  /\ pc[p] = "setSession"
  /\ session' = [session EXCEPT ![req[p].new] = ReadTtl]
  /\ Goto(p, "setList")
  /\ UNCHANGED <<entry, mutex, bus, req, seen, todo, left>>

\* the instance that serves the call subscribes; a failure is only logged
Subscribe == \E i \in Inst : subscribed' \in {subscribed, subscribed \cup {i}}

\* the first reader subscribes here, a later one after releasing the mutex
SetList(p) ==
  /\ pc[p] = "setList"
  /\ lock' = seen[p] \cup {req[p].new}
  /\ lockTtl' = ReadTtl + Margin
  /\ IF seen[p] = {} THEN Subscribe ELSE UNCHANGED subscribed
  /\ Goto(p, "release")
  /\ UNCHANGED <<session, mutex, events, req, seen, todo, left>>

DelSession(p) ==
  /\ pc[p] = "delSession"
  /\ \E r \in todo[p] :
       /\ session' = [session EXCEPT ![r] = 0]
       /\ todo' = [todo EXCEPT ![p] = @ \ {r}]
       /\ Goto(p, IF todo[p] = {r} THEN Shrink(req[p], seen[p]) ELSE "delSession")
  /\ UNCHANGED <<entry, mutex, bus, req, seen, left>>

GetTtl(p) ==
  /\ pc[p] = "getTtl"
  /\ left' = [left EXCEPT ![p] = lockTtl]
  /\ Goto(p, "rewrite")
  /\ UNCHANGED <<redis, mutex, bus, req, seen, todo>>

Rewrite(p) ==
  /\ pc[p] = "rewrite"
  /\ left[p] > 0
  /\ lock' = Remaining(req[p], seen[p])
  /\ lockTtl' = left[p]
  /\ Goto(p, "release")
  /\ UNCHANGED <<session, mutex, bus, req, seen, todo, left>>

\* SETEX rejects a TTL that is not positive: the entry expired before getTTL
RewriteError(p) ==
  /\ pc[p] = "rewrite"
  /\ left[p] = 0
  /\ Finish(p)
  /\ UNCHANGED <<redis, mutex, bus>>

DelLock(p) ==
  /\ pc[p] = "delLock"
  /\ lock' = {} /\ lockTtl' = 0
  /\ Goto(p, "release")
  /\ UNCHANGED <<session, mutex, bus, req, seen, todo, left>>

\* Redlock releases only its own token; the fifth failure is swallowed
Unlocked(p) == IF mutex = p THEN {NoProc, p} ELSE {mutex}

ReleaseMutex(p) ==
  /\ pc[p] = "release"
  /\ mutex' \in Unlocked(p)
  /\ IF seen[p] # {} /\ Places(req[p], seen[p])
     THEN Subscribe
     ELSE UNCHANGED subscribed
  /\ Finish(p)
  /\ UNCHANGED <<redis, events>>

\* removeWriteLock, called by the handler that called createWriteLock
RemoveWriteLock(p) ==
  /\ pc[p] = "body"
  /\ mutex' \in Unlocked(p)
  /\ \/ Finish(p)                                         \* keepTheLock
     \/ Goto(p, "dropLock") /\ UNCHANGED <<req, seen, todo, left>>
  /\ UNCHANGED <<redis, bus>>

DropLock(p) ==
  /\ pc[p] = "dropLock"
  /\ lock' = {} /\ lockTtl' = 0
  /\ Finish(p)
  /\ UNCHANGED <<session, mutex, bus>>

\* a Redis command fails, or the instance crashes: the mutex stays taken
Abort(p) ==
  /\ pc[p] # "idle"
  /\ Finish(p)
  /\ UNCHANGED <<redis, mutex, bus>>

-----------------------------------------------------------------------------
(* Redis and the instances.                                                *)

Minus1(n) == IF n = 0 THEN 0 ELSE n - 1

Tick ==
  /\ lockTtl > 0 \/ \E r \in ReadId : session[r] > 0
  /\ lockTtl' = Minus1(lockTtl)
  /\ lock' = IF lockTtl <= 1 THEN {} ELSE lock
  /\ session' = [r \in ReadId |-> Minus1(session[r])]
  /\ events' = events \cup (subscribed \X {r \in ReadId : session[r] = 1})
  /\ UNCHANGED <<mutex, subscribed, local>>

\* slip: the mutex is taken without a TTL
ExpireMutex_NoTtl == FALSE /\ UNCHANGED vars

ExpireMutex ==
  /\ mutex # NoProc
  /\ SlowSection \/ pc[mutex] \notin Section
  /\ mutex' = NoProc
  /\ UNCHANGED <<redis, bus, local>>

\* pub/sub does not keep messages for an instance that is away
Restart(i) ==
  /\ i \in subscribed
  /\ subscribed' = subscribed \ {i}
  /\ events' = {e \in events : e[1] # i}
  /\ UNCHANGED <<redis, mutex, local>>

-----------------------------------------------------------------------------
Command(p) ==
  \/ AcquireMutex(p) \/ MutexBusy(p) \/ GetLock(p) \/ RefuseCreate(p)
  \/ SetWrite(p) \/ SetSession(p) \/ SetList(p) \/ DelSession(p)
  \/ GetTtl(p) \/ Rewrite(p) \/ RewriteError(p) \/ DelLock(p)
  \/ ReleaseMutex(p) \/ RemoveWriteLock(p) \/ DropLock(p)

Next ==
  \/ \E p \in Proc : Request(p) \/ HandleExpired(p) \/ Command(p) \/ Abort(p)
  \/ Tick
  \/ ExpireMutex
  \/ \E i \in Inst : Restart(i)

Spec == Init /\ [][Next]_vars

\* Redis answers, TTLs run out, and Node dispatches the events it received;
\* clients need not call and nothing need fail.
FairSpec ==
  /\ Spec
  /\ \A p \in Proc : WF_vars(Command(p)) /\ WF_vars(HandleExpired(p))
  /\ WF_vars(Tick)
  /\ WF_vars(ExpireMutex)

-----------------------------------------------------------------------------
(* Properties.                                                             *)

\* Two processes never run a section of the locker on one dataset together,
\* whatever fails, leaks the mutex or lets it expire.
SectionExclusive ==
  \A p, q \in Proc : pc[p] \in Section /\ pc[q] \in Section => p = q

\* The copy of the entry a section decided on is still the entry, or the
\* entry has vanished (expired, or dropped by removeWriteLock, which deletes
\* it after giving the mutex back); it never changes into something else.
BeforeWrite == {"setWrite", "setSession", "setList", "delSession", "getTtl",
                "rewrite", "delLock"}
SeenIsCurrent ==
  \A p \in Proc : pc[p] \in BeforeWrite => lock \in {seen[p], {}}

\* The main entry outlives, by the 5 minutes of margin, every session key
\* whose id it lists: a reader is never dropped because its list expired.
MainOutlivesSessions ==
  \A r \in lock \cap ReadId : session[r] > 0 => lockTtl >= session[r] + Margin

\* The id an acquire call is about to return, or a registration that still
\* owns its mutex works under, is in the entry, unless the entry vanished.
GrantBacked ==
  \A p \in Proc :
    \/ pc[p] = "release" /\ req[p].op \in {"write", "read"}
    \/ pc[p] = "body" /\ mutex = p
    => Granted(req[p], seen[p]) \in lock \cup {NoId} \/ lock = {}

\* Seen from outside the entry is a readers-writer lock.
RW == INSTANCE RWLock WITH holders <- lock
ReadersWriter == RW!Spec

\* A mutex that was leaked is free again in the end: no failure, refused
\* registration or swallowed release blocks the dataset for ever.
MutexFreed == []<>(mutex = NoProc)

\* Retries with the same id do not renew a write lock: "after 24h writelock
\* entry will be removed", whatever clients do.
WriteLockEnds == \A w \in WriteId : (lock = {w}) ~> (lock # {w})

-----------------------------------------------------------------------------
(* The inductive invariant.                                                *)

\* a process inside a section owns the mutex
SectionOwnsMutex == \A p \in Proc : pc[p] \in Section => mutex = p

\* the entry is absent exactly when its TTL ran out; it names one writer,
\* or readers only
EntryShape ==
  /\ lock = {} <=> lockTtl = 0
  /\ lock \subseteq ReadId \/ \E w \in WriteId : lock = {w}

\* the ids of a call have the letter its operation checks for
CallShape ==
  \A p \in Proc :
    /\ req[p].op = "write" => req[p].new \in WriteId
    /\ req[p].op = "read" => req[p].new \in ReadId

\* what a process knows of its call and of the entry it read
LocalShape ==
  \A p \in Proc :
    /\ pc[p] = "setWrite" =>
         /\ req[p].op # "read" /\ Places(req[p], seen[p])
         /\ seen[p] = {} /\ req[p].new \in WriteId
    /\ pc[p] \in {"setSession", "setList"} =>
         /\ Places(req[p], seen[p])
         /\ seen[p] \subseteq ReadId
         /\ req[p].new \in ReadId \ seen[p]
    /\ pc[p] \in {"delSession", "getTtl", "rewrite", "delLock"} =>
         req[p].op \in {"unlock", "expired"}
    /\ pc[p] \in {"delSession", "getTtl", "rewrite"} =>
         /\ seen[p] \subseteq ReadId
         /\ req[p].wid \in seen[p] \cup {NoId}
    /\ pc[p] \in {"getTtl", "rewrite"} =>
         req[p].wid \in seen[p] /\ Remaining(req[p], seen[p]) # {}

\* the TTL a process writes back covers the sessions it writes back
LeftCoversSessions ==
  \A p \in Proc :
    pc[p] = "rewrite" /\ left[p] > 0 =>
      \A r \in Remaining(req[p], seen[p]) :
        session[r] > 0 => left[p] >= session[r] + Margin

\* Together these are preserved by every action: the sections exclude each
\* other, so what a section read stays true until it writes.
IInv ==
  /\ TypeOK
  /\ SectionOwnsMutex
  /\ EntryShape
  /\ CallShape
  /\ LocalShape
  /\ SeenIsCurrent
  /\ MainOutlivesSessions
  /\ LeftCoversSessions
  /\ GrantBacked

=============================================================================
