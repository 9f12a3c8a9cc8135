---------------------------- MODULE LockerProofs ----------------------------
(***************************************************************************)
(* Theorems about Locker, for any number of processes, instances and ids   *)
(* and any lengths of the TTLs, when no section of the locker outlives the *)
(* TTL of the mutex.                                                       *)
(***************************************************************************)
EXTENDS Locker, TLAPS

\* the assumption under which the locker's sections exclude each other
Quick == SlowSection = FALSE

\* What AfterGet decides: which command follows, under which condition.
LEMMA AfterGetFacts ==
  ASSUME NEW c \in Call, NEW l \in SUBSET Id,
         l \subseteq ReadId \/ \E w \in WriteId : l = {w}
  PROVE  /\ AfterGet(c, l) \in Label \ {"setList", "rewrite"}
         /\ AfterGet(c, l) = "setWrite" => Places(c, l) /\ c.op # "read"
         /\ AfterGet(c, l) = "setSession" => Places(c, l) /\ c.op = "read"
         /\ AfterGet(c, l) = "body" => Repeats(c, l)
         /\ AfterGet(c, l) = "release" => ~Places(c, l)
         /\ AfterGet(c, l) \in {"delSession", "getTtl", "delLock"} =>
              c.op \in {"unlock", "expired"}
         /\ AfterGet(c, l) = "delSession" =>
              l \subseteq ReadId /\ c.wid \in l \cup {NoId}
         /\ AfterGet(c, l) = "getTtl" =>
              l \subseteq ReadId /\ c.wid \in l /\ Remaining(c, l) # {}
  <1> USE LockerAssumption DEF Id, Label, Section
  <1>1. CASE Places(c, l)
    <2>1. c.op # "unlock" /\ c.op # "expired"
      BY <1>1 DEF Places
    <2>2. ~Removes(c, l) /\ SessionsOf(c, l) = {}
      BY <2>1 DEF Removes, SessionsOf
    <2>3. ~(Repeats(c, l) /\ c.op = "create")
      BY <1>1 DEF Places, Repeats
    <2>4. AfterGet(c, l) = IF c.op = "read" THEN "setSession" ELSE "setWrite"
      BY <1>1, <2>2, <2>3 DEF AfterGet
    <2>5. QED
      BY <1>1, <2>4
  <1>2. CASE ~Places(c, l) /\ Repeats(c, l) /\ c.op = "create"
    <2>1. ~Removes(c, l) /\ SessionsOf(c, l) = {}
      BY <1>2 DEF Removes, SessionsOf
    <2>2. AfterGet(c, l) = "body"
      BY <1>2, <2>1 DEF AfterGet
    <2>3. QED
      BY <1>2, <2>2
  <1>3. CASE /\ ~Places(c, l) /\ ~(Repeats(c, l) /\ c.op = "create")
             /\ SessionsOf(c, l) # {}
    <2>1. AfterGet(c, l) = "delSession"
      BY <1>3 DEF AfterGet
    <2>2. c.op = "unlock" /\ l \subseteq ReadId /\ c.wid \in l \cup {NoId}
      BY <1>3 DEF SessionsOf, Removes
    <2>3. QED
      BY <2>1, <2>2
  <1>4. CASE /\ ~Places(c, l) /\ ~(Repeats(c, l) /\ c.op = "create")
             /\ SessionsOf(c, l) = {} /\ Removes(c, l)
    <2>1. AfterGet(c, l) = Shrink(c, l) /\ c.op \in {"unlock", "expired"}
      BY <1>4 DEF AfterGet, Removes
    <2>2. Shrink(c, l) \in {"delLock", "getTtl"}
      BY DEF Shrink
    <2>3. ASSUME Shrink(c, l) = "getTtl"
          PROVE  l \subseteq ReadId /\ c.wid \in l /\ Remaining(c, l) # {}
      <3>1. Remaining(c, l) # {} /\ c.wid # NoId
        BY <2>3 DEF Shrink, Remaining
      <3>2. c.wid \in l
        BY <1>4, <3>1 DEF Removes
      <3>3. l # {c.wid}
        BY <3>1 DEF Remaining
      <3>4. QED
        BY <3>1, <3>2, <3>3
    <2>4. QED
      BY <2>1, <2>2, <2>3
  <1>5. CASE /\ ~Places(c, l) /\ ~(Repeats(c, l) /\ c.op = "create")
             /\ SessionsOf(c, l) = {} /\ ~Removes(c, l)
    <2>1. AfterGet(c, l) = "release"
      BY <1>5 DEF AfterGet
    <2>2. QED
      BY <1>5, <2>1
  <1>6. QED
    BY <1>1, <1>2, <1>3, <1>4, <1>5

LEMMA InitIInv == Init => IInv
  <1> SUFFICES ASSUME Init PROVE IInv
    OBVIOUS
  <1> USE LockerAssumption DEF Init
  <1>1. TypeOK
    BY DEF TypeOK, NoCall, Call, Label
  <1>2. SectionOwnsMutex /\ SeenIsCurrent /\ LocalShape /\ LeftCoversSessions
    BY DEF SectionOwnsMutex, SeenIsCurrent, LocalShape, LeftCoversSessions,
           Section, BeforeWrite
  <1>3. EntryShape /\ CallShape /\ MainOutlivesSessions /\ GrantBacked
    BY DEF EntryShape, CallShape, MainOutlivesSessions, GrantBacked, NoCall
  <1>4. QED
    BY <1>1, <1>2, <1>3 DEF IInv

\* Every action keeps the types.
LEMMA TypeStep == TypeOK /\ EntryShape /\ LocalShape /\ [Next]_vars => TypeOK'
  <1> SUFFICES ASSUME TypeOK, EntryShape, LocalShape, [Next]_vars
               PROVE  TypeOK'
    OBVIOUS
  <1> USE LockerAssumption
      DEF TypeOK, entry, redis, bus, local, Goto, Finish, Label, Section, Id
  <1>1. ASSUME NEW p \in Proc, Request(p) PROVE TypeOK'
    BY <1>1 DEF Request, Begin, CreateCall, WriteCall, ReadCall, UnlockCall
  <1>2. ASSUME NEW p \in Proc, HandleExpired(p) PROVE TypeOK'
    <2>1. PICK e \in events :
            /\ Begin(p, [op |-> "expired", new |-> NoId, idem |-> FALSE,
                         wid |-> e[2]])
            /\ events' = events \ {e}
      BY <1>2 DEF HandleExpired
    <2>2. [op |-> "expired", new |-> NoId, idem |-> FALSE, wid |-> e[2]]
            \in Call
      BY <2>1 DEF Call
    <2>3. QED
      BY <2>1, <2>2 DEF Begin
  <1>3. ASSUME NEW p \in Proc, AcquireMutex(p) PROVE TypeOK'
    BY <1>3 DEF AcquireMutex
  <1>4. ASSUME NEW p \in Proc,
               \/ MutexBusy(p) \/ RefuseCreate(p) \/ RewriteError(p)
               \/ Abort(p)
        PROVE TypeOK'
    <2>1. NoCall \in Call
      BY DEF NoCall, Call
    <2>2. QED
      BY <1>4, <2>1 DEF MutexBusy, RefuseCreate, RewriteError, Abort
  <1>5. ASSUME NEW p \in Proc, GetLock(p) PROVE TypeOK'
    <2>1. AfterGet(req[p], lock) \in Label
      BY AfterGetFacts DEF EntryShape
    <2>2. SessionsOf(req[p], lock) \in SUBSET ReadId
      BY DEF SessionsOf, Remaining
    <2>3. QED
      BY <1>5, <2>1, <2>2 DEF GetLock
  <1>6. ASSUME NEW p \in Proc, SetWrite(p) PROVE TypeOK'
    <2>1. req[p].new \in WriteId
      BY <1>6 DEF SetWrite, LocalShape
    <2>2. lock' \in SUBSET Id /\ lockTtl' \in 0 .. WriteTtl + ReadTtl + Margin
      BY <1>6, <2>1 DEF SetWrite
    <2>3. QED
      BY <1>6, <2>2 DEF SetWrite
  <1>7. ASSUME NEW p \in Proc, SetSession(p) PROVE TypeOK'
    BY <1>7 DEF SetSession, LocalShape
  <1>8. ASSUME NEW p \in Proc, SetList(p) PROVE TypeOK'
    <2>1. req[p].new \in ReadId
      BY <1>8 DEF SetList, LocalShape
    <2>2. lock' \in SUBSET Id /\ lockTtl' \in 0 .. WriteTtl + ReadTtl + Margin
      BY <1>8, <2>1 DEF SetList
    <2>3. subscribed' \in SUBSET Inst
      BY <1>8 DEF SetList, Subscribe
    <2>4. QED
      BY <1>8, <2>2, <2>3 DEF SetList
  <1>9. ASSUME NEW p \in Proc, DelSession(p) PROVE TypeOK'
    BY <1>9 DEF DelSession, Shrink
  <1>10. ASSUME NEW p \in Proc, GetTtl(p) PROVE TypeOK'
    BY <1>10 DEF GetTtl
  <1>11. ASSUME NEW p \in Proc, Rewrite(p) PROVE TypeOK'
    BY <1>11 DEF Rewrite, Remaining
  <1>12. ASSUME NEW p \in Proc, DelLock(p) PROVE TypeOK'
    BY <1>12 DEF DelLock
  <1>13. ASSUME NEW p \in Proc,
                ReleaseMutex(p) \/ RemoveWriteLock(p) \/ DropLock(p)
         PROVE TypeOK'
    <2>1. NoCall \in Call
      BY DEF NoCall, Call
    <2>2. CASE ReleaseMutex(p)
      BY <2>1, <2>2 DEF ReleaseMutex, Unlocked, Subscribe
    <2>3. CASE RemoveWriteLock(p)
      BY <2>1, <2>3 DEF RemoveWriteLock, Unlocked
    <2>4. CASE DropLock(p)
      BY <2>1, <2>4 DEF DropLock
    <2>5. QED
      BY <1>13, <2>2, <2>3, <2>4
  <1>14. CASE Tick
    <2>1. lockTtl' \in 0 .. WriteTtl + ReadTtl + Margin
      BY <1>14 DEF Tick, Minus1
    <2>2. session' \in [ReadId -> 0 .. ReadTtl]
      BY <1>14 DEF Tick, Minus1
    <2>3. lock' \in SUBSET Id /\ events' \in SUBSET (Inst \X ReadId)
      BY <1>14 DEF Tick
    <2>4. QED
      BY <1>14, <2>1, <2>2, <2>3 DEF Tick
  <1>15. CASE ExpireMutex
    BY <1>15 DEF ExpireMutex
  <1>16. ASSUME NEW i \in Inst, Restart(i) PROVE TypeOK'
    BY <1>16 DEF Restart
  <1>17. CASE UNCHANGED vars
    BY <1>17 DEF vars
  <1> HIDE DEF TypeOK, entry, redis, bus, local, Goto, Finish, Label, Section,
               Id
  <1>18. QED
    BY <1>1, <1>2, <1>3, <1>4, <1>5, <1>6, <1>7, <1>8, <1>9, <1>10, <1>11,
       <1>12, <1>13, <1>14, <1>15, <1>16, <1>17 DEF Next, Command

\* A section is entered with the mutex only, so it has one process at a time.
LEMMA Exclusion == TypeOK /\ SectionOwnsMutex => SectionExclusive
  BY LockerAssumption DEF TypeOK, SectionOwnsMutex, SectionExclusive

\* No section loses the mutex: only its owner gives it back, and it does not
\* expire under a section that is quick.
LEMMA MutexStep ==
  Quick /\ TypeOK /\ EntryShape /\ SectionOwnsMutex /\ [Next]_vars
    => SectionOwnsMutex'
  <1> SUFFICES ASSUME Quick, TypeOK, EntryShape, SectionOwnsMutex,
                      [Next]_vars
               PROVE  SectionOwnsMutex'
    OBVIOUS
  <1> USE LockerAssumption
      DEF SectionOwnsMutex, TypeOK, Goto, Finish, Section
  <1>1. ASSUME NEW p \in Proc, Request(p) \/ HandleExpired(p)
        PROVE SectionOwnsMutex'
    BY <1>1 DEF Request, HandleExpired, Begin
  <1>2. ASSUME NEW p \in Proc, AcquireMutex(p) PROVE SectionOwnsMutex'
    BY <1>2 DEF AcquireMutex
  <1>3. ASSUME NEW p \in Proc,
               \/ MutexBusy(p) \/ RefuseCreate(p) \/ RewriteError(p)
               \/ Abort(p) \/ DropLock(p)
        PROVE SectionOwnsMutex'
    BY <1>3 DEF MutexBusy, RefuseCreate, RewriteError, Abort, DropLock
  <1>4. ASSUME NEW p \in Proc, GetLock(p) PROVE SectionOwnsMutex'
    BY <1>4 DEF GetLock
  <1>5. ASSUME NEW p \in Proc,
               \/ SetWrite(p) \/ SetSession(p) \/ SetList(p)
               \/ DelSession(p) \/ GetTtl(p) \/ Rewrite(p) \/ DelLock(p)
        PROVE SectionOwnsMutex'
    <2>1. pc[p] \in Section /\ mutex' = mutex
          /\ \A q \in Proc \ {p} : pc'[q] = pc[q]
      BY <1>5 DEF SetWrite, SetSession, SetList, DelSession, GetTtl, Rewrite,
                  DelLock
    <2>2. QED
      BY <2>1
  <1>6. ASSUME NEW p \in Proc, ReleaseMutex(p) PROVE SectionOwnsMutex'
    BY <1>6 DEF ReleaseMutex, Unlocked
  <1>7. ASSUME NEW p \in Proc, RemoveWriteLock(p) PROVE SectionOwnsMutex'
    BY <1>7 DEF RemoveWriteLock, Unlocked
  <1>8. CASE Tick
    BY <1>8 DEF Tick, local
  <1>9. CASE ExpireMutex
    BY <1>9 DEF ExpireMutex, local, Quick
  <1>10. ASSUME NEW i \in Inst, Restart(i) PROVE SectionOwnsMutex'
    BY <1>10 DEF Restart, local
  <1>11. CASE UNCHANGED vars
    BY <1>11 DEF vars, local
  <1> HIDE DEF SectionOwnsMutex, TypeOK, Goto, Finish, Section
  <1>12. QED
    BY <1>1, <1>2, <1>3, <1>4, <1>5, <1>6, <1>7, <1>8, <1>9, <1>10, <1>11
    DEF Next, Command

\* The writes of a section keep the entry well-formed.
LEMMA EntryStep ==
  TypeOK /\ EntryShape /\ LocalShape /\ [Next]_vars => EntryShape'
  <1> SUFFICES ASSUME TypeOK, EntryShape, LocalShape, [Next]_vars
               PROVE  EntryShape'
    OBVIOUS
  <1> USE LockerAssumption DEF EntryShape, TypeOK
  <1>1. ASSUME UNCHANGED entry PROVE EntryShape'
    BY <1>1 DEF entry
  <1>2. ASSUME NEW p \in Proc, SetWrite(p) PROVE EntryShape'
    BY <1>2 DEF SetWrite, LocalShape
  <1>3. ASSUME NEW p \in Proc, SetList(p) PROVE EntryShape'
    BY <1>3 DEF SetList, LocalShape
  <1>4. ASSUME NEW p \in Proc, Rewrite(p) PROVE EntryShape'
    <2>1. seen[p] \subseteq ReadId /\ req[p].wid \in seen[p]
      BY <1>4 DEF Rewrite, LocalShape
    <2>2. Remaining(req[p], seen[p]) \subseteq ReadId
      BY <2>1 DEF Remaining
    <2>3. Remaining(req[p], seen[p]) # {}
      BY <1>4, <2>1 DEF Rewrite, LocalShape, Remaining
    <2>4. QED
      BY <1>4, <2>2, <2>3 DEF Rewrite
  <1>5. ASSUME NEW p \in Proc, DelLock(p) \/ DropLock(p) PROVE EntryShape'
    BY <1>5 DEF DelLock, DropLock
  <1>6. CASE Tick
    BY <1>6 DEF Tick, Minus1
  <1> HIDE DEF EntryShape, TypeOK
  <1>7. CASE UNCHANGED vars
    BY <1>1, <1>7 DEF vars, redis
  <1>8. ASSUME NEW p \in Proc,
               \/ Request(p) \/ HandleExpired(p) \/ AcquireMutex(p)
               \/ MutexBusy(p) \/ GetLock(p) \/ RefuseCreate(p)
               \/ SetSession(p) \/ DelSession(p) \/ GetTtl(p)
               \/ RewriteError(p) \/ ReleaseMutex(p) \/ RemoveWriteLock(p)
               \/ Abort(p)
        PROVE UNCHANGED entry
    BY <1>8 DEF Request, HandleExpired, Begin, AcquireMutex, MutexBusy,
       GetLock, RefuseCreate, SetSession, DelSession, GetTtl, RewriteError,
       ReleaseMutex, RemoveWriteLock, Abort, redis
  <1>9. ASSUME NEW i \in Inst, Restart(i) PROVE UNCHANGED entry
    BY <1>9 DEF Restart, redis
  <1>10. ASSUME ExpireMutex PROVE UNCHANGED entry
    BY <1>10 DEF ExpireMutex, redis
  <1>11. QED
    BY <1>1, <1>2, <1>3, <1>4, <1>5, <1>6, <1>7, <1>8, <1>9, <1>10
    DEF Next, Command

\* Calls are made with ids of the right letter, and a process keeps its call.
LEMMA CallStep == TypeOK /\ CallShape /\ [Next]_vars => CallShape'
  <1> SUFFICES ASSUME TypeOK, CallShape, [Next]_vars PROVE CallShape'
    OBVIOUS
  <1> USE LockerAssumption DEF CallShape, TypeOK
  <1>1. ASSUME UNCHANGED req PROVE CallShape'
    BY <1>1
  <1>2. ASSUME NEW p \in Proc, Request(p) PROVE CallShape'
    BY <1>2 DEF Request, Begin, CreateCall, WriteCall, ReadCall, UnlockCall
  <1>3. ASSUME NEW p \in Proc, HandleExpired(p) PROVE CallShape'
    BY <1>3 DEF HandleExpired, Begin
  <1>4. ASSUME NEW p \in Proc, Finish(p) PROVE CallShape'
    BY <1>4 DEF Finish, NoCall
  <1> HIDE DEF CallShape, TypeOK
  <1>5. ASSUME NEW p \in Proc,
               \/ MutexBusy(p) \/ RefuseCreate(p) \/ RewriteError(p)
               \/ ReleaseMutex(p) \/ DropLock(p) \/ Abort(p)
        PROVE Finish(p)
    BY <1>5 DEF MutexBusy, RefuseCreate, RewriteError, ReleaseMutex, DropLock,
       Abort
  <1>6. ASSUME NEW p \in Proc, RemoveWriteLock(p) PROVE CallShape'
    BY <1>1, <1>4, <1>6 DEF RemoveWriteLock
  <1>7. ASSUME NEW p \in Proc,
               \/ AcquireMutex(p) \/ GetLock(p) \/ SetWrite(p)
               \/ SetSession(p) \/ SetList(p) \/ DelSession(p) \/ GetTtl(p)
               \/ Rewrite(p) \/ DelLock(p)
        PROVE UNCHANGED req
    BY <1>7 DEF AcquireMutex, GetLock, SetWrite, SetSession, SetList,
       DelSession, GetTtl, Rewrite, DelLock
  <1>8. ASSUME Tick \/ ExpireMutex \/ UNCHANGED vars PROVE UNCHANGED req
    BY <1>8 DEF Tick, ExpireMutex, vars, local
  <1>9. ASSUME NEW i \in Inst, Restart(i) PROVE UNCHANGED req
    BY <1>9 DEF Restart, local
  <1>10. QED
    BY <1>1, <1>2, <1>3, <1>4, <1>5, <1>6, <1>7, <1>8, <1>9
    DEF Next, Command

\* What a process knows of its copy of the entry, command after command.
LEMMA LocalStep ==
  TypeOK /\ EntryShape /\ CallShape /\ LocalShape /\ [Next]_vars
    => LocalShape'
  <1> SUFFICES ASSUME TypeOK, EntryShape, CallShape, LocalShape, [Next]_vars
               PROVE  LocalShape'
    OBVIOUS
  <1> USE LockerAssumption DEF LocalShape, TypeOK
  <1>1. ASSUME UNCHANGED <<pc, req, seen>> PROVE LocalShape'
    BY <1>1
  <1>2. ASSUME NEW p \in Proc, Finish(p) PROVE LocalShape'
    BY <1>2 DEF Finish, Goto
  <1>3. ASSUME NEW p \in Proc, Request(p) \/ HandleExpired(p)
        PROVE LocalShape'
    <2>1. PICK c : Begin(p, c)
      BY <1>3 DEF Request, HandleExpired
    <2>2. QED
      BY <2>1 DEF Begin, Goto
  <1>4. ASSUME NEW p \in Proc, AcquireMutex(p) PROVE LocalShape'
    BY <1>4 DEF AcquireMutex, Goto
  <1>5. ASSUME NEW p \in Proc, GetLock(p) PROVE LocalShape'
    <2> DEFINE l == lock
               c == req[p]
    <2>1. /\ AfterGet(c, l) = "setWrite" => Places(c, l) /\ c.op # "read"
          /\ AfterGet(c, l) = "setSession" => Places(c, l) /\ c.op = "read"
          /\ AfterGet(c, l) \in {"delSession", "getTtl", "delLock"} =>
               c.op \in {"unlock", "expired"}
          /\ AfterGet(c, l) = "delSession" =>
               l \subseteq ReadId /\ c.wid \in l \cup {NoId}
          /\ AfterGet(c, l) = "getTtl" =>
               l \subseteq ReadId /\ c.wid \in l /\ Remaining(c, l) # {}
          /\ AfterGet(c, l) \notin {"setList", "rewrite"}
      BY AfterGetFacts DEF EntryShape
    <2>2. Places(c, l) /\ c.op # "read" => l = {} /\ c.new \in WriteId
      BY DEF Places, CallShape
    <2>3. Places(c, l) /\ c.op = "read" =>
            l \subseteq ReadId /\ c.new \in ReadId \ l
      BY DEF Places, CallShape
    <2>4. /\ pc' = [pc EXCEPT ![p] = AfterGet(c, l)]
          /\ seen' = [seen EXCEPT ![p] = l]
          /\ req' = req
      BY <1>5 DEF GetLock, Goto
    <2> HIDE DEF l, c
    <2>5. ASSUME NEW q \in Proc, q # p
          PROVE  pc'[q] = pc[q] /\ seen'[q] = seen[q]
      BY <2>4, <2>5
    <2>6. pc'[p] = AfterGet(c, l) /\ seen'[p] = l /\ req'[p] = c
      BY <2>4 DEF c
    <2>7. QED
      BY <2>1, <2>2, <2>3, <2>4, <2>5, <2>6
  <1>6. ASSUME NEW p \in Proc,
               \/ SetWrite(p) \/ SetList(p) \/ Rewrite(p) \/ DelLock(p)
        PROVE LocalShape'
    BY <1>6 DEF SetWrite, SetList, Rewrite, DelLock, Goto
  <1>7. ASSUME NEW p \in Proc, SetSession(p) PROVE LocalShape'
    BY <1>7 DEF SetSession, Goto
  <1>8. ASSUME NEW p \in Proc, DelSession(p) PROVE LocalShape'
    BY <1>8 DEF DelSession, Goto, Shrink, Remaining
  <1>9. ASSUME NEW p \in Proc, GetTtl(p) PROVE LocalShape'
    BY <1>9 DEF GetTtl, Goto
  <1>10. ASSUME NEW p \in Proc, RemoveWriteLock(p) PROVE LocalShape'
    BY <1>2, <1>10 DEF RemoveWriteLock, Goto
  <1> HIDE DEF LocalShape, TypeOK
  <1>11. ASSUME NEW p \in Proc,
                \/ MutexBusy(p) \/ RefuseCreate(p) \/ RewriteError(p)
                \/ ReleaseMutex(p) \/ DropLock(p) \/ Abort(p)
         PROVE Finish(p)
    BY <1>11 DEF MutexBusy, RefuseCreate, RewriteError, ReleaseMutex,
       DropLock, Abort
  <1>12. ASSUME Tick \/ ExpireMutex \/ UNCHANGED vars
         PROVE  UNCHANGED <<pc, req, seen>>
    BY <1>12 DEF Tick, ExpireMutex, vars, local
  <1>13. ASSUME NEW i \in Inst, Restart(i) PROVE UNCHANGED <<pc, req, seen>>
    BY <1>13 DEF Restart, local
  <1>14. QED
    BY <1>1, <1>2, <1>3, <1>4, <1>5, <1>6, <1>7, <1>8, <1>9, <1>10, <1>11,
       <1>12, <1>13 DEF Next, Command

\* What a section read stays true until the section writes: nobody else can
\* write while it owns the mutex, except to make the entry vanish.
LEMMA SeenStep ==
  /\ TypeOK /\ SectionExclusive /\ SeenIsCurrent /\ [Next]_vars
  => SeenIsCurrent'
  <1> SUFFICES ASSUME TypeOK, SectionExclusive, SeenIsCurrent, [Next]_vars
               PROVE  SeenIsCurrent'
    OBVIOUS
  <1> USE LockerAssumption DEF SeenIsCurrent, TypeOK, BeforeWrite
  <1>1. ASSUME UNCHANGED <<lock, pc, seen>> PROVE SeenIsCurrent'
    BY <1>1
  <1>2. ASSUME NEW p \in Proc, Finish(p), lock' \in {lock, {}}
        PROVE SeenIsCurrent'
    BY <1>2 DEF Finish, Goto
  <1>3. ASSUME NEW p \in Proc, Request(p) \/ HandleExpired(p)
        PROVE SeenIsCurrent'
    <2>1. PICK c : Begin(p, c)
      BY <1>3 DEF Request, HandleExpired
    <2>2. QED
      BY <2>1 DEF Begin, Goto, redis, entry
  <1>4. ASSUME NEW p \in Proc, AcquireMutex(p) PROVE SeenIsCurrent'
    BY <1>4 DEF AcquireMutex, Goto, redis, entry
  <1>5. ASSUME NEW p \in Proc, GetLock(p) PROVE SeenIsCurrent'
    BY <1>5 DEF GetLock, Goto, redis, entry
  \* a write ends the section's use of its copy, and no other section runs
  <1>6. ASSUME NEW p \in Proc,
               \/ SetWrite(p) \/ SetList(p) \/ Rewrite(p) \/ DelLock(p)
        PROVE SeenIsCurrent'
    <2>1. /\ pc[p] \in Section
          /\ \E l \in {"body", "release"} : pc' = [pc EXCEPT ![p] = l]
      BY <1>6 DEF SetWrite, SetList, Rewrite, DelLock, Goto, Section
    <2>2. ASSUME NEW q \in Proc, q # p PROVE pc'[q] \notin BeforeWrite
      <3>1. pc[q] \notin Section
        BY <2>1, <2>2 DEF SectionExclusive
      <3>2. QED
        BY <2>1, <2>2, <3>1 DEF Section
    <2>3. pc'[p] \notin BeforeWrite
      BY <2>1
    <2>4. QED
      BY <2>2, <2>3
  <1>7. ASSUME NEW p \in Proc, SetSession(p) \/ DelSession(p) \/ GetTtl(p)
        PROVE SeenIsCurrent'
    <2>1. /\ pc[p] \in BeforeWrite
          /\ \E l : pc' = [pc EXCEPT ![p] = l]
          /\ lock' = lock /\ seen' = seen
      BY <1>7 DEF SetSession, DelSession, GetTtl, Goto, redis, entry
    <2>2. QED
      BY <2>1
  <1>8. ASSUME NEW p \in Proc, RemoveWriteLock(p) PROVE SeenIsCurrent'
    <2>1. CASE Finish(p)
      BY <1>2, <1>8, <2>1 DEF RemoveWriteLock, redis, entry
    <2>2. CASE Goto(p, "dropLock") /\ UNCHANGED <<req, seen, todo, left>>
      BY <1>8, <2>2 DEF RemoveWriteLock, Goto, redis, entry
    <2>3. QED
      BY <1>8, <2>1, <2>2 DEF RemoveWriteLock
  <1>9. CASE Tick
    BY <1>9 DEF Tick, local
  <1> HIDE DEF SeenIsCurrent, TypeOK, BeforeWrite
  <1>10. ASSUME NEW p \in Proc,
                \/ MutexBusy(p) \/ RefuseCreate(p) \/ RewriteError(p)
                \/ ReleaseMutex(p) \/ DropLock(p) \/ Abort(p)
         PROVE Finish(p) /\ lock' \in {lock, {}}
    BY <1>10 DEF MutexBusy, RefuseCreate, RewriteError, ReleaseMutex,
       DropLock, Abort, redis, entry
  <1>11. ASSUME ExpireMutex \/ UNCHANGED vars
         PROVE  UNCHANGED <<lock, pc, seen>>
    BY <1>11 DEF ExpireMutex, vars, local, redis, entry
  <1>12. ASSUME NEW i \in Inst, Restart(i) PROVE UNCHANGED <<lock, pc, seen>>
    BY <1>12 DEF Restart, local, redis, entry
  <1>13. QED
    BY <1>1, <1>2, <1>3, <1>4, <1>5, <1>6, <1>7, <1>8, <1>9, <1>10, <1>11,
       <1>12 DEF Next, Command

\* A reader is listed with a TTL that exceeds its session's by the margin;
\* both then run down together, and a rewrite keeps the TTL it read.
LEMMA MarginStep ==
  /\ TypeOK /\ EntryShape /\ LocalShape /\ SeenIsCurrent
  /\ MainOutlivesSessions /\ LeftCoversSessions /\ [Next]_vars
  => MainOutlivesSessions'
  <1> SUFFICES ASSUME TypeOK, EntryShape, LocalShape, SeenIsCurrent,
                      MainOutlivesSessions, LeftCoversSessions, [Next]_vars
               PROVE  MainOutlivesSessions'
    OBVIOUS
  <1> USE LockerAssumption DEF MainOutlivesSessions, TypeOK
  <1>1. ASSUME UNCHANGED redis PROVE MainOutlivesSessions'
    BY <1>1 DEF redis, entry
  <1>2. ASSUME NEW p \in Proc, SetWrite(p) PROVE MainOutlivesSessions'
    BY <1>2 DEF SetWrite, LocalShape
  <1>3. ASSUME NEW p \in Proc, SetSession(p) PROVE MainOutlivesSessions'
    <2>1. req[p].new \in ReadId /\ req[p].new \notin lock
      BY <1>3 DEF SetSession, LocalShape, SeenIsCurrent, BeforeWrite
    <2>2. \A r \in ReadId : r # req[p].new => session'[r] = session[r]
      BY <1>3, <2>1 DEF SetSession
    <2>3. lock' = lock /\ lockTtl' = lockTtl
      BY <1>3 DEF SetSession, entry
    <2>4. QED
      BY <2>1, <2>2, <2>3
  <1>4. ASSUME NEW p \in Proc, SetList(p) PROVE MainOutlivesSessions'
    <2>1. \A r \in ReadId : session[r] <= ReadTtl
      OBVIOUS
    <2>2. lockTtl' = ReadTtl + Margin /\ session' = session
      BY <1>4 DEF SetList
    <2>3. QED
      BY <2>1, <2>2
  <1>5. ASSUME NEW p \in Proc, DelSession(p) PROVE MainOutlivesSessions'
    BY <1>5 DEF DelSession, entry
  <1>6. ASSUME NEW p \in Proc, Rewrite(p) PROVE MainOutlivesSessions'
    BY <1>6 DEF Rewrite, LeftCoversSessions
  <1>7. ASSUME NEW p \in Proc, DelLock(p) \/ DropLock(p)
        PROVE MainOutlivesSessions'
    BY <1>7 DEF DelLock, DropLock
  <1>8. CASE Tick
    <2>1. \A r \in ReadId : session'[r] > 0 => session'[r] = session[r] - 1
      BY <1>8 DEF Tick, Minus1
    <2>2. lockTtl > 0 => lockTtl' = lockTtl - 1
      BY <1>8 DEF Tick, Minus1
    <2>3. lock' \subseteq lock /\ (lock' # {} => lockTtl > 1)
      BY <1>8 DEF Tick
    <2>4. \A r \in ReadId : session'[r] > 0 => session[r] > 0
      BY <1>8 DEF Tick, Minus1
    <2>5. QED
      BY <2>1, <2>2, <2>3, <2>4
  <1> HIDE DEF MainOutlivesSessions, TypeOK
  <1>9. ASSUME NEW p \in Proc,
               \/ Request(p) \/ HandleExpired(p) \/ AcquireMutex(p)
               \/ MutexBusy(p) \/ GetLock(p) \/ RefuseCreate(p)
               \/ GetTtl(p) \/ RewriteError(p) \/ ReleaseMutex(p)
               \/ RemoveWriteLock(p) \/ Abort(p)
        PROVE UNCHANGED redis
    BY <1>9 DEF Request, HandleExpired, Begin, AcquireMutex, MutexBusy,
       GetLock, RefuseCreate, GetTtl, RewriteError, ReleaseMutex,
       RemoveWriteLock, Abort
  <1>10. ASSUME ExpireMutex \/ UNCHANGED vars PROVE UNCHANGED redis
    BY <1>10 DEF ExpireMutex, vars
  <1>11. ASSUME NEW i \in Inst, Restart(i) PROVE UNCHANGED redis
    BY <1>11 DEF Restart
  <1>12. QED
    BY <1>1, <1>2, <1>3, <1>4, <1>5, <1>6, <1>7, <1>8, <1>9, <1>10, <1>11
    DEF Next, Command

LEMMA LeftStep ==
  /\ TypeOK /\ EntryShape /\ LocalShape /\ SectionExclusive
  /\ SeenIsCurrent /\ MainOutlivesSessions /\ LeftCoversSessions
  /\ [Next]_vars
  => LeftCoversSessions'
  <1> SUFFICES ASSUME TypeOK, EntryShape, LocalShape, SectionExclusive,
                      SeenIsCurrent, MainOutlivesSessions,
                      LeftCoversSessions, [Next]_vars
               PROVE  LeftCoversSessions'
    OBVIOUS
  <1> USE LockerAssumption DEF LeftCoversSessions, TypeOK
  <1>1. ASSUME UNCHANGED <<session, pc, req, seen, left>>
        PROVE LeftCoversSessions'
    BY <1>1
  <1>2. ASSUME NEW p \in Proc, Finish(p), UNCHANGED session
        PROVE LeftCoversSessions'
    BY <1>2 DEF Finish, Goto
  <1>3. ASSUME NEW p \in Proc, Request(p) \/ HandleExpired(p)
        PROVE LeftCoversSessions'
    <2>1. PICK c : Begin(p, c)
      BY <1>3 DEF Request, HandleExpired
    <2>2. QED
      BY <2>1 DEF Begin, Goto, redis
  <1>4. ASSUME NEW p \in Proc, AcquireMutex(p) PROVE LeftCoversSessions'
    BY <1>4 DEF AcquireMutex, Goto, redis
  <1>5. ASSUME NEW p \in Proc, GetLock(p) PROVE LeftCoversSessions'
    <2>1. AfterGet(req[p], lock) # "rewrite"
      BY AfterGetFacts DEF EntryShape
    <2>2. QED
      BY <1>5, <2>1 DEF GetLock, Goto, redis
  <1>6. ASSUME NEW p \in Proc,
               \/ SetWrite(p) \/ SetList(p) \/ Rewrite(p) \/ DelLock(p)
        PROVE LeftCoversSessions'
    BY <1>6 DEF SetWrite, SetList, Rewrite, DelLock, Goto
  \* the session keys change only when no other section is about to rewrite
  <1>7. ASSUME NEW p \in Proc, SetSession(p) \/ DelSession(p)
        PROVE LeftCoversSessions'
    <2>1. pc[p] \in Section /\ pc'[p] # "rewrite"
      BY <1>7 DEF SetSession, DelSession, Goto, Section, Shrink
    <2>2. ASSUME NEW q \in Proc, q # p PROVE pc'[q] # "rewrite"
      <3>1. pc'[q] = pc[q]
        BY <1>7, <2>2 DEF SetSession, DelSession, Goto
      <3>2. QED
        BY <2>1, <2>2, <3>1 DEF SectionExclusive, Section
    <2>3. QED
      BY <2>1, <2>2
  <1>8. ASSUME NEW p \in Proc, GetTtl(p) PROVE LeftCoversSessions'
    <2>1. Remaining(req[p], seen[p]) \subseteq seen[p] \cap ReadId
      BY <1>8 DEF GetTtl, LocalShape, Remaining
    <2>2. lock = seen[p] \/ lockTtl = 0
      BY <1>8 DEF GetTtl, SeenIsCurrent, BeforeWrite, EntryShape
    <2>3. lockTtl > 0 => \A r \in Remaining(req[p], seen[p]) :
                           session[r] > 0 => lockTtl >= session[r] + Margin
      BY <2>1, <2>2 DEF MainOutlivesSessions
    <2>4. left' = [left EXCEPT ![p] = lockTtl] /\ UNCHANGED <<session, req, seen>>
      BY <1>8 DEF GetTtl, redis
    <2>5. \A q \in Proc : q # p => pc'[q] = pc[q]
      BY <1>8 DEF GetTtl, Goto
    <2>6. QED
      BY <2>3, <2>4, <2>5
  <1>9. ASSUME NEW p \in Proc, RemoveWriteLock(p) PROVE LeftCoversSessions'
    <2>1. CASE Finish(p)
      BY <1>2, <1>9, <2>1 DEF RemoveWriteLock, redis
    <2>2. CASE Goto(p, "dropLock") /\ UNCHANGED <<req, seen, todo, left>>
      BY <1>9, <2>2 DEF RemoveWriteLock, Goto, redis
    <2>3. QED
      BY <1>9, <2>1, <2>2 DEF RemoveWriteLock
  <1>10. CASE Tick
    <2>1. UNCHANGED <<pc, req, seen, left>>
      BY <1>10 DEF Tick, local
    <2>2. ASSUME NEW q \in Proc, pc[q] = "rewrite"
          PROVE  Remaining(req[q], seen[q]) \subseteq ReadId
      BY <2>2 DEF LocalShape, Remaining
    <2>3. \A r \in ReadId :
            session'[r] > 0 => session[r] > 0 /\ session'[r] <= session[r]
      BY <1>10 DEF Tick, Minus1
    <2>4. \A r \in ReadId : session[r] \in Nat /\ session'[r] \in Nat
      BY <1>10 DEF Tick, Minus1
    <2>5. QED
      BY <2>1, <2>2, <2>3, <2>4
  <1> HIDE DEF LeftCoversSessions, TypeOK
  <1>11. ASSUME NEW p \in Proc,
                \/ MutexBusy(p) \/ RefuseCreate(p) \/ RewriteError(p)
                \/ ReleaseMutex(p) \/ DropLock(p) \/ Abort(p)
         PROVE Finish(p) /\ UNCHANGED session
    BY <1>11 DEF MutexBusy, RefuseCreate, RewriteError, ReleaseMutex,
       DropLock, Abort, redis
  <1>12. ASSUME ExpireMutex \/ UNCHANGED vars
         PROVE  UNCHANGED <<session, pc, req, seen, left>>
    BY <1>12 DEF ExpireMutex, vars, local, redis
  <1>13. ASSUME NEW i \in Inst, Restart(i)
         PROVE  UNCHANGED <<session, pc, req, seen, left>>
    BY <1>13 DEF Restart, local, redis
  <1>14. QED
    BY <1>1, <1>2, <1>3, <1>4, <1>5, <1>6, <1>7, <1>8, <1>9, <1>10, <1>11,
       <1>12, <1>13 DEF Next, Command

\* What an acquire call returns when it decided on the entry l.
LEMMA GrantedFacts ==
  ASSUME NEW c \in Call, NEW l \in SUBSET Id
  PROVE  /\ Places(c, l) => Granted(c, l) = c.new
         /\ ~Places(c, l) => Granted(c, l) \in l \cup {NoId}
         /\ Repeats(c, l) => Granted(c, l) \in l
  <1> USE LockerAssumption DEF Id
  <1>1. CASE Places(c, l) \/ Repeats(c, l)
    <2>1. ~(Trusted(c, l) /\ ~Repeats(c, l))
      BY <1>1 DEF Places, Trusted
    <2>2. Granted(c, l) = c.new
      BY <1>1, <2>1 DEF Granted
    <2>3. QED
      BY <1>1, <2>2 DEF Repeats
  <1>2. CASE ~(Places(c, l) \/ Repeats(c, l)) /\ Trusted(c, l)
    <2>1. Granted(c, l) = c.wid
      BY <1>2 DEF Granted
    <2>2. QED
      BY <1>2, <2>1 DEF Trusted
  <1>3. CASE ~(Places(c, l) \/ Repeats(c, l)) /\ ~Trusted(c, l)
    <2>1. Granted(c, l) = NoId
      BY <1>3 DEF Granted
    <2>2. QED
      BY <1>3, <2>1
  <1>4. QED
    BY <1>1, <1>2, <1>3

\* An id is returned only while it is in the entry, or the entry vanished.
LEMMA GrantStep ==
  /\ TypeOK /\ EntryShape /\ LocalShape /\ SectionOwnsMutex /\ GrantBacked
  /\ [Next]_vars
  => GrantBacked'
  <1> SUFFICES ASSUME TypeOK, EntryShape, LocalShape, SectionOwnsMutex,
                      GrantBacked, [Next]_vars
               PROVE  GrantBacked'
    OBVIOUS
  <1> USE LockerAssumption DEF GrantBacked, TypeOK
  <1>1. ASSUME UNCHANGED <<pc, req, seen>>, mutex' \in {mutex, NoProc},
               lock' \in {lock, {}}
        PROVE GrantBacked'
    BY <1>1
  <1>2. ASSUME NEW p \in Proc, Finish(p), mutex' \in {mutex, NoProc},
               lock' \in {lock, {}}
        PROVE GrantBacked'
    BY <1>2 DEF Finish, Goto
  \* a process whose next label grants nothing
  <1>3. ASSUME NEW p \in Proc, NEW l \in Label \ {"body", "release"}, Goto(p, l),
               mutex' \in {mutex, NoProc, p}, lock' = lock,
               \A q \in Proc \ {p} : req'[q] = req[q] /\ seen'[q] = seen[q]
        PROVE GrantBacked'
    BY <1>3 DEF Goto
  <1>4. ASSUME NEW p \in Proc, GetLock(p) PROVE GrantBacked'
    <2> DEFINE a == AfterGet(req[p], lock)
    <2>1. /\ a = "body" => Repeats(req[p], lock)
          /\ a = "release" => ~Places(req[p], lock)
      BY AfterGetFacts DEF EntryShape
    <2>2. a \in {"body", "release"} =>
            Granted(req[p], lock) \in lock \cup {NoId}
      BY <2>1, GrantedFacts
    <2>3. /\ pc' = [pc EXCEPT ![p] = a] /\ seen' = [seen EXCEPT ![p] = lock]
          /\ UNCHANGED <<req, mutex, lock>>
      BY <1>4 DEF GetLock, Goto, redis, entry
    <2> HIDE DEF a
    <2>4. QED
      BY <2>2, <2>3
  \* a write of the entry: the writer owns the mutex, so no one else grants
  <1>5. ASSUME NEW p \in Proc,
               \/ SetWrite(p) \/ SetList(p) \/ Rewrite(p) \/ DelLock(p)
        PROVE GrantBacked'
    <2>1. /\ pc[p] \in Section /\ UNCHANGED <<req, seen, mutex>>
          /\ \E l \in {"body", "release"} : pc' = [pc EXCEPT ![p] = l]
      BY <1>5 DEF SetWrite, SetList, Rewrite, DelLock, Goto, Section
    <2>2. mutex = p
      BY <2>1 DEF SectionOwnsMutex
    <2>3. ASSUME NEW q \in Proc, q # p
          PROVE  /\ pc'[q] # "release"
                 /\ mutex' # q
      BY <2>1, <2>2, <2>3 DEF SectionOwnsMutex, Section
    <2>4. CASE SetWrite(p) \/ SetList(p)
      <3>1. Granted(req[p], seen[p]) = req[p].new
        BY <2>4, GrantedFacts DEF SetWrite, SetList, LocalShape
      <3>2. req[p].new \in lock'
        BY <2>4 DEF SetWrite, SetList
      <3>3. QED
        BY <2>1, <2>3, <3>1, <3>2
    <2>5. CASE Rewrite(p) \/ DelLock(p)
      <3>1. req[p].op \notin {"write", "read"} /\ pc'[p] = "release"
        BY <2>5 DEF Rewrite, DelLock, LocalShape, Goto
      <3>2. QED
        BY <2>1, <2>3, <3>1
    <2>6. QED
      BY <1>5, <2>4, <2>5
  <1> HIDE DEF GrantBacked
  <1>6. ASSUME NEW p \in Proc, Request(p) \/ HandleExpired(p)
        PROVE GrantBacked'
    <2>1. PICK c : Begin(p, c)
      BY <1>6 DEF Request, HandleExpired
    <2>2. QED
      BY <1>3, <2>1 DEF Begin, redis, entry, Label
  <1>7. ASSUME NEW p \in Proc, AcquireMutex(p) PROVE GrantBacked'
    BY <1>3, <1>7 DEF AcquireMutex, redis, entry, Label, Section
  <1>8. ASSUME NEW p \in Proc, SetSession(p) \/ GetTtl(p) PROVE GrantBacked'
    BY <1>3, <1>8 DEF SetSession, GetTtl, redis, entry, Label, Section
  <1>9. ASSUME NEW p \in Proc, DelSession(p) PROVE GrantBacked'
    BY <1>3, <1>9 DEF DelSession, Shrink, redis, entry, Label, Section
  <1>10. ASSUME NEW p \in Proc, RemoveWriteLock(p) PROVE GrantBacked'
    <2>1. mutex' \in {mutex, NoProc} /\ lock' = lock
      BY <1>10 DEF RemoveWriteLock, Unlocked, redis, entry
    <2>2. CASE Finish(p)
      BY <1>2, <2>1, <2>2
    <2>3. CASE Goto(p, "dropLock") /\ UNCHANGED <<req, seen, todo, left>>
      BY <1>3, <2>1, <2>3 DEF Label
    <2>4. QED
      BY <1>10, <2>2, <2>3 DEF RemoveWriteLock
  <1>11. ASSUME NEW p \in Proc,
                \/ MutexBusy(p) \/ RefuseCreate(p) \/ RewriteError(p)
                \/ ReleaseMutex(p) \/ DropLock(p) \/ Abort(p)
         PROVE /\ Finish(p) /\ mutex' \in {mutex, NoProc}
               /\ lock' \in {lock, {}}
    BY <1>11 DEF MutexBusy, RefuseCreate, RewriteError, ReleaseMutex,
       DropLock, Abort, Unlocked, redis, entry
  <1>12. ASSUME Tick \/ ExpireMutex \/ UNCHANGED vars
         PROVE  /\ UNCHANGED <<pc, req, seen>> /\ mutex' \in {mutex, NoProc}
                /\ lock' \in {lock, {}}
    BY <1>12 DEF Tick, ExpireMutex, vars, local, redis, entry
  <1>13. ASSUME NEW i \in Inst, Restart(i)
         PROVE  UNCHANGED <<pc, req, seen, mutex, lock>>
    BY <1>13 DEF Restart, local, redis, entry
  <1> HIDE DEF TypeOK
  <1>14. QED
    BY <1>1, <1>2, <1>4, <1>5, <1>6, <1>7, <1>8, <1>9, <1>10, <1>11,
       <1>12, <1>13 DEF Next, Command

-----------------------------------------------------------------------------
LEMMA IInvStep == Quick /\ IInv /\ [Next]_vars => IInv'
  <1> SUFFICES ASSUME Quick, IInv, [Next]_vars PROVE IInv'
    OBVIOUS
  <1>1. SectionExclusive
    BY Exclusion DEF IInv
  <1>2. TypeOK' /\ SectionOwnsMutex' /\ EntryShape'
    BY TypeStep, MutexStep, EntryStep DEF IInv
  <1>3. CallShape' /\ LocalShape' /\ SeenIsCurrent'
    BY <1>1, CallStep, LocalStep, SeenStep DEF IInv
  <1>4. MainOutlivesSessions' /\ LeftCoversSessions' /\ GrantBacked'
    BY <1>1, MarginStep, LeftStep, GrantStep DEF IInv
  <1>5. QED
    BY <1>2, <1>3, <1>4 DEF IInv

\* The inductive invariant, and with it the types, hold in every behaviour.
THEOREM Invariance == ASSUME Quick PROVE Spec => []IInv
  <1>1. IInv /\ [Next]_vars => IInv'
    BY IInvStep
  <1>2. QED
    BY InitIInv, <1>1, PTL DEF Spec

\* Two sections of the locker never run on one dataset at the same time.
THEOREM MutualExclusion == ASSUME Quick PROVE Spec => []SectionExclusive
  <1>1. IInv => SectionExclusive
    BY Exclusion DEF IInv
  <1>2. QED
    BY Invariance, <1>1, PTL

\* A section never decides on an entry that has since become another one.
THEOREM NoStaleDecision == ASSUME Quick PROVE Spec => []SeenIsCurrent
  <1>1. IInv => SeenIsCurrent
    BY DEF IInv
  <1>2. QED
    BY Invariance, <1>1, PTL

\* The list of readers never expires before a session key it lists.
THEOREM ReadersOutlived == ASSUME Quick PROVE Spec => []MainOutlivesSessions
  <1>1. IInv => MainOutlivesSessions
    BY DEF IInv
  <1>2. QED
    BY Invariance, <1>1, PTL

\* A client is never told it holds an id that the entry does not list, unless
\* the entry as a whole vanished meanwhile.
THEOREM GrantsAreBacked == ASSUME Quick PROVE Spec => []GrantBacked
  <1>1. IInv => GrantBacked
    BY DEF IInv
  <1>2. QED
    BY Invariance, <1>1, PTL

\* The Redis entry implements the readers-writer lock of RWLock.
LEMMA RWStep == IInv /\ [Next]_vars => [RW!Next]_lock
  <1> SUFFICES ASSUME IInv, [Next]_vars PROVE [RW!Next]_lock
    OBVIOUS
  <1> USE LockerAssumption DEF IInv
  <1>1. ASSUME NEW p \in Proc, SetWrite(p) PROVE RW!Next
    <2>1. lock = {} /\ req[p].new \in WriteId
      BY <1>1 DEF SetWrite, LocalShape, SeenIsCurrent, BeforeWrite
    <2>2. RW!TakeWrite(req[p].new)
      BY <1>1, <2>1 DEF SetWrite, RW!TakeWrite
    <2>3. QED
      BY <2>1, <2>2 DEF RW!Next
  <1>2. ASSUME NEW p \in Proc, SetList(p) PROVE RW!Next
    <2>1. /\ lock \in {seen[p], {}}
          /\ seen[p] \subseteq ReadId /\ req[p].new \in ReadId
      BY <1>2 DEF SetList, LocalShape, SeenIsCurrent, BeforeWrite
    <2>2. CASE lock = seen[p]
      <3>1. RW!JoinRead(req[p].new)
        BY <1>2, <2>1, <2>2 DEF SetList, RW!JoinRead
      <3>2. QED
        BY <2>1, <3>1 DEF RW!Next
    <2>3. CASE lock = {}
      <3>1. lock' \in SUBSET ReadId /\ RW!Revive(lock')
        BY <1>2, <2>1, <2>3 DEF SetList, RW!Revive
      <3>2. QED
        BY <3>1 DEF RW!Next
    <2>4. QED
      BY <2>1, <2>2, <2>3
  <1>3. ASSUME NEW p \in Proc, Rewrite(p) PROVE RW!Next
    <2>1. /\ lock \in {seen[p], {}}
          /\ seen[p] \subseteq ReadId /\ req[p].wid \in seen[p]
      BY <1>3 DEF Rewrite, LocalShape, SeenIsCurrent, BeforeWrite
    <2>2. lock' = seen[p] \ {req[p].wid}
      BY <1>3, <2>1 DEF Rewrite, Remaining, TypeOK, Id
    <2>3. CASE lock = seen[p]
      <3>1. RW!LeaveRead(req[p].wid) /\ req[p].wid \in ReadId
        BY <2>1, <2>2, <2>3 DEF RW!LeaveRead
      <3>2. QED
        BY <3>1 DEF RW!Next
    <2>4. CASE lock = {}
      <3>1. lock' \in SUBSET ReadId /\ RW!Revive(lock')
        BY <2>1, <2>2, <2>4 DEF RW!Revive
      <3>2. QED
        BY <3>1 DEF RW!Next
    <2>5. QED
      BY <2>1, <2>3, <2>4
  <1>4. ASSUME lock' = {} PROVE RW!Next
    BY <1>4 DEF RW!Next, RW!Clear
  <1>5. ASSUME NEW p \in Proc, DelLock(p) \/ DropLock(p) PROVE lock' = {}
    BY <1>5 DEF DelLock, DropLock
  <1>6. CASE Tick
    <2>1. lock' = {} \/ lock' = lock
      BY <1>6 DEF Tick
    <2>2. QED
      BY <1>4, <2>1
  <1>7. ASSUME NEW p \in Proc,
               \/ Request(p) \/ HandleExpired(p) \/ AcquireMutex(p)
               \/ MutexBusy(p) \/ GetLock(p) \/ RefuseCreate(p)
               \/ SetSession(p) \/ DelSession(p) \/ GetTtl(p)
               \/ RewriteError(p) \/ ReleaseMutex(p) \/ RemoveWriteLock(p)
               \/ Abort(p)
        PROVE UNCHANGED lock
    BY <1>7 DEF Request, HandleExpired, Begin, AcquireMutex, MutexBusy,
       GetLock, RefuseCreate, SetSession, DelSession, GetTtl, RewriteError,
       ReleaseMutex, RemoveWriteLock, Abort, redis, entry
  <1>8. ASSUME NEW i \in Inst, Restart(i) PROVE UNCHANGED lock
    BY <1>8 DEF Restart, redis, entry
  <1>9. ASSUME ExpireMutex \/ UNCHANGED vars PROVE UNCHANGED lock
    BY <1>9 DEF ExpireMutex, vars, redis, entry
  <1> HIDE DEF IInv
  <1>10. QED
    BY <1>1, <1>2, <1>3, <1>4, <1>5, <1>6, <1>7, <1>8, <1>9 DEF Next, Command

THEOREM Refinement == ASSUME Quick PROVE Spec => ReadersWriter
  <1>1. Init => RW!Init
    BY DEF Init, RW!Init
  <1>2. QED
    BY Invariance, RWStep, <1>1, PTL DEF Spec, ReadersWriter, RW!Spec
=============================================================================
