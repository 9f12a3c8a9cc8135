---------------------------- MODULE DatasetProofs ----------------------------
(***************************************************************************)
(* Theorems about Dataset, for any number of requests, names, storage      *)
(* locations and lock ids.                                                 *)
(***************************************************************************)
EXTENDS Dataset, TLAPS

\* An abbreviation, like persistent and redis, which is expanded everywhere.
USE DEF objects

-----------------------------------------------------------------------------
(* Types, where each request stands, and the shape of locks.               *)

Stored == /\ journal \in [Key -> Record \cup {Nil}]
          /\ inflight \in SUBSET Write
          /\ purging \in SUBSET Store /\ erased \in SUBSET Store /\ left \in SUBSET Store

Locked == /\ lock \in [Name -> SUBSET Id]
          /\ mutex \in [Name -> Proc \cup {Nil, Leaked}]
          /\ overrun \in SUBSET Name
          /\ LockShape

\* A request that ends stands nowhere.
LEMMA EndBased ==
  ASSUME Based, NEW p \in Proc, End(p), setting' = setting, Stored', Locked'
  PROVE  Based'
  <1>1. TypeOK'
    BY DEF Based, TypeOK, End, Goto, Stored, Locked, Label, Key, Entity
  <1>2. Asked'
    BY <1>1 DEF Based, TypeOK, Asked, End, Goto, Entity, Key, DatasetAssumption
  <1>3. QED
    BY <1>1, <1>2 DEF Based, Locked

\* A request that goes on keeps its call, and takes what its next label needs.
LEMMA GoBased ==
  ASSUME Based, NEW p \in Proc, NEW l, Goto(p, l), pc[p] # "idle",
         UNCHANGED <<req, setting>>, l \in LabelsOf(req[p].op),
         got' \in [Proc -> Entity \cup {Nil}],
         store' \in [Proc -> Store \cup {Nil}],
         \A q \in Proc \ {p} : got'[q] = got[q] /\ store'[q] = store[q],
         l \in {"create", "undo", "remove", "purge", "write", "clash", "rename", "renaming"}
           => got'[p] \in Entity,
         l \in {"save", "saving"} => store'[p] \in Store,
         store'[p] # Nil =>
           l \in {"save", "saving", "keep", "rollback", "undo", "drop", "dropLock"},
         Stored', Locked'
  PROVE  Based'
  <1>1. l \in Label
    <2>1. req[p].op \in Operations
      BY DEF Based, Asked, Request
    <2>2. QED
      BY <2>1 DEF LabelsOf, Label, Operations, Registering
  <1>2. TypeOK'
    BY <1>1 DEF Based, TypeOK, Goto, Stored, Locked, Key, Entity
  <1>3. Asked'
    BY <1>2 DEF Based, TypeOK, Asked, Goto, Entity, Key
  <1>4. QED
    BY <1>2, <1>3 DEF Based, Locked

\* What the journal and Redis hold when a step leaves them alone.
LEMMA StoredStays ==
  ASSUME Based, UNCHANGED <<persistent, setting>> PROVE Stored'
  BY DEF Based, TypeOK, Stored, persistent, Key, Write, Entity

LEMMA LockedStays ==
  ASSUME Based, UNCHANGED redis PROVE Locked'
  BY DEF Based, TypeOK, Locked, redis, LockShape

\* The mutex alone.
LEMMA MutexMoves ==
  ASSUME Based, lock' = lock, overrun' \in SUBSET Name,
         mutex' \in [Name -> Proc \cup {Nil, Leaked}]
  PROVE  Locked'
  BY DEF Based, TypeOK, Locked, LockShape

LEMMA Releases ==
  ASSUME Based, NEW p \in Proc, pc[p] # "idle", Release(p)
  PROVE  mutex' \in [Name -> Proc \cup {Nil, Leaked}]
  BY DEF Based, TypeOK, Release

LEMMA InitBased == Init => Based
  <1> SUFFICES ASSUME Init PROVE Based
    OBVIOUS
  <1> QED
    BY DatasetAssumption
    DEF Init, Based, TypeOK, Asked, LockShape, Label, Key, Entity

\* Facts about what a handler finds and writes.
LEMMA FoundTyped ==
  ASSUME TypeOK, NEW n \in Name, NEW e \in Found(n)
  PROVE  /\ e \in Entity /\ journal[e.key] # Nil /\ journal[e.key] = e.data
         /\ IF setting.enforceKey THEN e.key = n ELSE e.data.name = n
  BY DEF TypeOK, Found, Entity

LEMMA RegistrationTyped ==
  ASSUME Based, NEW p \in Proc, pc[p] \in {"save", "saving"}
  PROVE  /\ req[p].name \in Name /\ store[p] \in Store
         /\ Registration(p) \in Write
         /\ Registration(p).by = p /\ Registration(p).kind = "save"
         /\ Registration(p).key = KeyOf(req[p].name, store[p])
         /\ Registration(p).data.gcsurl = store[p]
         /\ Registration(p).data.name = req[p].name
  <1>1. req[p].name \in Name /\ store[p] \in Store
    BY DEF Based, Asked, Request
  <1>2. KeyOf(req[p].name, store[p]) \in Key
    BY <1>1 DEF KeyOf, Key
  <1>3. [name |-> req[p].name, gcsurl |-> store[p], gtags |-> {}] \in Record
    BY <1>1 DEF Record
  <1>4. QED
    BY <1>1, <1>2, <1>3 DEF Registration, Write

LEMMA RenamedTyped ==
  ASSUME Based, NEW p \in Proc, pc[p] \in {"rename", "renaming"}
  PROVE  /\ req[p].name \in Name /\ req[p].to \in Name /\ got[p] \in Entity
         /\ Deletion(p) \in Write /\ Renamed(p) \in Write
         /\ Deletion(p).by = p /\ Deletion(p).kind = "delete"
         /\ Deletion(p).key = got[p].key /\ Deletion(p).data = got[p].data
         /\ Renamed(p).by = p /\ Renamed(p).kind = "save"
         /\ Renamed(p).key = (IF setting.enforceKey THEN req[p].to ELSE got[p].key)
         /\ Renamed(p).data = [got[p].data EXCEPT !.name = req[p].to]
         /\ Renamed(p).data.name = req[p].to
         /\ Renamed(p).data.gcsurl = got[p].data.gcsurl
  <1>1. req[p] \in Request /\ WellFormed(req[p]) /\ got[p] \in Entity
        /\ pc[p] \in LabelsOf(req[p].op)
    BY DEF Based, Asked
  <1>2. req[p].op = "rename"
    BY <1>1 DEF LabelsOf, Request, Operations, Registering
  <1>3. req[p].to \in Name /\ req[p].name \in Name
    BY <1>1, <1>2 DEF WellFormed, Request
  <1>4. [got[p].data EXCEPT !.name = req[p].to] \in Record
    BY <1>1, <1>3 DEF Entity, Record
  <1>5. (IF setting.enforceKey THEN req[p].to ELSE got[p].key) \in Key
    BY <1>1, <1>3 DEF Key, Entity
  <1>6. got[p].key \in Key /\ got[p].data \in Record
    BY <1>1 DEF Entity
  <1>7. [got[p].data EXCEPT !.name = req[p].to].name = req[p].to
        /\ [got[p].data EXCEPT !.name = req[p].to].gcsurl = got[p].data.gcsurl
    BY <1>6 DEF Record
  <1>8. QED
    BY <1>1, <1>3, <1>4, <1>5, <1>6, <1>7 DEF Deletion, Renamed, Write

LEMMA ChangedTyped ==
  ASSUME Based, NEW p \in Proc, pc[p] = "write"
  PROVE  /\ got[p] \in Entity /\ Changed(p) \in Record
         /\ Changed(p).name = got[p].data.name
         /\ Changed(p).gcsurl = got[p].data.gcsurl
         /\ req[p].op \in {"patch", "putTags", "computeSize"}
  <1>1. req[p] \in Request /\ got[p] \in Entity /\ pc[p] \in LabelsOf(req[p].op)
    BY DEF Based, Asked
  <1>2. req[p].op \in {"patch", "putTags", "computeSize"}
    BY <1>1 DEF LabelsOf, Request, Operations, Registering
  <1>3. got[p].data \in Record /\ req[p].gtags \subseteq Tag
    BY <1>1 DEF Entity, Request
  <1>4. CASE req[p].op = "putTags"
    BY <1>1, <1>2, <1>3, <1>4 DEF Changed, Record
  <1>5. CASE req[p].op = "patch"
    BY <1>1, <1>2, <1>3, <1>5 DEF Changed, Record
  <1>6. CASE req[p].op = "computeSize"
    BY <1>1, <1>2, <1>3, <1>6 DEF Changed, Record
  <1>7. QED
    BY <1>1, <1>2, <1>4, <1>5, <1>6

\* A request that begins has done nothing yet.
LEMMA ReceiveBased ==
  ASSUME Based, NEW p \in Proc, Receive(p) PROVE Based'
  <1>1. PICK r \in Calls : Begin(p, r)
    BY DEF Receive
  <1>2. r \in Request /\ WellFormed(r) /\ r.op \in setting.ops
    <2>1. setting \in Setting
      BY DatasetAssumption DEF Based, TypeOK
    <2>2. QED
      BY <2>1 DEF Calls, Request, Setting
  <1>3. /\ Start(r) \in LabelsOf(r.op) /\ Start(r) \in {"create", "close", "get"}
        /\ Start(r) = "create" => r.op = "register"
    <2>1. r.op \in Operations
      BY <1>2 DEF Request
    <2>2. QED
      BY <2>1 DEF Start, LabelsOf, Operations, Registering
  <1>4. Stored' /\ Locked'
    BY <1>1, StoredStays, LockedStays DEF Begin
  <1>5. TypeOK'
    BY <1>1, <1>2, <1>3, <1>4
    DEF Begin, Goto, Based, TypeOK, Stored, Locked, Label, Key, Entity
  <1>6. Asked'
    BY <1>1, <1>2, <1>3, <1>5
    DEF Begin, Goto, Based, TypeOK, Asked, Entity, Key
  <1>7. QED
    BY <1>4, <1>5, <1>6 DEF Based, Locked

\* What the label of a request says of it.
LEMMA AskedOf ==
  ASSUME Based, NEW p \in Proc, pc[p] # "idle"
  PROVE  /\ req[p] \in Request /\ WellFormed(req[p]) /\ req[p].name \in Name
         /\ req[p].op \in Operations /\ req[p].op \in setting.ops
         /\ pc[p] \in LabelsOf(req[p].op)
         /\ pc[p] \in {"again", "check", "save", "saving", "keep", "rollback", "undo"}
              => req[p].op = "register"
         /\ pc[p] \in {"create", "drop", "dropLock"}
              => req[p].op \in {"register", "computeSize"}
         /\ pc[p] = "close" => req[p].op \in {"patch", "rename"}
         /\ pc[p] = "get" => req[p].op # "register"
         /\ pc[p] = "orphan" => req[p].op = "unlock"
         /\ pc[p] \in {"remove", "purge"} => req[p].op = "delete"
         /\ pc[p] \in {"clash", "rename", "renaming"} => req[p].op = "rename"
         /\ pc[p] = "write" => req[p].op \in {"patch", "putTags", "computeSize"}
         /\ pc[p] = "acquire" => req[p].op \in {"lockWrite", "lockRead"}
         /\ pc[p] = "unlock" => req[p].op \in {"delete", "close", "unlock"}
  <1>1. /\ req[p] \in Request /\ WellFormed(req[p]) /\ req[p].op \in setting.ops
        /\ pc[p] \in LabelsOf(req[p].op)
    BY DEF Based, Asked
  <1>2. req[p].name \in Name /\ req[p].op \in Operations
    BY <1>1 DEF Request
  <1>3. QED
    BY <1>1, <1>2 DEF LabelsOf, Operations, Registering

\* A journal entry replaced by a record or by nothing.
LEMMA PutTyped ==
  ASSUME Based, setting' = setting, NEW k \in Key, NEW d \in Record \cup {Nil},
         journal' = [journal EXCEPT ![k] = d],
         inflight' \in SUBSET Write, purging' \in SUBSET Store,
         erased' \in SUBSET Store, left' \in SUBSET Store
  PROVE  Stored'
  BY DEF Based, TypeOK, Stored, Key, Write, Entity

LEMMA SameStored ==
  ASSUME Based, setting' = setting, journal' = journal,
         inflight' \in SUBSET Write, purging' \in SUBSET Store,
         erased' \in SUBSET Store, left' \in SUBSET Store
  PROVE  Stored'
  BY DEF Based, TypeOK, Stored, Key, Write, Entity

\* What a request read and chose stays typed.
LEMMA GotStays ==
  ASSUME Based, UNCHANGED <<got, store, setting>>
  PROVE  /\ got' \in [Proc -> Entity \cup {Nil}]
         /\ store' \in [Proc -> Store \cup {Nil}]
         /\ (Entity' = Entity) /\ (Key' = Key) /\ (Write' = Write)
  BY DEF Based, TypeOK, Entity, Key, Write

\* The steps of register keep it.
LEMMA RegisterBased ==
  ASSUME Based, NEW p \in Proc,
         \/ CreateWriteLock(p) \/ Again(p) \/ Check(p) \/ Save(p) \/ Saved(p)
         \/ SaveRejected(p) \/ InsertRejected(p) \/ Keep(p) \/ Rollback(p)
         \/ Undo(p) \/ RollbackRejected(p) \/ Drop(p) \/ DropLock(p)
  PROVE  Based'
  <1> USE DatasetAssumption
  <1>1. CASE CreateWriteLock(p)
    <2> USE <1>1 DEF CreateWriteLock
    <2>1. req[p].name \in Name /\ req[p].wid \in WriteId /\ pc[p] # "idle"
      BY AskedOf DEF WellFormed
    <2>2. Stored'
      BY StoredStays
    <2>3. Locked'
      BY <2>1 DEF Based, TypeOK, Locked, LockShape, Id
    <2>4. CASE End(p)
      BY <2>2, <2>3, <2>4, EndBased
    <2>5. CASE ~End(p)
      <3>1. PICK l \in {"check", "again", "write"} :
              Goto(p, l) /\ UNCHANGED <<req, got, store>> /\ l \in LabelsOf(req[p].op)
                /\ (l = "write" => req[p].op = "computeSize")
        BY <2>5, AskedOf DEF LabelsOf, Registering
      <3>2. l = "write" => got[p] \in Entity
        BY <3>1 DEF Based, Asked
      <3>3. store[p] = Nil
        BY DEF Based, Asked
      <3>4. setting' = setting /\ store'[p] = Nil /\ (l = "write" => got'[p] \in Entity)
        BY <3>1, <3>2, <3>3
      <3> HIDE <1>1 DEF CreateWriteLock
      <3>5. QED
        BY <2>1, <2>2, <2>3, <3>1, <3>4, GoBased, GotStays
    <2>6. QED
      BY <2>4, <2>5
  <1>2. CASE Again(p)
    <2>1. PICK l \in {"keep", "check", "drop"} : Goto(p, l)
      BY <1>2 DEF Again
    <2>2. l \in LabelsOf(req[p].op) /\ store[p] = Nil
      BY <1>2, <2>1, AskedOf DEF Again, LabelsOf, Registering, Based, Asked
    <2>3. UNCHANGED <<persistent, redis, req, got, store, setting>> /\ pc[p] = "again"
      BY <1>2 DEF Again
    <2>4. QED
      BY <2>1, <2>2, <2>3, GotStays, StoredStays, LockedStays, GoBased
  <1>3. CASE Check(p)
    <2>1. Stored' /\ Locked' /\ UNCHANGED <<req, got, setting>> /\ pc[p] = "check"
      BY <1>3, StoredStays, LockedStays DEF Check
    <2>2. got' \in [Proc -> Entity \cup {Nil}] /\ (Entity' = Entity)
      BY <2>1 DEF Based, TypeOK, Entity, Key
    <2>3. {"drop", "save"} \subseteq LabelsOf(req[p].op)
      BY <2>1, AskedOf DEF LabelsOf, Registering
    <2>4. CASE Goto(p, "drop") /\ UNCHANGED store
      BY <2>1, <2>2, <2>3, <2>4, GoBased DEF Based, TypeOK
    <2>5. ASSUME NEW s \in Store, store' = [store EXCEPT ![p] = s], Goto(p, "save")
          PROVE  Based'
      BY <2>1, <2>2, <2>3, <2>5, GoBased DEF Based, TypeOK
    <2>6. QED
      BY <1>3, <2>4, <2>5 DEF Check
  <1>4. CASE Save(p)
    <2>1. Stored'
      BY <1>4, RegistrationTyped, SameStored DEF Save, Based, TypeOK
    <2>2. /\ Locked' /\ UNCHANGED <<req, got, store, setting>>
          /\ Goto(p, "saving") /\ pc[p] = "save"
      BY <1>4, LockedStays DEF Save
    <2>3. "saving" \in LabelsOf(req[p].op) /\ store[p] \in Store
      BY <2>2, AskedOf, RegistrationTyped DEF LabelsOf, Registering
    <2>4. QED
      BY <2>1, <2>2, <2>3, GotStays, GoBased
  <1>5. CASE Saved(p)
    BY <1>5, AskedOf, GotStays, StoredStays, LockedStays, GoBased
    DEF Saved, LabelsOf, Registering, Based, Asked
  <1>6. CASE SaveRejected(p)
    <2>1. /\ Registration(p).key \in Key /\ Registration(p).data \in Record
          /\ inflight' \in SUBSET Write /\ erased' \in SUBSET Store
      BY <1>6, RegistrationTyped DEF SaveRejected, Based, TypeOK, Write
    <2>2. /\ UNCHANGED <<req, got, store, setting>>
          /\ Goto(p, "rollback") /\ pc[p] = "saving"
      BY <1>6 DEF SaveRejected
    <2>3. Stored'
      BY <1>6, <2>1, <2>2, SameStored, PutTyped DEF SaveRejected, Based, TypeOK
    <2>4. Locked'
      BY <1>6, LockedStays DEF SaveRejected
    <2>5. "rollback" \in LabelsOf(req[p].op)
      BY <2>2, AskedOf DEF LabelsOf, Registering
    <2>6. QED
      BY <2>2, <2>3, <2>4, <2>5, GotStays, GoBased
  <1>7. CASE InsertRejected(p)
    BY <1>7, AskedOf, GotStays, StoredStays, LockedStays, GoBased
    DEF InsertRejected, LabelsOf, Registering, Based, Asked
  <1>8. CASE Keep(p)
    <2>1. overrun' \in SUBSET Name
      BY <1>8 DEF Keep, Based, TypeOK
    <2>2. QED
      BY <1>8, <2>1, StoredStays, Releases, MutexMoves, EndBased DEF Keep
  <1>9. CASE Rollback(p)
    <2>1. CASE Goto(p, "drop") /\ UNCHANGED got
      BY <1>9, <2>1, AskedOf, GotStays, StoredStays, LockedStays, GoBased
      DEF Rollback, LabelsOf, Registering, Based, Asked
    <2>2. ASSUME NEW e \in Found(req[p].name),
                 got' = [got EXCEPT ![p] = e], Goto(p, "undo")
          PROVE  Based'
      <3>1. e \in Entity /\ (Entity' = Entity)
        BY <1>9, AskedOf, FoundTyped DEF Rollback, Based, Entity, Key
      <3>2. got' \in [Proc -> Entity \cup {Nil}]
        BY <2>2, <3>1 DEF Based, TypeOK
      <3>3. QED
        BY <1>9, <2>2, <3>1, <3>2, AskedOf, StoredStays, LockedStays, GoBased
        DEF Rollback, LabelsOf, Registering, Based, TypeOK
    <2>3. QED
      BY <1>9, <2>1, <2>2 DEF Rollback
  <1>10. CASE Undo(p)
    <2>1. got[p].key \in Key
      BY <1>10 DEF Undo, Based, Asked, Entity
    <2>2. Stored'
      BY <1>10, <2>1, PutTyped DEF Undo, Based, TypeOK
    <2>3. QED
      BY <1>10, <2>2, AskedOf, GotStays, LockedStays, GoBased
      DEF Undo, LabelsOf, Registering
  <1>11. CASE RollbackRejected(p)
    BY <1>11, StoredStays, MutexMoves, EndBased
    DEF RollbackRejected, Leave, Based, TypeOK
  <1>12. CASE Drop(p)
    <2>1. overrun' \in SUBSET Name
      BY <1>12 DEF Drop, Based, TypeOK
    <2>2. Locked'
      BY <1>12, <2>1, Releases, MutexMoves DEF Drop
    <2>3. QED
      BY <1>12, <2>2, AskedOf, GotStays, StoredStays, GoBased
      DEF Drop, LabelsOf, Registering
  <1>13. CASE DropLock(p)
    BY <1>13, AskedOf, StoredStays, EndBased
    DEF DropLock, Based, TypeOK, Locked, LockShape
  <1>14. QED
    BY <1>1, <1>2, <1>3, <1>4, <1>5, <1>6, <1>7, <1>8, <1>9, <1>10, <1>11, <1>12, <1>13

\* The steps of the other handlers keep it.
LEMMA OthersBased ==
  ASSUME Based, NEW p \in Proc,
         \/ Close(p) \/ Get(p) \/ Denied(p) \/ Orphan(p) \/ Remove(p) \/ Purge(p)
         \/ RemoveRejected(p) \/ Unlock(p)
         \/ Acquire(p) \/ Busy(p) \/ Update(p) \/ UpdateRejected(p) \/ Clash(p)
         \/ Rename(p) \/ RenameDone(p) \/ RenameRejected(p)
  PROVE  Based'
  <1> USE DatasetAssumption
  <1>1. CASE Close(p)
    <2>1. Stored' /\ pc[p] = "close" /\ setting' = setting
      BY <1>1, StoredStays DEF Close
    <2>2. req[p].name \in Name /\ "get" \in LabelsOf(req[p].op)
      BY <2>1, AskedOf DEF LabelsOf
    <2>3. Locked'
      BY <1>1, <2>2 DEF Close, Based, TypeOK, Locked, LockShape
    <2>4. store[p] = Nil
      BY <2>1 DEF Based, Asked
    <2>5. CASE End(p)
      BY <2>1, <2>3, <2>5, EndBased
    <2>6. CASE Goto(p, "get") /\ UNCHANGED <<req, got, store>>
      BY <2>1, <2>2, <2>3, <2>4, <2>6, GotStays, GoBased
    <2>7. QED
      BY <1>1, <2>5, <2>6 DEF Close
  <1>2. CASE Get(p)
    <2>1. /\ Stored' /\ Locked' /\ pc[p] = "get" /\ setting' = setting
          /\ (Entity' = Entity)
      BY <1>2, StoredStays, LockedStays DEF Get, Entity, Key
    <2>2. store[p] = Nil
      BY <2>1 DEF Based, Asked
    <2>3. ASSUME NEW e \in Found(req[p].name), got' = [got EXCEPT ![p] = e],
                 Goto(p, AfterGet(req[p])), UNCHANGED <<req, store>>
          PROVE  Based'
      <3>1. e \in Entity
        BY <2>1, AskedOf, FoundTyped DEF Based
      <3>2. got' \in [Proc -> Entity \cup {Nil}] /\ got'[p] \in Entity
            /\ \A q \in Proc \ {p} : got'[q] = got[q]
        BY <2>1, <2>3, <3>1 DEF Based, TypeOK
      <3>3. AfterGet(req[p]) \in LabelsOf(req[p].op)
            /\ AfterGet(req[p]) \notin {"save", "saving"}
        BY <2>1, AskedOf DEF AfterGet, LabelsOf, Operations, Registering
      <3>4. store' \in [Proc -> Store \cup {Nil}] /\ store' = store
        BY <2>3 DEF Based, TypeOK
      <3>5. QED
        BY <2>1, <2>2, <2>3, <3>2, <3>3, <3>4, GoBased
    <2>4. CASE Goto(p, "orphan") /\ UNCHANGED <<req, got, store>> /\ req[p].op = "unlock"
      <3>1. "orphan" \in LabelsOf(req[p].op)
        BY <2>4 DEF LabelsOf
      <3>2. QED
        BY <2>1, <2>2, <2>4, <3>1, GotStays, GoBased
    <2>5. CASE End(p)
      BY <2>1, <2>5, EndBased
    <2>6. QED
      BY <1>2, <2>3, <2>4, <2>5 DEF Get
  <1>3. CASE Denied(p)
    BY <1>3, StoredStays, LockedStays, EndBased DEF Denied
  <1>4. CASE Orphan(p)
    <2>1. Stored' /\ Locked' /\ pc[p] = "orphan" /\ setting' = setting
      BY <1>4, StoredStays, LockedStays DEF Orphan
    <2>2. store[p] = Nil
      BY <2>1 DEF Based, Asked
    <2>3. "unlock" \in LabelsOf(req[p].op)
      BY <2>1, AskedOf DEF LabelsOf
    <2>4. QED
      BY <1>4, <2>1, <2>2, <2>3, EndBased, GotStays, GoBased DEF Orphan
  <1>5. CASE Remove(p)
    <2>1. /\ Locked' /\ pc[p] = "remove" /\ setting' = setting
          /\ UNCHANGED <<inflight, objects>>
      BY <1>5, LockedStays DEF Remove
    <2>2. got[p] \in Entity /\ got[p].key \in Key
      BY <2>1 DEF Based, Asked, Entity
    <2>3. Stored'
      BY <1>5, <2>1, <2>2, PutTyped, SameStored DEF Remove, Based, TypeOK
    <2>4. "purge" \in LabelsOf(req[p].op) /\ store[p] = Nil
      BY <2>1, AskedOf DEF LabelsOf, Based, Asked
    <2>5. CASE End(p)
      BY <2>1, <2>3, <2>5, EndBased
    <2>6. CASE Goto(p, "purge") /\ UNCHANGED <<req, got, store>>
      BY <2>1, <2>2, <2>3, <2>4, <2>6, GotStays, GoBased
    <2>7. QED
      BY <1>5, <2>5, <2>6 DEF Remove
  <1>16. CASE Purge(p)
    <2>1. /\ Locked' /\ pc[p] = "purge" /\ UNCHANGED <<req, got, store, setting>>
          /\ Goto(p, "unlock")
      BY <1>16, LockedStays DEF Purge
    <2>2. got[p] \in Entity /\ got[p].data.gcsurl \in Store
      BY <2>1 DEF Based, Asked, Entity, Record
    <2>3. Stored'
      BY <1>16, <2>1, <2>2, SameStored DEF Purge, Based, TypeOK
    <2>4. "unlock" \in LabelsOf(req[p].op) /\ store[p] = Nil
      BY <2>1, AskedOf DEF LabelsOf, Based, Asked
    <2>5. QED
      BY <2>1, <2>3, <2>4, GotStays, GoBased
  <1>17. CASE RemoveRejected(p)
    <2>1. /\ Locked' /\ pc[p] \in {"remove", "purge"} /\ setting' = setting /\ End(p)
      BY <1>17, LockedStays DEF RemoveRejected
    <2>2. got[p].data.gcsurl \in Store
      BY <2>1 DEF Based, Asked, Entity, Record
    <2>3. Stored'
      BY <1>17, <2>1, <2>2, SameStored DEF RemoveRejected, Based, TypeOK
    <2>4. QED
      BY <2>1, <2>3, EndBased
  <1>6. CASE Unlock(p)
    <2>1. /\ Stored' /\ pc[p] = "unlock" /\ setting' = setting /\ mutex' = mutex /\ End(p)
          /\ overrun' = overrun
      BY <1>6, StoredStays DEF Unlock
    <2>2. req[p].name \in Name
      BY <2>1, AskedOf
    <2>3. PICK S : lock' = [lock EXCEPT ![req[p].name] =
                              IF S \cap @ = {} THEN @ ELSE @ \ S]
      BY <1>6 DEF Unlock
    <2>4. \A n \in Name : lock'[n] \subseteq lock[n]
      BY <2>2, <2>3 DEF Based, TypeOK
    <2>5. lock' \in [Name -> SUBSET Id]
      BY <2>2, <2>3 DEF Based, TypeOK
    <2>6. LockShape'
      <3>1. SUFFICES ASSUME NEW n \in Name
                     PROVE  lock'[n] \subseteq ReadId \/ \E w \in WriteId : lock'[n] = {w}
        BY DEF LockShape
      <3>2. CASE lock[n] \subseteq ReadId
        BY <2>4, <3>2
      <3>3. ASSUME NEW w \in WriteId, lock[n] = {w}
            PROVE  lock'[n] = {} \/ lock'[n] = {w}
        BY <2>4, <3>3
      <3>4. QED
        BY <3>2, <3>3 DEF Based, LockShape
    <2>7. QED
      BY <2>1, <2>5, <2>6, EndBased DEF Locked, Based, TypeOK
  <1>7. CASE Acquire(p)
    <2>1. /\ Stored' /\ pc[p] = "acquire" /\ setting' = setting /\ mutex' = mutex /\ End(p)
      BY <1>7, StoredStays DEF Acquire
    <2>2. /\ req[p].name \in Name
          /\ \/ req[p].op = "lockRead" /\ req[p].wid \in ReadId
             \/ req[p].op = "lockWrite" /\ req[p].wid \in WriteId
      BY <2>1, AskedOf DEF WellFormed
    <2>3. Locked'
      BY <1>7, <2>2 DEF Acquire, Based, TypeOK, Locked, LockShape, Id
    <2>4. QED
      BY <2>1, <2>3, EndBased
  <1>8. CASE Busy(p)
    BY <1>8, StoredStays, LockedStays, EndBased DEF Busy
  <1>9. CASE Update(p)
    <2>1. /\ Locked' /\ pc[p] = "write" /\ setting' = setting
          /\ inflight' = inflight /\ erased' = erased
      BY <1>9, LockedStays DEF Update
    <2>2. got[p].key \in Key /\ Changed(p) \in Record
      BY <2>1, ChangedTyped DEF Entity
    <2>3. Stored'
      BY <1>9, <2>1, <2>2, PutTyped DEF Update, Based, TypeOK
    <2>4. store[p] = Nil /\ (req[p].op = "computeSize" => "drop" \in LabelsOf(req[p].op))
      BY <2>1 DEF LabelsOf, Based, Asked
    <2>5. QED
      BY <1>9, <2>1, <2>3, <2>4, EndBased, GotStays, GoBased DEF Update
  <1>10. CASE UpdateRejected(p)
    BY <1>10, StoredStays, LockedStays, GotStays, GoBased
    DEF UpdateRejected, LabelsOf
  <1>11. CASE Clash(p)
    <2>1. Stored' /\ Locked' /\ pc[p] = "clash" /\ setting' = setting
      BY <1>11, StoredStays, LockedStays DEF Clash
    <2>2. store[p] = Nil /\ got[p] \in Entity
      BY <2>1 DEF Based, Asked
    <2>3. "rename" \in LabelsOf(req[p].op)
      BY <2>1, AskedOf DEF LabelsOf
    <2>4. QED
      BY <1>11, <2>1, <2>2, <2>3, EndBased, GotStays, GoBased DEF Clash
  <1>12. CASE Rename(p)
    <2>1. /\ Locked' /\ pc[p] = "rename" /\ setting' = setting /\ Goto(p, "renaming")
          /\ UNCHANGED <<req, got, store>>
      BY <1>12, LockedStays DEF Rename
    <2>2. /\ inflight' = inflight \cup {Deletion(p), Renamed(p)}
          /\ journal' = journal /\ UNCHANGED objects
      BY <1>12 DEF Rename
    <2>3. /\ inflight \in SUBSET Write /\ purging \in SUBSET Store
          /\ erased \in SUBSET Store /\ left \in SUBSET Store
      BY DEF Based, TypeOK
    <2>4. Deletion(p) \in Write /\ Renamed(p) \in Write
      BY <2>1, RenamedTyped
    <2>5. Stored'
      BY <2>1, <2>2, <2>3, <2>4, SameStored
    <2>6. store[p] = Nil /\ got[p] \in Entity
      BY <2>1 DEF Based, Asked
    <2>7. "renaming" \in LabelsOf(req[p].op)
      BY <2>1, AskedOf DEF LabelsOf
    <2>8. QED
      BY <2>1, <2>5, <2>6, <2>7, GotStays, GoBased
  <1>13. CASE RenameDone(p)
    BY <1>13, StoredStays, LockedStays, EndBased DEF RenameDone
  <1>14. CASE RenameRejected(p)
    BY <1>14, SameStored, LockedStays, EndBased DEF RenameRejected, Based, TypeOK
  <1>15. QED
    BY <1>1, <1>2, <1>3, <1>4, <1>5, <1>6, <1>7, <1>8, <1>9, <1>10, <1>11, <1>12,
       <1>13, <1>14, <1>16, <1>17

\* So do the journal and the clock.
LEMMA EnvBased ==
  ASSUME Based,
         \/ \E w \in inflight : Land(w)
         \/ \E s \in purging : Purged(s)
         \/ \E n \in Name : ExpireMutex(n) \/ ExpireLock(n)
  PROVE  Based'
  <1> USE DatasetAssumption
  <1>0. UNCHANGED <<pc, req, got, store, setting>>
    BY DEF Land, Purged, ExpireMutex, ExpireLock
  <1>1. Stored'
    <2>1. CASE \E w \in inflight : Land(w)
      <3>1. PICK w \in inflight : Land(w)
        BY <2>1
      <3>2. w.key \in Key /\ w.data \in Record
        BY DEF Based, TypeOK, Write
      <3>3. QED
        BY <3>1, <3>2, PutTyped DEF Land, Based, TypeOK
    <2>2. CASE \E n \in Name : ExpireMutex(n) \/ ExpireLock(n)
      BY <2>2, StoredStays DEF ExpireMutex, ExpireLock
    <2>3. CASE \E s \in purging : Purged(s)
      BY <2>3, SameStored DEF Purged, Based, TypeOK
    <2>4. QED
      BY <2>1, <2>2, <2>3
  <1>2. Locked'
    BY DEF Land, Purged, ExpireMutex, ExpireLock, redis, Locked, LockShape, Based, TypeOK
  <1>3. TypeOK' /\ Asked'
    BY <1>0, <1>1, <1>2
    DEF Based, TypeOK, Asked, Stored, Locked, Entity, Key, WellFormed, Places, LabelsOf
  <1>4. QED
    BY <1>2, <1>3 DEF Based, Locked

LEMMA StepBased == Based /\ [Next]_vars => Based'
  <1>1. CASE UNCHANGED vars
    BY <1>1, StoredStays, LockedStays
    DEF vars, Based, TypeOK, Asked, Stored, Locked, Entity, Key, WellFormed, Places,
        LabelsOf
  <1>2. QED
    BY <1>1, ReceiveBased, RegisterBased, OthersBased, EnvBased DEF Next, Step

-----------------------------------------------------------------------------
(* Who writes a lock.                                                      *)

\* Only these steps write a lock.
LEMMA LockWriters ==
  ASSUME Next, lock' # lock
  PROVE  \/ \E p \in Proc : \/ CreateWriteLock(p) \/ DropLock(p) \/ Close(p)
                            \/ Unlock(p) \/ Acquire(p)
         \/ \E n \in Name : ExpireLock(n)
  BY DEF Next, Step, Receive, Begin, Again, Check, Save, Saved, SaveRejected,
     InsertRejected, Keep, Rollback, Undo, RollbackRejected, Drop, Get, Denied, Orphan,
     Remove, Purge, RemoveRejected, Busy, Update, UpdateRejected, Clash, Rename, RenameDone,
     RenameRejected,
     Land, Purged, ExpireMutex, redis

\* The requests are typed, each at a label of its operation, and a lock has
\* one writer or readers, in every behaviour.
THEOREM BaseInvariance == Spec => []Based
  BY InitBased, StepBased, PTL DEF Spec

-----------------------------------------------------------------------------
(* The session of a registration, until a mutex expires under its owner.   *)

\* A step of one request leaves the others where they are.
LEMMA OthersStay ==
  ASSUME Based, NEW p \in Proc, Receive(p) \/ Step(p), NEW q \in Proc \ {p}
  PROVE  /\ pc'[q] = pc[q] /\ req'[q] = req[q]
         /\ got'[q] = got[q] /\ store'[q] = store[q]
  BY DEF Based, TypeOK, Step, Receive, Begin, End, Goto, Leave, CreateWriteLock, Again,
     Check, Save, Saved, SaveRejected, InsertRejected, Keep, Rollback, Undo,
     RollbackRejected, Drop, DropLock, Close, Get, Denied, Orphan, Remove, Purge,
     RemoveRejected, Unlock,
     Acquire, Busy, Update, UpdateRejected, Clash, Rename, RenameDone, RenameRejected

LEMMA SettingStays ==
  ASSUME Next PROVE setting' = setting
  <1>1. ASSUME NEW p \in Proc, Receive(p) PROVE setting' = setting
    BY <1>1 DEF Receive, Begin
  <1>2. ASSUME NEW p \in Proc,
               \/ CreateWriteLock(p) \/ Again(p) \/ Check(p) \/ Save(p) \/ Saved(p)
               \/ SaveRejected(p) \/ InsertRejected(p) \/ Keep(p) \/ Rollback(p)
               \/ Undo(p) \/ RollbackRejected(p) \/ Drop(p) \/ DropLock(p)
        PROVE  setting' = setting
    BY <1>2 DEF CreateWriteLock, Again, Check, Save, Saved, SaveRejected, InsertRejected,
       Keep, Rollback, Undo, RollbackRejected, Drop, DropLock
  <1>3. ASSUME NEW p \in Proc,
               \/ Close(p) \/ Get(p) \/ Denied(p) \/ Orphan(p) \/ Remove(p) \/ Purge(p)
               \/ RemoveRejected(p) \/ Unlock(p)
               \/ Acquire(p) \/ Busy(p) \/ Update(p) \/ UpdateRejected(p) \/ Clash(p)
               \/ Rename(p) \/ RenameDone(p) \/ RenameRejected(p)
        PROVE  setting' = setting
    BY <1>3 DEF Close, Get, Denied, Orphan, Remove, Purge, RemoveRejected, Unlock, Acquire,
       Busy, Update,
       UpdateRejected, Clash, Rename, RenameDone, RenameRejected
  <1>4. ASSUME NEW w \in inflight, Land(w) PROVE setting' = setting
    BY <1>4 DEF Land
  <1>5. ASSUME NEW n \in Name, ExpireMutex(n) \/ ExpireLock(n) PROVE setting' = setting
    BY <1>5 DEF ExpireMutex, ExpireLock
  <1>7. ASSUME NEW s \in purging, Purged(s) PROVE setting' = setting
    BY <1>7 DEF Purged
  <1>6. QED
    BY <1>1, <1>2, <1>3, <1>4, <1>5, <1>7 DEF Next, Step

\* Only these steps write a mutex.
LEMMA MutexWriters ==
  ASSUME Next, mutex' # mutex
  PROVE  \/ \E p \in Proc : \/ CreateWriteLock(p) \/ Keep(p) \/ RollbackRejected(p)
                            \/ Drop(p)
         \/ \E n \in Name : ExpireMutex(n)
  BY DEF Next, Step, Receive, Begin, Again, Check, Save, Saved, SaveRejected,
     InsertRejected, Rollback, Undo, DropLock, Close, Get, Denied, Orphan, Remove, Purge,
     RemoveRejected, Unlock,
     Acquire, Busy, Update, UpdateRejected, Clash, Rename, RenameDone, RenameRejected,
     Land, Purged, ExpireLock, redis

\* A name whose mutex expired under its owner stays known as such.
LEMMA OverrunGrows == ASSUME [Next]_vars PROVE overrun \subseteq overrun'
  BY DEF Next, Step, Receive, Begin, CreateWriteLock, Again, Check, Save, Saved,
     SaveRejected, InsertRejected, Keep, Rollback, Undo, RollbackRejected, Drop, DropLock,
     Close, Get, Denied, Orphan, Remove, Purge, RemoveRejected, Unlock, Acquire, Busy, Update,
     UpdateRejected, Clash, Rename, RenameDone, RenameRejected, Land, Purged, ExpireMutex,
     ExpireLock, redis, vars

\* Nobody else touches the name of a session.
LEMMA SessionOfOthers ==
  ASSUME Based, Sessions, Next, NEW q \in Proc, InSession(q),
         pc'[q] = pc[q], req'[q] = req[q], req[q].name \notin overrun'
  PROVE  /\ lock'[req[q].name] \subseteq lock[req[q].name]
         /\ mutex'[req[q].name] = q
  <1> USE DatasetAssumption
  <1> DEFINE n == req[q].name
  <1>1. /\ n \in Name /\ mutex[n] = q /\ q # Nil /\ q # Leaked
        /\ lock \in [Name -> SUBSET Id] /\ mutex \in [Name -> Proc \cup {Nil, Leaked}]
        /\ pc \in [Proc -> Label]
    BY AskedOf, OverrunGrows DEF InSession, Sessions, Registering, Based, TypeOK
  <1>2. mutex'[n] = q
    <2>1. ASSUME NEW p \in Proc, \/ CreateWriteLock(p) \/ Keep(p) \/ RollbackRejected(p)
                                 \/ Drop(p)
          PROVE  mutex'[n] = q
      <3>1. p # q
        BY <1>1, <2>1
        DEF CreateWriteLock, Keep, RollbackRejected, Drop, Leave, End, Goto, InSession,
            Registering
      <3>2. \/ mutex'[n] = mutex[n] \/ mutex[n] = Nil
            \/ Release(p) \/ Leave(p)
        BY <1>1, <2>1 DEF CreateWriteLock, Keep, RollbackRejected, Drop
      <3>3. QED
        BY <1>1, <3>1, <3>2 DEF Release, Leave
    <2>2. ASSUME NEW m \in Name, ExpireMutex(m) PROVE mutex'[n] = q
      BY <1>1, <2>2 DEF ExpireMutex
    <2>3. QED
      BY <1>1, <2>1, <2>2, MutexWriters
  <1>3. lock'[n] \subseteq lock[n]
    <2>1. ASSUME NEW p \in Proc, CreateWriteLock(p) \/ Close(p) \/ Unlock(p) \/ Acquire(p)
          PROVE  lock'[n] = lock[n]
      BY <1>1, <2>1 DEF CreateWriteLock, Close, Unlock, Acquire
    <2>2. ASSUME NEW p \in Proc, DropLock(p) PROVE lock'[n] \subseteq lock[n]
      BY <1>1, <2>2 DEF DropLock
    <2>3. ASSUME NEW m \in Name, ExpireLock(m) PROVE lock'[n] \subseteq lock[n]
      BY <1>1, <2>3 DEF ExpireLock
    <2>4. QED
      BY <2>1, <2>2, <2>3, LockWriters
  <1>4. QED
    BY <1>2, <1>3 DEF n

\* A request enters its session by locking, and moves within it otherwise.
LEMMA SessionEntry ==
  ASSUME Based, NEW p \in Proc, Receive(p) \/ Step(p), InSession(p)',
         ~CreateWriteLock(p)
  PROVE  InSession(p) /\ req'[p] = req[p]
  <1> USE DEF InSession, Registering, Based, TypeOK, End, Goto
  <1>1. CASE Receive(p)
    BY <1>1 DEF Receive, Begin, Start
  <1>2. CASE Again(p) \/ Check(p) \/ Save(p) \/ Saved(p)
             \/ SaveRejected(p) \/ InsertRejected(p) \/ Keep(p) \/ Rollback(p)
             \/ Undo(p) \/ RollbackRejected(p) \/ Drop(p) \/ DropLock(p)
    BY <1>2 DEF Again, Check, Save, Saved, SaveRejected, InsertRejected, Keep, Rollback,
       Undo, RollbackRejected, Leave, Drop, DropLock
  <1>3. CASE Get(p)
    <2>1. req[p].op \in Operations \ {"register"}
      BY <1>3, AskedOf DEF Get
    <2>2. /\ AfterGet(req[p]) \notin Registering
          /\ AfterGet(req[p]) = "write" => req[p].op # "computeSize"
      BY <2>1 DEF AfterGet, Operations
    <2>3. \/ pc'[p] = AfterGet(req[p]) /\ req' = req
          \/ pc'[p] = "orphan"
          \/ pc'[p] = "idle"
      <3>1. \/ Goto(p, AfterGet(req[p])) /\ req' = req
            \/ Goto(p, "orphan")
            \/ Goto(p, "idle")
        BY <1>3 DEF Get
      <3>2. QED
        BY <3>1
    <2>4. QED
      BY <2>2, <2>3
  <1>4. CASE Close(p) \/ Denied(p) \/ Orphan(p) \/ Remove(p) \/ Purge(p)
             \/ RemoveRejected(p) \/ Unlock(p)
             \/ Acquire(p) \/ Busy(p) \/ Update(p) \/ UpdateRejected(p) \/ Clash(p)
             \/ Rename(p) \/ RenameDone(p) \/ RenameRejected(p)
    BY <1>4 DEF Close, Denied, Orphan, Remove, Purge, RemoveRejected, Unlock, Acquire, Busy,
       Update,
       UpdateRejected, Clash, Rename, RenameDone, RenameRejected
  <1>5. QED
    BY <1>1, <1>2, <1>3, <1>4 DEF Step

\* What it has then locked is its own.
LEMMA SessionLocks ==
  ASSUME Based, NEW p \in Proc, CreateWriteLock(p), InSession(p)'
  PROVE  lock'[req'[p].name] \subseteq {req'[p].wid} /\ mutex'[req'[p].name] = p
  <1>1. req[p].name \in Name /\ req[p].wid \in WriteId /\ pc[p] = "create"
    BY AskedOf DEF CreateWriteLock, WellFormed
  <1>2. ~End(p)
    BY DEF End, Goto, InSession, Registering, Based, TypeOK
  <1>3. req' = req /\ mutex'[req[p].name] = p
    BY <1>1, <1>2 DEF CreateWriteLock, Based, TypeOK
  <1>4. \/ lock'[req[p].name] = {req[p].wid}
        \/ lock' = lock /\ req[p].wid \in lock[req[p].name]
    BY <1>1, <1>2 DEF CreateWriteLock, Based, TypeOK
  <1>5. req[p].wid \in lock[req[p].name] => lock[req[p].name] = {req[p].wid}
    BY <1>1, DatasetAssumption DEF Based, LockShape
  <1>6. QED
    BY <1>3, <1>4, <1>5

LEMMA SessionsStep ==
  ASSUME Based, Sessions, [Next]_vars PROVE Sessions'
  <1>1. SUFFICES ASSUME NEW q \in Proc, InSession(q)', req'[q].name \notin overrun'
                 PROVE  lock'[req'[q].name] \subseteq {req'[q].wid}
                        /\ mutex'[req'[q].name] = q
    BY DEF Sessions
  <1>2. CASE UNCHANGED vars
    BY <1>1, <1>2 DEF Sessions, InSession, vars, redis
  <1>0. overrun \subseteq overrun'
    BY OverrunGrows
  <1>3. ASSUME Next, pc'[q] = pc[q], req'[q] = req[q]
        PROVE  lock'[req'[q].name] \subseteq {req'[q].wid} /\ mutex'[req'[q].name] = q
    <2>1. InSession(q)
      BY <1>1, <1>3 DEF InSession
    <2>2. lock[req[q].name] \subseteq {req[q].wid}
      BY <1>0, <1>1, <1>3, <2>1 DEF Sessions
    <2>3. QED
      BY <1>1, <1>3, <2>1, <2>2, SessionOfOthers
  <1>4. ASSUME NEW p \in Proc, Receive(p) \/ Step(p)
        PROVE  lock'[req'[q].name] \subseteq {req'[q].wid} /\ mutex'[req'[q].name] = q
    <2>1. Next
      BY <1>4 DEF Next
    <2>2. CASE p # q
      BY <1>3, <1>4, <2>1, <2>2, OthersStay
    <2>3. CASE p = q /\ CreateWriteLock(p)
      BY <1>1, <2>3, SessionLocks
    <2>4. CASE p = q /\ ~CreateWriteLock(p)
      <3>1. InSession(q) /\ req'[q] = req[q]
        BY <1>1, <1>4, <2>4, SessionEntry
      <3>2. lock[req[q].name] \subseteq {req[q].wid} /\ mutex[req[q].name] = q
        BY <1>0, <1>1, <3>1 DEF Sessions
      <3>3. UNCHANGED redis
        <4>1. pc'[q] \in Registering \cup {"write"}
          BY <1>1 DEF InSession
        <4>2. pc[q] \in Registering \cup {"write"}
          BY <3>1 DEF InSession
        <4>3. ~(End(q) \/ Leave(q)) /\ ~Goto(q, "dropLock")
          BY <4>1 DEF End, Goto, Leave, Registering, Based, TypeOK
        <4>4. CASE Keep(q) \/ RollbackRejected(q) \/ Drop(q) \/ DropLock(q) \/ Close(q)
                   \/ Unlock(q) \/ Acquire(q)
          BY <4>2, <4>3, <4>4 DEF Keep, RollbackRejected, Drop, DropLock, Close, Unlock,
             Acquire, Registering
        <4>5. CASE Receive(q) \/ Again(q) \/ Check(q) \/ Save(q) \/ Saved(q)
                   \/ SaveRejected(q) \/ InsertRejected(q) \/ Rollback(q) \/ Undo(q)
          BY <4>5 DEF Receive, Begin, Again, Check, Save, Saved, SaveRejected,
             InsertRejected, Rollback, Undo
        <4>6. CASE Get(q) \/ Denied(q) \/ Orphan(q) \/ Remove(q) \/ Purge(q)
                   \/ RemoveRejected(q) \/ Busy(q) \/ Update(q)
                   \/ UpdateRejected(q) \/ Clash(q) \/ Rename(q) \/ RenameDone(q)
                   \/ RenameRejected(q)
          BY <4>6 DEF Get, Denied, Orphan, Remove, Purge, RemoveRejected, Busy, Update,
             UpdateRejected, Clash,
             Rename, RenameDone, RenameRejected
        <4>7. QED
          BY <1>4, <2>4, <4>4, <4>5, <4>6 DEF Step
      <3>4. QED
        BY <3>1, <3>2, <3>3 DEF redis
    <2>5. QED
      BY <2>2, <2>3, <2>4
  <1>5. CASE \/ \E w \in inflight : Land(w)
             \/ \E s \in purging : Purged(s)
             \/ \E n \in Name : ExpireMutex(n) \/ ExpireLock(n)
    <2>1. Next /\ UNCHANGED <<pc, req>>
      BY <1>5 DEF Next, Land, Purged, ExpireMutex, ExpireLock
    <2>2. QED
      BY <1>3, <2>1
  <1>6. QED
    BY <1>2, <1>4, <1>5 DEF Next

\* While a registration runs nobody else gets the lock of its dataset, and its
\* mutex stays its own (handler.ts:138-141): with any handlers around it, under
\* every name whose mutex has not expired under its owner.
THEOREM SessionExclusion == Spec => []SessionExcludes
  <1>1. Init => Sessions
    BY DEF Init, Sessions, InSession, Registering
  <1>2. Based /\ Sessions /\ [Next]_vars => Sessions'
    BY SessionsStep
  <1>3. Sessions => SessionExcludes
    BY DEF Sessions, SessionExcludes, InSession
  <1>4. QED
    BY <1>1, <1>2, <1>3, BaseInvariance, PTL DEF Spec

-----------------------------------------------------------------------------
(* What a step does to the journal and to what requests know of it.        *)

\* a request only forgets what it knows
Forgets(q) ==
  /\ got'[q] \in {got[q], Nil} /\ store'[q] \in {store[q], Nil}
  /\ pc'[q] = "save" => pc[q] = "save" /\ store'[q] = store[q]
  /\ pc'[q] = "purge" => got'[q] = got[q]

\* nothing, or a deletion of objects lands or fails
Quiet ==
  /\ UNCHANGED <<journal, inflight, setting>>
  /\ purging' \subseteq purging /\ erased' \cup purging' \subseteq erased \cup purging
  /\ \A q \in Proc : Forgets(q) /\ (pc'[q] = "purge" => pc[q] = "purge")

\* nothing, and p reads an entity
Reads(p) ==
  /\ UNCHANGED <<persistent, req, store, setting>>
  /\ \E e \in Found(req[p].name) : got' = [got EXCEPT ![p] = e]
  /\ pc' = [pc EXCEPT ![p] = pc'[p]] /\ pc'[p] \notin {"save", "purge"}

\* nothing, and p chooses a location
Chooses(p) ==
  /\ UNCHANGED <<persistent, req, got, setting>>
  /\ pc[p] = "check" /\ Found(req[p].name) = {} /\ Goto(p, "save")
  /\ \E s \in Store : FreshStore(s) /\ store' = [store EXCEPT ![p] = s]

\* the entry under a key that p has read goes away, or is not there
Deletes(p) ==
  /\ UNCHANGED <<inflight, objects, setting>>
  /\ got[p] \in Entity /\ (pc[p] = "undo" \/ pc'[p] = "purge")
  /\ journal' = [journal EXCEPT ![got[p].key] = Nil]
  /\ \A q \in Proc :
       Forgets(q) /\ (pc'[q] = "purge" => pc[q] = "purge" \/ q = p)

\* the deletion of the objects that p has read of is sent
Purges(p) ==
  /\ UNCHANGED <<journal, inflight, erased, req, got, store, setting>>
  /\ pc[p] = "purge" /\ Goto(p, "unlock")
  /\ purging' = purging \cup {got[p].data.gcsurl}

\* a write lands, or is lost
Lands(w) ==
  /\ UNCHANGED <<objects, setting>>
  /\ w \in inflight /\ inflight' = inflight \ {w}
  /\ \/ UNCHANGED journal
     \/ journal' = [journal EXCEPT ![w.key] = IF w.kind = "save" THEN w.data ELSE Nil]
  /\ \A q \in Proc : Forgets(q) /\ (pc'[q] = "purge" => pc[q] = "purge")

\* Every step of a registration is one of these.
LEMMA RegisterEffect ==
  ASSUME Based, NEW p \in Proc,
         \/ CreateWriteLock(p) \/ Again(p) \/ Check(p) \/ Saved(p)
         \/ SaveRejected(p) \/ InsertRejected(p) \/ Keep(p) \/ Rollback(p)
         \/ Undo(p) \/ RollbackRejected(p) \/ Drop(p) \/ DropLock(p)
  PROVE  \/ Quiet \/ Chooses(p) \/ Reads(p)
         \/ Deletes(p) /\ pc[p] = "undo"
         \/ Lands(Registration(p)) /\ SaveRejected(p)
  <1> USE DEF Based, TypeOK, Forgets, persistent
  <1>1. CASE Check(p)
    <2>1. CASE Goto(p, "drop") /\ UNCHANGED store
      BY <1>1, <2>1 DEF Check, Goto, Quiet
    <2>2. CASE ~(Goto(p, "drop") /\ UNCHANGED store)
      BY <1>1, <2>2 DEF Check, Chooses
    <2>3. QED
      BY <2>1, <2>2
  <1>2. CASE SaveRejected(p)
    BY <1>2, RegistrationTyped DEF SaveRejected, Goto, Lands
  <1>3. CASE Rollback(p)
    <2>1. CASE Goto(p, "drop") /\ UNCHANGED got
      BY <1>3, <2>1 DEF Rollback, Goto, Quiet
    <2>2. CASE ~(Goto(p, "drop") /\ UNCHANGED got)
      BY <1>3, <2>2 DEF Rollback, Goto, Reads
    <2>3. QED
      BY <2>1, <2>2
  <1>4. CASE Undo(p)
    BY <1>4 DEF Undo, Goto, Deletes, Asked
  <1>5. CASE CreateWriteLock(p) \/ Again(p) \/ Saved(p) \/ InsertRejected(p) \/ Keep(p)
             \/ RollbackRejected(p) \/ Drop(p) \/ DropLock(p)
    BY <1>5 DEF CreateWriteLock, Again, Saved, InsertRejected, Keep, RollbackRejected,
       Leave, Drop, DropLock, End, Goto, Quiet
  <1>6. QED
    BY <1>1, <1>2, <1>3, <1>4, <1>5

\* So is every step of the other handlers that saves no record.
LEMMA OthersEffect ==
  ASSUME Based, NEW p \in Proc,
         \/ Receive(p) \/ Close(p) \/ Get(p) \/ Denied(p) \/ Orphan(p) \/ Remove(p)
         \/ Purge(p) \/ RemoveRejected(p)
         \/ Unlock(p) \/ Acquire(p) \/ Busy(p) \/ UpdateRejected(p) \/ Clash(p)
         \/ RenameDone(p)
  PROVE  Quiet \/ Reads(p) \/ Purges(p) \/ (Deletes(p) /\ pc'[p] = "purge")
  <1> USE DEF Based, TypeOK, Forgets, persistent
  <1>1. CASE Receive(p)
    BY <1>1 DEF Receive, Begin, Start, Goto, Quiet
  <1>2. CASE Get(p)
    <2>1. pc[p] = "get" /\ req[p].op \in Operations \ {"register"}
      BY <1>2, AskedOf DEF Get
    <2>2. ASSUME NEW e \in Found(req[p].name), got' = [got EXCEPT ![p] = e],
                 Goto(p, AfterGet(req[p])), UNCHANGED <<req, store>>
          PROVE  Reads(p)
      <3>1. AfterGet(req[p]) \notin {"save", "purge"}
        BY <2>1 DEF AfterGet, Operations
      <3>2. QED
        BY <1>2, <2>2, <3>1 DEF Get, Goto, Reads
    <2>3. CASE Goto(p, "orphan") /\ UNCHANGED <<req, got, store>>
      BY <1>2, <2>3 DEF Get, Goto, Quiet
    <2>4. CASE End(p)
      BY <1>2, <2>4 DEF Get, End, Goto, Quiet
    <2>5. QED
      BY <1>2, <2>2, <2>3, <2>4 DEF Get
  <1>3. CASE Remove(p)
    BY <1>3 DEF Remove, End, Goto, Quiet, Deletes, Asked
  <1>7. CASE Purge(p) \/ RemoveRejected(p)
    BY <1>7 DEF Purge, RemoveRejected, End, Goto, Quiet, Purges
  <1>4. CASE Close(p) \/ Denied(p) \/ Orphan(p) \/ Unlock(p)
    BY <1>4 DEF Close, Denied, Orphan, Unlock, End, Goto, Quiet
  <1>5. CASE Acquire(p) \/ Busy(p) \/ UpdateRejected(p) \/ Clash(p) \/ RenameDone(p)
    BY <1>5 DEF Acquire, Busy, UpdateRejected, Clash, RenameDone, End, Goto, Quiet
  <1>6. QED
    BY <1>1, <1>2, <1>3, <1>4, <1>5, <1>7

\* And the journal's and the clock's.
LEMMA EnvEffect ==
  ASSUME Based,
         \/ \E w \in inflight : Land(w)
         \/ \E s \in purging : Purged(s)
         \/ \E n \in Name : ExpireMutex(n) \/ ExpireLock(n)
  PROVE  Quiet \/ \E w \in inflight : Land(w) /\ Lands(w)
  BY DEF Land, Purged, ExpireMutex, ExpireLock, Quiet, Lands, Forgets, persistent, Based,
     TypeOK

\* The steps of a request, sorted.
LEMMA Effects ==
  ASSUME Based, Next
  PROVE  \/ Quiet
         \/ \E p \in Proc : \/ Chooses(p) \/ Save(p)
                            \/ Reads(p) \/ Deletes(p) \/ Purges(p)
                            \/ Update(p) \/ Rename(p) \/ RenameRejected(p)
                            \/ SaveRejected(p) /\ Lands(Registration(p))
         \/ \E w \in inflight : Land(w) /\ Lands(w)
  BY RegisterEffect, OthersEffect, EnvEffect DEF Next, Step

\* Without a rename or a change nothing else saves a record.
LEMMA NoRewritingSteps ==
  ASSUME Based, NoRewriting, NEW p \in Proc
  PROVE  ~Update(p) /\ ~Rename(p) /\ ~RenameRejected(p)
  BY AskedOf DEF Update, Rename, RenameRejected, NoRewriting, Rewriting

LEMMA KeyedStep == ASSUME Based, Keyed, [Next]_vars PROVE Keyed'
  <1>1. CASE UNCHANGED vars
    BY <1>1 DEF Keyed, vars, persistent, Key, KeyOf
  <1> SUFFICES ASSUME Next PROVE Keyed'
    BY <1>1
  <1>2. setting' = setting /\ (Key' = Key) /\ \A n, s : (KeyOf(n, s))' = KeyOf(n, s)
    BY SettingStays DEF Key, KeyOf
  <1> USE DEF Keyed
  <1>3. CASE Quiet
    BY <1>2, <1>3 DEF Quiet, Forgets, KeyOf
  <1>4. ASSUME NEW p \in Proc, Chooses(p) PROVE Keyed'
    BY <1>2, <1>4 DEF Chooses, persistent, KeyOf
  <1>5. ASSUME NEW p \in Proc, Save(p) PROVE Keyed'
    BY <1>2, <1>5, RegistrationTyped DEF Save, KeyOf
  <1>6. ASSUME NEW p \in Proc, Reads(p) PROVE Keyed'
    <2>1. PICK e \in Found(req[p].name) : got' = [got EXCEPT ![p] = e]
      BY <1>6 DEF Reads
    <2>2. e.key = KeyOf(e.data.name, e.data.gcsurl)
      <3>1. e.key \in Key /\ journal[e.key] # Nil /\ e.data = journal[e.key]
        BY DEF Found
      <3>2. QED
        BY <3>1
    <2>3. QED
      BY <1>2, <1>6, <2>1, <2>2 DEF Reads, persistent, KeyOf, Based, TypeOK
  <1>7. ASSUME NEW p \in Proc, Deletes(p) PROVE Keyed'
    BY <1>2, <1>7 DEF Deletes, Forgets, KeyOf, Based, TypeOK
  <1>8. ASSUME NEW p \in Proc, Update(p) PROVE Keyed'
    <2>1. got[p] \in Entity /\ got[p] # Nil
      BY <1>8, NilAssumption DEF Update, Based, Asked, Entity, Key
    <2>2. got[p].key = KeyOf(Changed(p).name, Changed(p).gcsurl)
      BY <1>8, <2>1, ChangedTyped DEF Update
    <2>3. \A k \in Key : journal'[k] = IF k = got[p].key THEN Changed(p) ELSE journal[k]
      BY <1>8 DEF Update, Based, TypeOK
    <2>4. inflight' = inflight /\ \A q \in Proc : got'[q] \in {got[q], Nil}
      BY <1>8 DEF Update, End, Based, TypeOK
    <2>5. QED
      BY <1>2, <2>2, <2>3, <2>4 DEF KeyOf
  <1>9. ASSUME NEW p \in Proc, Rename(p) PROVE Keyed'
    <2>1. /\ got[p] \in Entity /\ got[p] # Nil /\ "rename" \in setting.ops
          /\ pc[p] = "rename"
      BY <1>9, NilAssumption, AskedOf DEF Rename, Based, Asked, Entity, Key
    <2>2. got[p].key = KeyOf(got[p].data.name, got[p].data.gcsurl)
      BY <2>1
    <2>3. /\ Deletion(p).key = KeyOf(Deletion(p).data.name, Deletion(p).data.gcsurl)
          /\ Renamed(p).key = KeyOf(Renamed(p).data.name, Renamed(p).data.gcsurl)
          /\ Renamed(p).kind = "save"
      <3> HIDE DEF Keyed
      <3>1. /\ Deletion(p).key = got[p].key /\ Deletion(p).data = got[p].data
            /\ Renamed(p).kind = "save"
            /\ Renamed(p).key = (IF setting.enforceKey THEN req[p].to ELSE got[p].key)
            /\ Renamed(p).data.name = req[p].to
            /\ Renamed(p).data.gcsurl = got[p].data.gcsurl
        BY <2>1, RenamedTyped
      <3>2. QED
        BY <2>2, <3>1 DEF KeyOf
    <2>4. /\ inflight' = inflight \cup {Deletion(p), Renamed(p)}
          /\ journal' = journal /\ got' = got
      BY <1>9 DEF Rename
    <2>5. QED
      BY <1>2, <2>1, <2>3, <2>4 DEF KeyOf
  <1>10. ASSUME NEW p \in Proc, RenameRejected(p) PROVE Keyed'
    <2>1. /\ inflight' \subseteq inflight /\ journal' = journal
          /\ \A q \in Proc : got'[q] \in {got[q], Nil}
      BY <1>10 DEF RenameRejected, End, Based, TypeOK
    <2>2. QED
      BY <1>2, <2>1 DEF KeyOf
  <1>11. ASSUME NEW w \in inflight, Lands(w) PROVE Keyed'
    <2>1. w.key = KeyOf(w.data.name, w.data.gcsurl) /\ w.key \in Key
      BY DEF Based, TypeOK, Write
    <2>2. \A k \in Key : journal'[k] \in {journal[k], Nil}
      \/ (k = w.key /\ journal'[k] = w.data)
      BY <1>11, <2>1 DEF Lands, Based, TypeOK
    <2>3. inflight' \subseteq inflight /\ \A q \in Proc : got'[q] \in {got[q], Nil}
      BY <1>11 DEF Lands, Forgets
    <2>4. QED
      BY <1>2, <2>1, <2>2, <2>3 DEF KeyOf
  <1>13. ASSUME NEW p \in Proc, Purges(p) PROVE Keyed'
    BY <1>2, <1>13 DEF Purges, KeyOf
  <1>12. QED
    BY <1>3, <1>4, <1>5, <1>6, <1>7, <1>8, <1>9, <1>10, <1>11, <1>13,
       Effects DEF Lands

-----------------------------------------------------------------------------
(* Where the objects of a dataset are known, when no request saves a record *)
(* it has read.                                                             *)

LEMMA QuietLocated == ASSUME Based, Located, Quiet PROVE Located'
  <1>1. /\ (Journalled' = Journalled) /\ (Landing' = Landing) /\ (Key' = Key)
        /\ inflight' = inflight /\ journal' = journal
        /\ purging' \subseteq purging /\ (Deleted' \subseteq Deleted)
    BY DEF Quiet, Journalled, Landing, Key, Deleted
  <1>2. \A q \in Proc : Forgets(q) /\ (pc'[q] = "purge" => pc[q] = "purge")
    BY DEF Quiet
  <1> HIDE DEF Journalled, Landing, Key, Deleted
  <1>3. QED
    BY <1>1, <1>2 DEF Located, Forgets

\* Objects whose record is gone may be deleted.
LEMMA PurgesLocated ==
  ASSUME Based, Located, NEW p \in Proc, Purges(p) PROVE Located'
  <1>1. /\ (Journalled' = Journalled) /\ (Landing' = Landing) /\ (Key' = Key)
        /\ inflight' = inflight /\ journal' = journal /\ got' = got /\ store' = store
        /\ purging' = purging \cup {got[p].data.gcsurl}
        /\ (Deleted' = Deleted \cup {got[p].data.gcsurl})
        /\ \A q \in Proc : pc'[q] = IF q = p THEN "unlock" ELSE pc[q]
    BY DEF Purges, Goto, Journalled, Landing, Key, Deleted, Based, TypeOK
  <1>2. got[p] \in Entity /\ got[p] # Nil /\ pc[p] = "purge"
    BY NilAssumption DEF Purges, Based, Asked, Entity, Key
  <1>3. got[p].data.gcsurl \notin Journalled \cup Landing
    BY <1>2 DEF Located
  <1> HIDE DEF Journalled, Landing, Key, Deleted
  <1>4. /\ Journalled' \cap (Deleted' \cup Landing') = {}
        /\ Landing' \cap Deleted' = {}
    BY <1>1, <1>3 DEF Located
  <1>5. \A q \in Proc : pc'[q] = "save" =>
          /\ store'[q] \notin Journalled' \cup Landing' \cup purging'
          /\ \A o \in Proc : got'[o] # Nil => got'[o].data.gcsurl # store'[q]
    BY <1>1, <1>2 DEF Located
  <1>6. QED
    BY <1>1, <1>4, <1>5 DEF Located

\* A read entity is known by its place in the journal.
LEMMA ReadsLocated ==
  ASSUME Based, Located, NEW p \in Proc, Reads(p) PROVE Located'
  <1>1. /\ (Journalled' = Journalled) /\ (Landing' = Landing) /\ (Key' = Key)
        /\ inflight' = inflight /\ purging' = purging /\ (Deleted' = Deleted)
        /\ journal' = journal /\ store' = store
    BY DEF Reads, persistent, Journalled, Landing, Key, Deleted
  <1>2. PICK e \in Found(req[p].name) : got' = [got EXCEPT ![p] = e]
    BY DEF Reads
  <1>3. /\ e.key \in Key /\ journal[e.key] # Nil /\ e.data = journal[e.key]
    BY DEF Found
  <1>4. e.data.gcsurl \in Journalled
    BY <1>3 DEF Journalled
  <1>5. /\ e.data.gcsurl \notin Landing
        /\ \A k \in Key : journal[k] # Nil /\ journal[k].gcsurl = e.data.gcsurl => k = e.key
        /\ \A q \in Proc : pc[q] = "save" => e.data.gcsurl # store[q]
    BY <1>3, <1>4 DEF Located
  <1>6. \A q \in Proc : got'[q] = IF q = p THEN e ELSE got[q]
    BY <1>2 DEF Based, TypeOK
  <1>7. \A q \in Proc : /\ pc'[q] = "save" => pc[q] = "save"
                        /\ pc'[q] = "purge" => pc[q] = "purge" /\ q # p
    BY DEF Reads, Based, TypeOK
  <1> HIDE DEF Journalled, Landing, Key, Deleted
  <1>8. \A q \in Proc : pc'[q] = "purge" => got'[q].data.gcsurl \notin Journalled'
    BY <1>1, <1>6, <1>7 DEF Located
  <1>9. \A q \in Proc : got'[q] # Nil =>
          /\ got'[q].data.gcsurl \notin Landing'
          /\ \A k \in Key : journal[k] # Nil /\ journal[k].gcsurl = got'[q].data.gcsurl
               => k = got'[q].key
    BY <1>1, <1>5, <1>6 DEF Located
  <1>10. \A q \in Proc : pc'[q] = "save" =>
          /\ store[q] \notin Journalled \cup Landing \cup purging
          /\ \A o \in Proc : got'[o] # Nil => got'[o].data.gcsurl # store[q]
    <2>1. SUFFICES ASSUME NEW q \in Proc, pc'[q] = "save"
                   PROVE  /\ store[q] \notin Journalled \cup Landing \cup purging
                          /\ \A o \in Proc : got'[o] # Nil
                               => got'[o].data.gcsurl # store[q]
      OBVIOUS
    <2>0. pc[q] = "save"
      BY <1>7, <2>1
    <2>2. pc[q] = "save" /\ e.data.gcsurl # store[q]
      BY <1>5, <2>0
    <2>3. /\ store[q] \notin Journalled \cup Landing \cup purging
          /\ \A o \in Proc : got[o] # Nil => got[o].data.gcsurl # store[q]
      BY <2>2 DEF Located
    <2>4. QED
      BY <1>6, <2>2, <2>3
  <1>11. QED
    BY <1>1, <1>8, <1>9, <1>10 DEF Located

\* A new location is known to nobody.
LEMMA ChoosesLocated ==
  ASSUME Based, Located, NEW p \in Proc, Chooses(p) PROVE Located'
  <1>1. /\ (Journalled' = Journalled) /\ (Landing' = Landing) /\ (Key' = Key)
        /\ inflight' = inflight /\ purging' = purging /\ (Deleted' = Deleted)
        /\ journal' = journal /\ got' = got
    BY DEF Chooses, persistent, Journalled, Landing, Key, Deleted
  <1>2. PICK s \in Store : FreshStore(s) /\ store' = [store EXCEPT ![p] = s]
    BY DEF Chooses
  <1>3. /\ s \notin Journalled \cup Landing \cup purging
        /\ \A q \in Proc : s # store[q] /\ (got[q] # Nil => s # got[q].data.gcsurl)
    BY <1>2 DEF FreshStore
  <1>4. /\ \A q \in Proc : store'[q] = IF q = p THEN s ELSE store[q]
        /\ \A q \in Proc : pc'[q] = IF q = p THEN "save" ELSE pc[q]
    BY <1>2 DEF Chooses, Goto, Based, TypeOK
  <1> HIDE DEF Journalled, Landing, Key, Deleted
  <1>5. QED
    BY <1>1, <1>3, <1>4 DEF Located

\* A registration that sends its write is the only one to name its location.
LEMMA SaveLocated ==
  ASSUME Based, Located, NEW p \in Proc, Save(p) PROVE Located'
  <1>1. /\ (Journalled' = Journalled) /\ (Key' = Key) /\ journal' = journal
        /\ got' = got /\ store' = store /\ inflight' = inflight \cup {Registration(p)}
        /\ erased' = erased \ {store[p]} /\ purging' = purging /\ pc[p] = "save"
        /\ \A q \in Proc : pc'[q] = IF q = p THEN "saving" ELSE pc[q]
    BY DEF Save, Goto, Journalled, Key, Based, TypeOK
  <1>2. Registration(p).data.gcsurl = store[p] /\ store[p] # Nil
    BY <1>1, RegistrationTyped, DatasetAssumption
  <1>3. (Landing' = Landing \cup {store[p]})
    BY <1>1, <1>2 DEF Landing
  <1>4. /\ store[p] \notin Journalled \cup Landing \cup purging
        /\ \A q \in Proc : got[q] # Nil => got[q].data.gcsurl # store[p]
        /\ \A q \in Proc : q # p => store[q] # store[p]
    BY <1>1, <1>2 DEF Located
  <1>5. \A w \in inflight : w.data.gcsurl # store[p]
    BY <1>4 DEF Landing
  <1> HIDE DEF Journalled, Landing, Key
  <1>6. /\ Journalled \cap Deleted = {} /\ Journalled \cap Landing = {}
        /\ Landing \cap Deleted = {}
    BY DEF Located
  <1>7. /\ (Journalled' \cap (Deleted' \cup Landing') = {})
        /\ (Landing' \cap Deleted' = {})
    BY <1>1, <1>3, <1>4, <1>6 DEF Deleted
  <1>8. \A v, w \in inflight' : v.data.gcsurl = w.data.gcsurl => v = w
    BY <1>1, <1>2, <1>5 DEF Located
  <1>9. \A q \in Proc : pc'[q] = "save" =>
          /\ store[q] \notin Journalled \cup Landing' \cup purging
          /\ \A r \in Proc : got[r] # Nil => got[r].data.gcsurl # store[q]
    BY <1>1, <1>3, <1>4 DEF Located
  <1>10. QED
    BY <1>1, <1>3, <1>4, <1>7, <1>8, <1>9 DEF Located

\* A deletion takes away all that knows the location it erases.
LEMMA DeletesLocated ==
  ASSUME Based, Located, NEW p \in Proc, Deletes(p) PROVE Located'
  <1>1. /\ (Landing' = Landing) /\ (Key' = Key) /\ inflight' = inflight
        /\ purging' = purging /\ (Deleted' = Deleted)
        /\ got[p].key \in Key /\ got[p] # Nil
    BY NilAssumption DEF Deletes, Landing, Key, Entity, Deleted
  <1>2. \A k \in Key : journal'[k] = IF k = got[p].key THEN Nil ELSE journal[k]
    BY DEF Deletes, Based, TypeOK
  <1>3. (Journalled' \subseteq Journalled)
    BY <1>1, <1>2 DEF Journalled
  <1>4. (got[p].data.gcsurl \notin Journalled') /\ got[p].data.gcsurl \notin Landing
    BY <1>1, <1>2 DEF Located, Journalled
  <1>5. \A q \in Proc :
       /\ got'[q] \in {got[q], Nil} /\ store'[q] \in {store[q], Nil}
       /\ pc'[q] = "save" => pc[q] = "save" /\ store'[q] = store[q]
       /\ pc'[q] = "purge" => got'[q] = got[q] /\ (pc[q] = "purge" \/ q = p)
    BY DEF Deletes, Forgets
  <1> HIDE DEF Journalled, Landing, Key, Deleted
  <1>6. /\ (Journalled' \cap (Deleted' \cup Landing') = {})
        /\ (Landing' \cap Deleted' = {})
    BY <1>1, <1>3 DEF Located
  <1>7. \A q \in Proc : pc'[q] = "purge" => got'[q].data.gcsurl \notin Journalled'
    BY <1>3, <1>4, <1>5 DEF Located
  <1>8. QED
    BY <1>1, <1>2, <1>3, <1>5, <1>6, <1>7 DEF Located

\* A write that lands is then the record that knows its location.
LEMMA LandsLocated ==
  ASSUME Based, Located, NEW w \in inflight, Lands(w) PROVE Located'
  <1>1. /\ (Key' = Key) /\ inflight' = inflight \ {w} /\ w.key \in Key
        /\ (Landing' \subseteq Landing) /\ purging' = purging /\ (Deleted' = Deleted)
    BY DEF Lands, Landing, Key, Based, TypeOK, Write, Deleted
  <1>2. \A v \in inflight' : v.data.gcsurl # w.data.gcsurl
    BY <1>1 DEF Located
  <1>3. \A k \in Key : \/ journal'[k] \in {journal[k], Nil}
                       \/ k = w.key /\ journal'[k] = w.data
    BY DEF Lands, Based, TypeOK
  <1>4. (w.data.gcsurl \notin Landing') /\ w.data.gcsurl \in Landing
    BY <1>2 DEF Landing
  <1>5. (Journalled' \subseteq Journalled \cup {w.data.gcsurl})
    BY <1>1, <1>3 DEF Journalled
  <1>6. \A k \in Key : journal[k] # Nil => journal[k].gcsurl # w.data.gcsurl
    BY <1>4 DEF Located, Journalled
  <1>7. \A q \in Proc :
       /\ got'[q] \in {got[q], Nil} /\ store'[q] \in {store[q], Nil}
       /\ pc'[q] = "save" => pc[q] = "save" /\ store'[q] = store[q]
       /\ pc'[q] = "purge" => pc[q] = "purge" /\ got'[q] = got[q] /\ got[q] # Nil
    BY NilAssumption DEF Lands, Forgets, Based, Asked, Entity, Key
  <1> HIDE DEF Journalled, Landing, Key, Deleted
  <1>8. \A q \in Proc : got[q] # Nil => got[q].data.gcsurl # w.data.gcsurl
    BY <1>4 DEF Located
  <1>9. /\ (Journalled' \cap (Deleted' \cup Landing') = {})
        /\ (Landing' \cap Deleted' = {})
    BY <1>1, <1>4, <1>5 DEF Located
  <1>10. \A k, l \in Key : journal'[k] # Nil /\ journal'[l] # Nil
                         /\ journal'[k].gcsurl = journal'[l].gcsurl => k = l
    BY <1>3, <1>6 DEF Located
  <1>11. \A q \in Proc : got'[q] # Nil =>
       /\ got'[q].data.gcsurl \notin Landing'
       /\ \A k \in Key : journal'[k] # Nil /\ journal'[k].gcsurl = got'[q].data.gcsurl
            => k = got'[q].key
    BY <1>1, <1>3, <1>7, <1>8 DEF Located
  <1>12. \A q \in Proc : pc'[q] = "save" =>
       /\ store'[q] \notin Journalled' \cup Landing' \cup purging'
       /\ \A r \in Proc : got'[r] # Nil => got'[r].data.gcsurl # store'[q]
    BY <1>1, <1>4, <1>5, <1>7 DEF Located
  <1>13. \A q, r \in Proc : store'[q] # Nil /\ store'[q] = store'[r] => q = r
    BY <1>7 DEF Located
  <1>14. \A u, v \in inflight' : u.data.gcsurl = v.data.gcsurl => u = v
    BY <1>1 DEF Located
  <1>15. \A q \in Proc : pc'[q] = "purge" => got'[q].data.gcsurl \notin Journalled'
    BY <1>5, <1>7, <1>8 DEF Located
  <1>16. QED
    BY <1>1, <1>9, <1>10, <1>11, <1>12, <1>13, <1>14, <1>15 DEF Located

LEMMA LocatedStep == ASSUME Based, NoRewriting, Located, [Next]_vars PROVE Located'
  <1>1. CASE UNCHANGED vars
    BY <1>1, QuietLocated DEF vars, persistent, Quiet, Forgets
  <1>2. CASE Next
    BY <1>2, Effects, NoRewritingSteps, QuietLocated, ReadsLocated, ChoosesLocated,
       SaveLocated, DeletesLocated, PurgesLocated, LandsLocated DEF Lands
  <1>3. QED
    BY <1>1, <1>2

LEMMA SettingKept ==
  ASSUME [Next]_vars
  PROVE  setting' = setting /\ (NoRewriting' <=> NoRewriting) /\ (InTurn' <=> InTurn)
         /\ (Alone' <=> Alone)
  BY SettingStays DEF vars, NoRewriting, InTurn, Alone

\* No dataset is listed whose objects were deleted, or are being deleted
\* (handler.ts:459-464): while registrations, deletions and locks run at once,
\* fail, and outlive their mutex, and no request saves back a record it has read.
THEOREM ObjectsKept == Spec /\ NoRewriting => []DatasetKeepsObjects
  <1>1. Init => Located
    BY DatasetAssumption DEF Init, Located, Journalled, Landing, Deleted
  <1>2. Based /\ NoRewriting /\ Located /\ [Next]_vars => NoRewriting' /\ Located'
    BY LocatedStep, SettingKept
  <1>3. Based /\ Located => DatasetKeepsObjects
    BY DEF Based, Located, Deleted, DatasetKeepsObjects
  <1>4. QED
    BY <1>1, <1>2, <1>3, BaseInvariance, PTL DEF Spec

-----------------------------------------------------------------------------
(* Registrations in their sessions, when nothing they leave lands later.   *)

\* How a request comes to where something is asked of it.
LEMMA Phases ==
  ASSUME Based, NEW p \in Proc, Receive(p) \/ Step(p)
  PROVE  /\ pc'[p] = "save" => Chooses(p)
         /\ pc'[p] = "saving" => Save(p)
         /\ pc'[p] = "rollback" => SaveRejected(p) \/ InsertRejected(p)
         /\ pc'[p] = "undo" => Rollback(p)
         /\ pc'[p] \in {"drop", "dropLock"} =>
              store'[p] = Nil \/ Rollback(p) \/ Undo(p) \/ Drop(p)
         /\ pc[p] = "saving" => Saved(p) \/ SaveRejected(p) \/ InsertRejected(p)
  <1> USE DEF Based, TypeOK, End, Goto
  <1>1. CASE Receive(p)
    BY <1>1 DEF Receive, Begin, Start
  <1>2. CASE Check(p)
    BY <1>2 DEF Check, Chooses, Goto, Asked
  <1>9. CASE Again(p)
    BY <1>9 DEF Again, Asked
  <1>3. CASE CreateWriteLock(p) \/ Save(p) \/ Saved(p)
             \/ SaveRejected(p) \/ InsertRejected(p) \/ Keep(p)
    BY <1>3 DEF CreateWriteLock, Save, Saved, SaveRejected, InsertRejected, Keep
  <1>4. CASE Rollback(p) \/ Undo(p) \/ RollbackRejected(p) \/ Drop(p) \/ DropLock(p)
    BY <1>4 DEF Rollback, Undo, RollbackRejected, Leave, Drop, DropLock
  <1>5. CASE Get(p)
    <2>1. req[p].op \in Operations \ {"register"}
      BY <1>5, AskedOf DEF Get
    <2>2. AfterGet(req[p]) \in {"remove", "unlock", "acquire", "create", "clash", "write"}
      BY <2>1 DEF AfterGet, Operations
    <2>3. \/ pc'[p] = AfterGet(req[p])
          \/ pc'[p] = "orphan"
          \/ pc'[p] = "idle"
      <3>1. \/ Goto(p, AfterGet(req[p]))
            \/ Goto(p, "orphan")
            \/ Goto(p, "idle")
        BY <1>5 DEF Get
      <3>2. QED
        BY <3>1
    <2>4. pc[p] = "get"
      BY <1>5 DEF Get
    <2>5. QED
      BY <2>2, <2>3, <2>4
  <1>6. CASE Close(p) \/ Denied(p) \/ Orphan(p) \/ Remove(p) \/ Purge(p)
             \/ RemoveRejected(p) \/ Unlock(p)
             \/ Acquire(p) \/ Busy(p)
    BY <1>6 DEF Close, Denied, Orphan, Remove, Purge, RemoveRejected, Unlock, Acquire, Busy
  <1>7. CASE Update(p) \/ UpdateRejected(p) \/ Clash(p)
             \/ Rename(p) \/ RenameDone(p) \/ RenameRejected(p)
    BY <1>7 DEF Update, UpdateRejected, Clash, Rename, RenameDone, RenameRejected, Asked
  <1>8. QED
    BY <1>1, <1>2, <1>3, <1>4, <1>5, <1>6, <1>7, <1>9 DEF Step

\* Where a new record of the journal, and a new write, come from.
LEMMA Arrivals ==
  ASSUME Based, NoRewriting, Orderly, Next
  PROVE  /\ \A k \in Key : journal'[k] # Nil /\ journal'[k] # journal[k] =>
              \E r \in Proc : /\ pc[r] = "saving" /\ Registration(r) \in inflight
                              /\ Registration(r) \notin inflight'
                              /\ k = Registration(r).key /\ journal'[k] = Registration(r).data
         /\ \A w \in inflight' : w \in inflight
           \/ \E p \in Proc : Save(p) /\ w = Registration(p)
  <1>1. CASE Quiet
    BY <1>1 DEF Quiet
  <1>2. ASSUME NEW p \in Proc, Chooses(p) \/ Reads(p) \/ Save(p) \/ Purges(p)
        PROVE  /\ journal' = journal
               /\ \/ inflight' = inflight
                  \/ Save(p) /\ inflight' = inflight \cup {Registration(p)}
    BY <1>2 DEF Chooses, Reads, Save, Purges, persistent
  <1>3. ASSUME NEW p \in Proc, Deletes(p)
        PROVE  inflight' = inflight /\ \A k \in Key : journal'[k] \in {Nil, journal[k]}
    BY <1>3 DEF Deletes, Based, TypeOK
  <1>4. ASSUME NEW w \in inflight, Lands(w)
        PROVE  /\ w.by \in Proc /\ pc[w.by] = "saving" /\ w = Registration(w.by)
               /\ inflight' = inflight \ {w}
               /\ \A k \in Key : \/ journal'[k] \in {Nil, journal[k]}
                                 \/ k = w.key /\ journal'[k] = w.data
    BY <1>4 DEF Lands, Orderly, Based, TypeOK, Write
  <1>5. QED
    BY <1>1, <1>2, <1>3, <1>4, Effects, NoRewritingSteps DEF Lands

Registered == Based /\ Sessions /\ Located /\ Keyed /\ OneName /\ Orderly

\* What Registration writes depends on its own request only.
LEMMA RegistrationStays ==
  ASSUME NEW p, req'[p] = req[p], store'[p] = store[p], setting' = setting
  PROVE  (Registration(p))' = Registration(p)
  BY DEF Registration, KeyOf

\* Finding a name is finding a record of that name.
LEMMA FoundByName ==
  ASSUME Keyed, NEW n
  PROVE  Found(n) = {} <=> \A k \in Key : journal[k] # Nil => journal[k].name # n
  <1> DEFINE K == {k \in Key : journal[k] # Nil
                     /\ IF setting.enforceKey THEN k = n ELSE journal[k].name = n}
  <1>1. Found(n) = {[key |-> k, data |-> journal[k]] : k \in K}
    BY DEF Found
  <1>2. Found(n) = {} <=> K = {}
    <2> HIDE DEF K
    <2>1. QED
      BY <1>1
  <1>3. K = {k \in Key : journal[k] # Nil /\ journal[k].name = n}
    BY DEF Keyed, KeyOf
  <1> HIDE DEF K
  <1>4. QED
    BY <1>2, <1>3

\* A write that is on its way has a name that is free, under a free key.
LEMMA FreeUntilLanded ==
  ASSUME Registered, NEW p \in Proc, pc[p] = "saving", Registration(p) \in inflight,
         req[p].name \notin overrun
  PROVE  /\ \A k \in Key : journal[k] # Nil => journal[k].name # req[p].name
         /\ journal[Registration(p).key] = Nil
         /\ store[p] \in Landing \ Journalled
  <1>1. \A k \in Key : journal[k] # Nil => journal[k].name # req[p].name
    BY DEF Registered, Orderly
  <1>2. Registration(p).key = KeyOf(req[p].name, store[p]) /\ Registration(p).key \in Key
        /\ Registration(p).data.gcsurl = store[p]
    BY RegistrationTyped DEF Registered, Write
  <1>3. store[p] \in Landing
    BY <1>2 DEF Landing
  <1>4. store[p] \notin Journalled
    BY <1>3 DEF Registered, Located
  <1>5. ASSUME journal[Registration(p).key] # Nil PROVE FALSE
    <2> DEFINE k == Registration(p).key
    <2>1. k = KeyOf(journal[k].name, journal[k].gcsurl)
      BY <1>2, <1>5 DEF Registered, Keyed
    <2>2. CASE setting.enforceKey
      BY <1>1, <1>2, <1>5, <2>1, <2>2 DEF KeyOf
    <2>3. CASE ~setting.enforceKey
      BY <1>2, <1>4, <1>5, <2>1, <2>3 DEF KeyOf, Journalled
    <2>4. QED
      BY <2>2, <2>3
  <1>6. QED
    BY <1>1, <1>3, <1>4, <1>5

\* Two registrations of a name are not both between their check and their
\* reply, and no two have one location.
LEMMA Apart ==
  ASSUME Registered, NEW p \in Proc, NEW q \in Proc, p # q,
         pc[p] \in {"save", "saving"}
  PROVE  /\ pc[q] \in Registering /\ req[q].name \notin overrun => req[p].name # req[q].name
         /\ store[p] # store[q] /\ store[p] # Nil
  <1>1. req[p].name \notin overrun => mutex[req[p].name] = p
    BY DEF Registered, Sessions, InSession, Registering
  <1>2. pc[q] \in Registering /\ req[q].name \notin overrun => mutex[req[q].name] = q
    BY DEF Registered, Sessions, InSession
  <1>3. store[p] # Nil
    BY RegistrationTyped, DatasetAssumption DEF Registered
  <1>4. QED
    BY <1>1, <1>2, <1>3 DEF Registered, Located

\* Where a request stays where it is, a new record or write is another one's.
LEMMA NewIsOthers ==
  ASSUME Registered, NoRewriting, Next, NEW q \in Proc,
         pc'[q] = pc[q], store'[q] = store[q], req'[q] = req[q]
  PROVE  /\ \A k \in Key : journal'[k] # Nil /\ journal'[k] # journal[k] =>
              \/ /\ pc[q] = "saving" /\ Registration(q) \in inflight
                 /\ Registration(q) \notin inflight'
              \/ /\ journal'[k].gcsurl # store[q]
                 /\ pc[q] \in Registering /\ req[q].name \notin overrun
                      => journal'[k].name # req[q].name
         /\ \A w \in inflight' : w \in inflight \/ w.data.gcsurl # store[q]
  <1>1. ASSUME NEW k \in Key, journal'[k] # Nil, journal'[k] # journal[k]
        PROVE  \/ /\ pc[q] = "saving" /\ Registration(q) \in inflight
                  /\ Registration(q) \notin inflight'
               \/ /\ journal'[k].gcsurl # store[q]
                  /\ pc[q] \in Registering /\ req[q].name \notin overrun
                       => journal'[k].name # req[q].name
    <2>1. PICK r \in Proc : /\ pc[r] = "saving" /\ Registration(r) \in inflight
                            /\ Registration(r) \notin inflight'
                            /\ journal'[k] = Registration(r).data
      BY <1>1, Arrivals DEF Registered
    <2>2. CASE r = q
      BY <2>1, <2>2
    <2>3. CASE r # q
      BY <2>1, <2>3, Apart, RegistrationTyped DEF Registered
    <2>4. QED
      BY <2>2, <2>3
  <1>2. ASSUME NEW w \in inflight', w \notin inflight PROVE w.data.gcsurl # store[q]
    <2>1. PICK r \in Proc : Save(r) /\ w = Registration(r)
      BY <1>2, Arrivals DEF Registered
    <2>2. pc[r] = "save" /\ pc'[r] = "saving"
      BY <2>1 DEF Save, Goto, Registered, Based, TypeOK
    <2>3. r # q
      BY <2>2
    <2>4. QED
      BY <2>1, <2>2, <2>3, Apart, RegistrationTyped DEF Registered
  <1>3. QED
    BY <1>1, <1>2

LEMMA OneNameStep == ASSUME Registered, NoRewriting, Next PROVE OneName'
  <1>1. (Key' = Key)
    BY SettingStays DEF Key
  <1>2. ASSUME NEW k \in Key, NEW l \in Key, journal'[k] # Nil, journal'[l] # Nil,
               journal'[k].name = journal'[l].name, journal'[k] # journal[k], k # l,
               journal'[k].name \notin overrun
        PROVE  FALSE
    <2>1. PICK r \in Proc : /\ pc[r] = "saving" /\ Registration(r) \in inflight
                            /\ Registration(r) \notin inflight'
                            /\ k = Registration(r).key
                            /\ journal'[k] = Registration(r).data
      BY <1>2, Arrivals DEF Registered
    <2>2. journal'[k].name = req[r].name
      BY <2>1, RegistrationTyped DEF Registered
    <2>3. journal'[l] # journal[l]
      BY <1>2, <2>1, <2>2, FreeUntilLanded
    <2>4. PICK q \in Proc : /\ pc[q] = "saving" /\ Registration(q) \in inflight
                            /\ Registration(q) \notin inflight'
                            /\ l = Registration(q).key
                            /\ journal'[l] = Registration(q).data
      BY <1>2, <2>3, Arrivals DEF Registered
    <2>5. journal'[l].name = req[q].name
      BY <2>4, RegistrationTyped DEF Registered
    <2>6. q = r
      BY <1>2, <2>1, <2>2, <2>4, <2>5, Apart DEF Registering
    <2>7. QED
      BY <1>2, <2>1, <2>4, <2>6
  <1>3. \A k, l \in Key : journal'[k] # Nil /\ journal'[l] # Nil
                            /\ journal'[k].name = journal'[l].name
                            /\ journal'[k].name \notin overrun' => k = l
    BY <1>2, OverrunGrows DEF Registered, OneName
  <1>4. QED
    BY <1>1, <1>3 DEF OneName

\* Each write belongs to the registration that waits for it.
LEMMA WritesOwned ==
  ASSUME Registered, NoRewriting, InTurn, Next
  PROVE  \A w \in inflight' : pc'[w.by] = "saving" /\ w = (Registration(w.by))'
  <1>0. setting' = setting
    BY SettingStays
  <1> SUFFICES ASSUME NEW w \in inflight'
               PROVE  pc'[w.by] = "saving" /\ w = (Registration(w.by))'
    OBVIOUS
  <1>1. CASE w \in inflight
    <2>1. w.by \in Proc /\ pc[w.by] = "saving" /\ w = Registration(w.by)
      BY <1>1 DEF Registered, Orderly, Based, TypeOK, Write
    <2>2. ASSUME NEW p \in Proc, Receive(p) \/ Step(p) PROVE p # w.by
      <3>1. SUFFICES ASSUME p = w.by PROVE FALSE
        OBVIOUS
      <3>2. Saved(p) \/ SaveRejected(p) \/ InsertRejected(p)
        BY <2>1, <2>2, <3>1, Phases DEF Registered
      <3>3. QED
        BY <1>1, <2>1, <3>1, <3>2 DEF Saved, SaveRejected, InsertRejected, InTurn,
           persistent
    <2>3. /\ pc'[w.by] = pc[w.by] /\ req'[w.by] = req[w.by] /\ store'[w.by] = store[w.by]
      <3>1. ASSUME NEW p \in Proc, Receive(p) \/ Step(p)
            PROVE  /\ pc'[w.by] = pc[w.by] /\ req'[w.by] = req[w.by]
                   /\ store'[w.by] = store[w.by]
        BY <2>1, <2>2, <3>1, OthersStay DEF Registered
      <3>2. CASE \/ \E v \in inflight : Land(v)
                 \/ \E s \in purging : Purged(s)
                 \/ \E n \in Name : ExpireMutex(n) \/ ExpireLock(n)
        BY <3>2 DEF Land, Purged, ExpireMutex, ExpireLock
      <3>3. QED
        BY <3>1, <3>2 DEF Next
    <2>4. QED
      BY <1>0, <2>1, <2>3, RegistrationStays
  <1>2. CASE w \notin inflight
    <2>1. PICK p \in Proc : Save(p) /\ w = Registration(p)
      BY <1>2, Arrivals DEF Registered
    <2>2. w.by = p
      BY <2>1, RegistrationTyped DEF Save, Registered
    <2>3. pc'[p] = "saving" /\ req'[p] = req[p] /\ store'[p] = store[p]
      BY <2>1 DEF Save, Goto, Registered, Based, TypeOK
    <2>4. QED
      BY <1>0, <2>1, <2>2, <2>3, RegistrationStays
  <1>3. QED
    BY <1>1, <1>2

\* The name of a registration between its check and the landing of its write
\* is free.
LEMMA NamesFree ==
  ASSUME Registered, NoRewriting, InTurn, Next, NEW q \in Proc, req'[q].name \notin overrun',
         \/ pc'[q] = "save"
         \/ pc'[q] = "saving" /\ (Registration(q))' \in inflight'
  PROVE  \A k \in Key : journal'[k] # Nil => journal'[k].name # req'[q].name
  <1>0. setting' = setting /\ req'[q].name \notin overrun
    BY SettingStays, OverrunGrows
  <1>1. ASSUME pc'[q] = pc[q], store'[q] = store[q], req'[q] = req[q]
        PROVE  \A k \in Key : journal'[k] # Nil => journal'[k].name # req'[q].name
    <2>1. \/ pc[q] = "save"
          \/ pc[q] = "saving" /\ Registration(q) \in inflight'
      BY <1>0, <1>1, RegistrationStays
    <2>2. Registration(q) \in inflight' => Registration(q) \in inflight
      <3>1. SUFFICES ASSUME Registration(q) \in inflight', Registration(q) \notin inflight
                     PROVE  FALSE
        OBVIOUS
      <3>2. PICK r \in Proc : Save(r) /\ Registration(q) = Registration(r)
        BY <3>1, Arrivals DEF Registered
      <3>3. r = q
        BY <2>1, <3>2, RegistrationTyped DEF Save, Registered
      <3>4. pc[q] = "save" /\ pc'[q] = "saving"
        BY <3>2, <3>3 DEF Save, Goto, Registered, Based, TypeOK
      <3>5. QED
        BY <1>1, <3>4
    <2>3. \A k \in Key : journal[k] # Nil => journal[k].name # req[q].name
      BY <1>0, <1>1, <2>1, <2>2 DEF Registered, Orderly
    <2>4. QED
      BY <1>0, <1>1, <2>1, <2>3, NewIsOthers DEF Registering
  <1>2. ASSUME NEW p \in Proc, Receive(p) \/ Step(p), p = q
        PROVE  \A k \in Key : journal'[k] # Nil => journal'[k].name # req'[q].name
    <2>1. Chooses(q) \/ Save(q)
      BY <1>2, Phases DEF Registered
    <2>2. journal' = journal /\ req' = req
      BY <2>1 DEF Chooses, Save, persistent
    <2>3. \A k \in Key : journal[k] # Nil => journal[k].name # req[q].name
      BY <1>0, <2>1, <2>2, FoundByName DEF Chooses, Save, Registered, Orderly
    <2>4. QED
      BY <2>2, <2>3
  <1>3. QED
    <2>1. CASE \E p \in Proc : p # q /\ (Receive(p) \/ Step(p))
      BY <1>1, <2>1, OthersStay DEF Registered
    <2>2. CASE \/ \E v \in inflight : Land(v)
               \/ \E s \in purging : Purged(s)
               \/ \E n \in Name : ExpireMutex(n) \/ ExpireLock(n)
      <3>1. pc' = pc /\ store' = store /\ req' = req
        BY <2>2 DEF Land, Purged, ExpireMutex, ExpireLock
      <3>2. QED
        BY <1>1, <3>1
    <2>3. QED
      BY <1>2, <2>1, <2>2 DEF Next

\* What a rollback may have to undo is under its name.
LEMMA LeftBehind ==
  ASSUME Registered, NoRewriting, InTurn, Next, NEW q \in Proc,
         pc'[q] \in {"rollback", "undo"}, req'[q].name \notin overrun', NEW k \in Key,
         journal'[k] # Nil, journal'[k].gcsurl = store'[q]
  PROVE  /\ journal'[k].name = req'[q].name
         /\ pc'[q] = "undo" => k = got'[q].key
  <1>0. req'[q].name \notin overrun
    BY OverrunGrows
  <1>1. CASE pc'[q] = pc[q] /\ store'[q] = store[q] /\ req'[q] = req[q] /\ got'[q] = got[q]
    <2>1. journal'[k] = journal[k]
      BY <1>1, NewIsOthers
    <2>2. QED
      BY <1>0, <1>1, <2>1 DEF Registered, Orderly
  <1>2. ASSUME NEW p \in Proc, Receive(p) \/ Step(p), p = q
        PROVE  /\ journal'[k].name = req'[q].name
               /\ pc'[q] = "undo" => k = got'[q].key
    <2>1. SaveRejected(q) \/ Rollback(q)
      BY <1>2, Phases DEF Registered, InsertRejected, InTurn
    <2>2. CASE SaveRejected(q)
      <3>1. /\ pc[q] = "saving" /\ Registration(q) \in inflight /\ store' = store
            /\ req' = req /\ pc'[q] = "rollback"
        BY <2>2 DEF SaveRejected, Goto, Registered, Based, TypeOK
      <3>2. store[q] \notin Journalled
        BY <1>0, <3>1, FreeUntilLanded
      <3>3. journal'[k] # journal[k]
        BY <3>1, <3>2 DEF Journalled
      <3>4. journal'[k] = Registration(q).data
        BY <2>2, <3>3 DEF SaveRejected, Registered, Based, TypeOK
      <3>5. QED
        BY <3>1, <3>4, RegistrationTyped DEF Registered
    <2>3. CASE Rollback(q)
      <3>1. /\ pc[q] = "rollback" /\ journal' = journal /\ store' = store /\ req' = req
        BY <2>3 DEF Rollback, persistent
      <3>2. journal[k].name = req[q].name
        BY <1>0, <3>1 DEF Registered, Orderly
      <3>3. ASSUME pc'[q] = "undo" PROVE k = got'[q].key
        <4>1. PICK e \in Found(req[q].name) : got' = [got EXCEPT ![q] = e]
          BY <2>3, <3>3 DEF Rollback, Goto, Registered, Based, TypeOK
        <4>2. e.key \in Key /\ journal[e.key] # Nil /\ journal[e.key].name = req[q].name
          <5>1. /\ e.key \in Key /\ journal[e.key] # Nil
                /\ IF setting.enforceKey THEN e.key = req[q].name
                                         ELSE journal[e.key].name = req[q].name
            BY DEF Found
          <5>2. QED
            BY <5>1 DEF Registered, Keyed, KeyOf
        <4>3. k = e.key
          BY <1>0, <3>1, <3>2, <4>2 DEF Registered, OneName
        <4>4. QED
          BY <4>1, <4>3 DEF Registered, Based, TypeOK
      <3>4. QED
        BY <3>1, <3>2, <3>3
    <2>4. QED
      BY <2>1, <2>2, <2>3
  <1>3. QED
    <2>1. CASE \E p \in Proc : p # q /\ (Receive(p) \/ Step(p))
      BY <1>1, <2>1, OthersStay DEF Registered
    <2>2. CASE \/ \E v \in inflight : Land(v)
               \/ \E s \in purging : Purged(s)
               \/ \E n \in Name : ExpireMutex(n) \/ ExpireLock(n)
      <3>1. pc' = pc /\ store' = store /\ req' = req /\ got' = got
        BY <2>2 DEF Land, Purged, ExpireMutex, ExpireLock
      <3>2. QED
        BY <1>1, <3>1
    <2>3. QED
      BY <1>2, <2>1, <2>2 DEF Next

\* A registration that has rolled back left nothing.
LEMMA NothingLeft ==
  ASSUME Registered, Based', NoRewriting, InTurn, Next, NEW q \in Proc,
         pc'[q] \in {"drop", "dropLock"}, req'[q].name \notin overrun'
  PROVE  store'[q] \notin Journalled' \cup Landing'
  <1>0. setting' = setting /\ (Key' = Key) /\ req'[q].name \notin overrun
    BY SettingStays, OverrunGrows DEF Key
  <1>1. CASE store'[q] = Nil
    <2>1. (Journalled' \cup Landing' \subseteq Store)
      BY DEF Based, TypeOK, Journalled, Landing, Record, Write
    <2>2. QED
      BY <1>1, <2>1, DatasetAssumption
  <1>2. ASSUME \A k \in Key : journal'[k] # Nil => journal'[k].gcsurl # store'[q],
               \A w \in inflight' : w.data.gcsurl # store'[q]
        PROVE  store'[q] \notin Journalled' \cup Landing'
    BY <1>0, <1>2 DEF Journalled, Landing
  <1>3. CASE pc'[q] = pc[q] /\ store'[q] = store[q] /\ req'[q] = req[q]
    <2>1. store[q] \notin Journalled \cup Landing /\ pc[q] # "saving"
      BY <1>0, <1>3 DEF Registered, Orderly
    <2>2. \A k \in Key : journal'[k] # Nil => journal'[k].gcsurl # store'[q]
      BY <1>3, <2>1, NewIsOthers DEF Journalled
    <2>3. \A w \in inflight' : w.data.gcsurl # store'[q]
      BY <1>3, <2>1, NewIsOthers DEF Landing
    <2>4. QED
      BY <1>2, <2>2, <2>3
  <1>4. ASSUME NEW p \in Proc, Receive(p) \/ Step(p), p = q, store'[q] # Nil
        PROVE  store'[q] \notin Journalled' \cup Landing'
    <2>1. Rollback(q) \/ Undo(q) \/ Drop(q)
      BY <1>4, Phases DEF Registered
    <2>2. inflight' = inflight /\ store' = store /\ req' = req
      BY <2>1 DEF Rollback, Undo, Drop, persistent
    <2>3. \A w \in inflight : w.data.gcsurl # store[q]
      <3>1. CASE pc[q] \in {"rollback", "undo"}
        <4>1. SUFFICES ASSUME NEW w \in inflight, w.data.gcsurl = store[q] PROVE FALSE
          OBVIOUS
        <4>2. w.by \in Proc /\ pc[w.by] = "saving" /\ w.data.gcsurl = store[w.by]
          BY RegistrationTyped DEF Registered, Orderly, Based, TypeOK, Write
        <4>3. QED
          BY <3>1, <4>1, <4>2, Apart
      <3>2. CASE pc[q] = "drop"
        BY <1>0, <2>2, <3>2 DEF Registered, Orderly, Landing
      <3>3. QED
        BY <2>1, <3>1, <3>2 DEF Rollback, Undo, Drop
    <2>4. \A k \in Key : journal'[k] # Nil => journal'[k].gcsurl # store[q]
      <3>1. CASE Rollback(q)
        <4>1. pc[q] = "rollback" /\ journal' = journal /\ Found(req[q].name) = {}
          BY <1>4, <3>1 DEF Rollback, Goto, persistent, Registered, Based, TypeOK
        <4>2. \A k \in Key : journal[k] # Nil => journal[k].name # req[q].name
          BY <4>1, FoundByName DEF Registered
        <4>3. QED
          BY <1>0, <2>2, <4>1, <4>2 DEF Registered, Orderly
      <3>2. CASE Undo(q)
        <4>1. pc[q] = "undo" /\ got[q].key \in Key
          BY <3>2 DEF Undo, Registered, Based, Asked, Entity
        <4>2. \A k \in Key : journal'[k] = IF k = got[q].key THEN Nil ELSE journal[k]
          BY <3>2 DEF Undo, Registered, Based, TypeOK
        <4>3. QED
          BY <1>0, <2>2, <4>1, <4>2 DEF Registered, Orderly
      <3>3. CASE Drop(q)
        BY <1>0, <3>3 DEF Drop, persistent, Registered, Orderly, Journalled
      <3>4. QED
        BY <2>1, <3>1, <3>2, <3>3
    <2>5. QED
      BY <1>2, <2>2, <2>3, <2>4
  <1>5. QED
    <2>1. CASE \E p \in Proc : p # q /\ (Receive(p) \/ Step(p))
      BY <1>3, <2>1, OthersStay DEF Registered
    <2>2. CASE \/ \E v \in inflight : Land(v)
               \/ \E s \in purging : Purged(s)
               \/ \E n \in Name : ExpireMutex(n) \/ ExpireLock(n)
      <3>1. pc' = pc /\ store' = store /\ req' = req
        BY <2>2 DEF Land, Purged, ExpireMutex, ExpireLock
      <3>2. QED
        BY <1>3, <3>1
    <2>3. QED
      BY <1>1, <1>4, <2>1, <2>2 DEF Next

LEMMA OrderlyStep ==
  ASSUME Registered, Based', NoRewriting, InTurn, [Next]_vars
  PROVE  OneName' /\ Orderly'
  <1>1. CASE UNCHANGED vars
    BY <1>1 DEF Registered, OneName, Orderly, Journalled, Landing, Key,
       Registration, KeyOf, vars, persistent, redis
  <1>2. CASE Next
    <2>1. (Key' = Key)
      BY <1>2, SettingStays DEF Key
    <2>2. OneName'
      BY <1>2, OneNameStep
    <2>4. Orderly'
      BY <1>2, <2>1, WritesOwned, NamesFree, LeftBehind, NothingLeft DEF Orderly
    <2>5. QED
      BY <2>2, <2>4
  <1>3. QED
    BY <1>1, <1>2

-----------------------------------------------------------------------------
(* A rename, when its client is the only one and nothing fails.            *)

\* How a request comes to a rename, and leaves a write behind.
LEMMA RenamePhases ==
  ASSUME Based, NEW p \in Proc, Receive(p) \/ Step(p)
  PROVE  /\ pc[p] = "idle" => Receive(p)
         /\ pc'[p] = "clash" => Get(p)
         /\ pc'[p] = "rename" => Clash(p)
         /\ pc'[p] = "renaming" => Rename(p)
         /\ pc[p] = "renaming" => RenameDone(p) \/ RenameRejected(p)
  <1> USE DEF Based, TypeOK, End, Goto
  <1>1. CASE Receive(p)
    BY <1>1 DEF Receive, Begin, Start
  <1>2. CASE CreateWriteLock(p) \/ Again(p) \/ Check(p) \/ Save(p) \/ Saved(p)
             \/ SaveRejected(p) \/ InsertRejected(p) \/ Keep(p)
    BY <1>2 DEF CreateWriteLock, Again, Check, Save, Saved, SaveRejected, InsertRejected,
       Keep
  <1>3. CASE Rollback(p) \/ Undo(p) \/ RollbackRejected(p) \/ Drop(p) \/ DropLock(p)
    BY <1>3 DEF Rollback, Undo, RollbackRejected, Leave, Drop, DropLock
  <1>4. CASE Get(p)
    <2>1. req[p].op \in Operations \ {"register"} /\ pc[p] = "get"
      BY <1>4, AskedOf DEF Get
    <2>2. AfterGet(req[p]) \in {"remove", "unlock", "acquire", "create", "clash", "write"}
      BY <2>1 DEF AfterGet, Operations
    <2>3. \/ pc'[p] = AfterGet(req[p])
          \/ pc'[p] = "orphan"
          \/ pc'[p] = "idle"
      <3>1. \/ Goto(p, AfterGet(req[p]))
            \/ Goto(p, "orphan")
            \/ Goto(p, "idle")
        BY <1>4 DEF Get
      <3>2. QED
        BY <3>1
    <2>4. QED
      BY <1>4, <2>1, <2>2, <2>3
  <1>5. CASE Close(p) \/ Denied(p) \/ Orphan(p) \/ Remove(p) \/ Purge(p)
             \/ RemoveRejected(p) \/ Unlock(p)
             \/ Acquire(p) \/ Busy(p)
    BY <1>5 DEF Close, Denied, Orphan, Remove, Purge, RemoveRejected, Unlock, Acquire, Busy
  <1>6. CASE Update(p) \/ UpdateRejected(p) \/ Clash(p)
             \/ Rename(p) \/ RenameDone(p) \/ RenameRejected(p)
    BY <1>6 DEF Update, UpdateRejected, Clash, Rename, RenameDone, RenameRejected
  <1>7. QED
    BY <1>1, <1>2, <1>3, <1>4, <1>5, <1>6 DEF Step

\* The other clients have nothing under way.
LEMMA OnlyOne ==
  ASSUME Based, Alone, Moved, NEW p \in Proc, p \in setting.uses
  PROVE  /\ \A q \in Proc \ {p} : pc[q] = "idle"
         /\ inflight # {} => pc[p] \in {"saving", "renaming"}
         /\ \A w \in inflight : w.by = p
  BY DEF Alone, Moved, Based, TypeOK, Write

\* What Moved says of one request.
MovedOf(p) ==
  /\ pc[p] # "idle" => p \in setting.uses
  /\ pc[p] \in {"clash", "rename", "renaming"} => got[p].key = req[p].name
  /\ pc[p] \in {"rename", "renaming"} => req[p].to # req[p].name
  /\ pc[p] = "saving" => inflight \subseteq {Registration(p)}
  /\ pc[p] = "renaming" =>
       /\ inflight \subseteq {Deletion(p), Renamed(p)}
       /\ Deletion(p) \notin inflight => journal[req[p].name] = Nil
       /\ Renamed(p) \notin inflight => journal[req[p].to] = Renamed(p).data

LEMMA MovedOwn ==
  ASSUME Based, Alone, Moved, NEW p \in Proc, Receive(p) \/ Step(p)
  PROVE  MovedOf(p)' /\ \A w \in inflight' : pc'[w.by] \in {"saving", "renaming"}
  <1>0. setting' = setting /\ p \in setting.uses
    <2>1. setting' = setting
      BY SettingStays DEF Next
    <2>2. CASE Receive(p)
      BY <2>1, <2>2 DEF Receive
    <2>3. CASE ~Receive(p)
      BY <2>1, <2>3, RenamePhases DEF Moved
    <2>4. QED
      BY <2>2, <2>3
  <1>1. inflight' = inflight \/ Save(p) \/ Rename(p)
    <2>1. CASE Save(p) \/ Rename(p) \/ Update(p)
      BY <2>1 DEF Update
    <2>2. CASE RenameRejected(p) \/ SaveRejected(p)
      BY <2>2 DEF RenameRejected, SaveRejected, Alone
    <2>3. CASE ~(Save(p) \/ Rename(p) \/ Update(p) \/ RenameRejected(p) \/ SaveRejected(p))
      <3>1. \/ Quiet \/ Chooses(p) \/ Reads(p) \/ Deletes(p) \/ Purges(p)
        BY <2>3, RegisterEffect, OthersEffect DEF Step
      <3>2. QED
        BY <3>1 DEF Quiet, Chooses, Reads, Deletes, Purges, persistent
    <2>4. QED
      BY <2>1, <2>2, <2>3
  <1>2. CASE Save(p)
    <2>1. inflight = {}
      BY <1>0, <1>2, OnlyOne DEF Save
    <2>2. /\ pc' = [pc EXCEPT ![p] = "saving"] /\ inflight' = {Registration(p)}
          /\ req' = req /\ store' = store
      BY <1>2, <2>1 DEF Save, Goto
    <2>3. (Registration(p))' = Registration(p) /\ Registration(p).by = p
      BY <1>0, <1>2, <2>2, RegistrationStays, RegistrationTyped DEF Save
    <2>4. QED
      BY <1>0, <2>2, <2>3 DEF MovedOf, Based, TypeOK
  <1>3. CASE Rename(p)
    <2>1. inflight = {} /\ pc[p] = "rename"
      BY <1>0, <1>3, OnlyOne DEF Rename
    <2>2. /\ pc' = [pc EXCEPT ![p] = "renaming"] /\ inflight' = {Deletion(p), Renamed(p)}
          /\ req' = req /\ store' = store /\ got' = got
      BY <1>3, <2>1 DEF Rename, Goto
    <2>3. /\ (Deletion(p))' = Deletion(p) /\ (Renamed(p))' = Renamed(p)
          /\ Deletion(p).by = p /\ Renamed(p).by = p
      BY <1>0, <2>1, <2>2, RenamedTyped DEF Deletion, Renamed
    <2>4. got[p].key = req[p].name /\ req[p].to # req[p].name
      BY <2>1 DEF Moved
    <2>5. QED
      BY <1>0, <2>2, <2>3, <2>4 DEF MovedOf, Based, TypeOK
  <1>4. CASE inflight' = inflight /\ ~Save(p) /\ ~Rename(p)
    <2>1. pc'[p] \notin {"saving", "renaming"}
      BY <1>4, Phases, RenamePhases
    <2>2. inflight = {}
      <3>1. SUFFICES ASSUME inflight # {} PROVE FALSE
        OBVIOUS
      <3>2. CASE pc[p] = "saving"
        <4>1. Saved(p)
          BY <3>2, Phases DEF SaveRejected, InsertRejected, Alone
        <4>2. QED
          BY <3>1, <3>2, <4>1 DEF Saved, Moved
      <3>3. CASE pc[p] = "renaming"
        <4>1. RenameDone(p)
          BY <3>3, RenamePhases DEF RenameRejected, Alone
        <4>2. QED
          BY <3>1, <3>3, <4>1 DEF RenameDone, Moved
      <3>4. QED
        BY <1>0, <3>1, <3>2, <3>3, OnlyOne
    <2>3. pc'[p] = "clash" => got'[p].key = req'[p].name
      <3>1. SUFFICES ASSUME pc'[p] = "clash" PROVE got'[p].key = req'[p].name
        OBVIOUS
      <3>2. Get(p)
        BY <3>1, RenamePhases
      <3>3. PICK e \in Found(req[p].name) : got' = [got EXCEPT ![p] = e] /\ req' = req
        BY <3>1, <3>2 DEF Get, Goto, End, Based, TypeOK
      <3>4. e.key = req[p].name
        BY DEF Found, Alone
      <3>5. QED
        BY <3>3, <3>4 DEF Based, TypeOK
    <2>4. pc'[p] = "rename" => got'[p].key = req'[p].name /\ req'[p].to # req'[p].name
      <3>1. SUFFICES ASSUME pc'[p] = "rename"
                     PROVE  got'[p].key = req'[p].name /\ req'[p].to # req'[p].name
        OBVIOUS
      <3>2. Clash(p)
        BY <3>1, RenamePhases
      <3>3. pc[p] = "clash" /\ req[p].to # req[p].name /\ req' = req /\ got' = got
        BY <3>1, <3>2 DEF Clash, Goto, End, Based, TypeOK
      <3>4. QED
        BY <3>3 DEF Moved
    <2>5. QED
      BY <1>0, <1>4, <2>1, <2>2, <2>3, <2>4 DEF MovedOf
  <1>5. QED
    BY <1>1, <1>2, <1>3, <1>4

\* A write that lands is one of the rename's two, or the registration's.
LEMMA MovedLands ==
  ASSUME Based, Alone, Moved, NEW v \in inflight, Land(v), NEW p \in Proc
  PROVE  MovedOf(p)'
  <1>1. UNCHANGED <<pc, req, got, store, setting>> /\ inflight' = inflight \ {v}
    BY DEF Land
  <1>2. /\ (Registration(p))' = Registration(p) /\ (Deletion(p))' = Deletion(p)
        /\ (Renamed(p))' = Renamed(p)
    BY <1>1, RegistrationStays DEF Deletion, Renamed
  <1>3. ASSUME pc[p] = "renaming"
        PROVE  /\ Deletion(p) \notin inflight' => journal'[req[p].name] = Nil
               /\ Renamed(p) \notin inflight' => journal'[req[p].to] = Renamed(p).data
    <2>1. /\ v \in {Deletion(p), Renamed(p)} /\ got[p].key = req[p].name
          /\ req[p].to # req[p].name
      BY <1>3 DEF Moved
    <2>2. /\ req[p].name \in Key /\ req[p].to \in Key
          /\ Deletion(p).key = req[p].name /\ Deletion(p).kind = "delete"
          /\ Renamed(p).key = req[p].to /\ Renamed(p).kind = "save"
      BY <1>3, <2>1, RenamedTyped DEF Alone, Key
    <2>3. CASE v = Deletion(p)
      <3>1. journal' = [journal EXCEPT ![req[p].name] = Nil] /\ Renamed(p) # v
        BY <2>2, <2>3 DEF Land
      <3>2. journal'[req[p].name] = Nil /\ journal'[req[p].to] = journal[req[p].to]
        BY <2>1, <2>2, <3>1 DEF Based, TypeOK
      <3>3. QED
        BY <1>1, <1>3, <3>1, <3>2 DEF Moved
    <2>4. CASE v = Renamed(p)
      <3>1. journal' = [journal EXCEPT ![req[p].to] = Renamed(p).data] /\ Deletion(p) # v
        BY <2>2, <2>4 DEF Land
      <3>2. /\ journal'[req[p].to] = Renamed(p).data
            /\ journal'[req[p].name] = journal[req[p].name]
        BY <2>1, <2>2, <3>1 DEF Based, TypeOK
      <3>3. QED
        BY <1>1, <1>3, <3>1, <3>2 DEF Moved
    <2>5. QED
      BY <2>1, <2>3, <2>4
  <1>4. QED
    BY <1>1, <1>2, <1>3 DEF MovedOf, Moved

LEMMA MovedStep == ASSUME Based, Alone, Moved, [Next]_vars PROVE Moved'
  <1>1. SUFFICES /\ \A p \in Proc : MovedOf(p)'
                 /\ \A w \in inflight' : pc'[w.by] \in {"saving", "renaming"}
    BY DEF Moved, MovedOf
  <1>2. ASSUME NEW p \in Proc, Receive(p) \/ Step(p)
        PROVE  /\ \A q \in Proc : MovedOf(q)'
               /\ \A w \in inflight' : pc'[w.by] \in {"saving", "renaming"}
    <2>1. p \in setting.uses
      BY <1>2, RenamePhases DEF Moved, Receive
    <2>2. \A q \in Proc \ {p} : pc'[q] = "idle"
      BY <1>2, <2>1, OnlyOne, OthersStay
    <2>3. QED
      BY <1>2, <2>2, MovedOwn DEF MovedOf
  <1>3. ASSUME NEW v \in inflight, Land(v)
        PROVE  /\ \A q \in Proc : MovedOf(q)'
               /\ \A w \in inflight' : pc'[w.by] \in {"saving", "renaming"}
    BY <1>3, MovedLands DEF Land, Moved
  <1>4. CASE \/ UNCHANGED vars
             \/ \E s \in purging : Purged(s)
             \/ \E n \in Name : ExpireMutex(n) \/ ExpireLock(n)
    <2>1. UNCHANGED <<journal, inflight, pc, req, got, store, setting>>
      BY <1>4 DEF vars, persistent, Purged, ExpireMutex, ExpireLock
    <2>2. QED
      BY <2>1 DEF Moved, MovedOf, Registration, Deletion, Renamed, KeyOf
  <1>5. QED
    BY <1>2, <1>3, <1>4 DEF Next

-----------------------------------------------------------------------------
(* The invariant, and what follows from it.                                *)

LEMMA InitInv == Init => IInv
  <1> SUFFICES ASSUME Init PROVE IInv
    OBVIOUS
  <1>1. Based
    BY InitBased
  <1> USE DatasetAssumption DEF Init
  <1>2. Sessions /\ Keyed /\ Moved
    BY DEF Sessions, InSession, Registering, Keyed, Moved
  <1>3. Located /\ OneName /\ Orderly
    BY DEF Located, OneName, Orderly, Journalled, Landing, Deleted
  <1>4. QED
    BY <1>1, <1>2, <1>3 DEF IInv

LEMMA StepKeeps == IInv /\ [Next]_vars => IInv'
  <1> SUFFICES ASSUME IInv, [Next]_vars PROVE IInv'
    OBVIOUS
  <1>1. Based' /\ Keyed'
    BY StepBased, KeyedStep DEF IInv
  <1>2. Sessions'
    BY SessionsStep DEF IInv
  <1>3. NoRewriting => Located'
    BY LocatedStep DEF IInv
  <1>4. NoRewriting /\ InTurn => OneName' /\ Orderly'
    BY <1>1, OrderlyStep DEF IInv, Registered
  <1>5. Alone => Moved'
    BY MovedStep DEF IInv
  <1>6. QED
    BY <1>1, <1>2, <1>3, <1>4, <1>5, SettingKept DEF IInv

\* The inductive invariant, part by part under the hypothesis each needs.
THEOREM Invariance == Spec => []IInv
  BY InitInv, StepKeeps, PTL DEF Spec

\* What clients call does not change.
LEMMA SettingsHold ==
  /\ Spec /\ NoRewriting => []NoRewriting
  /\ Spec /\ (setting.enforceKey \/ InTurn) => [](setting.enforceKey \/ InTurn)
  /\ Spec /\ Alone => []Alone
  /\ Spec /\ "rename" \notin setting.ops => []("rename" \notin setting.ops)
  <1>1. /\ NoRewriting /\ [Next]_vars => NoRewriting'
        /\ (setting.enforceKey \/ InTurn) /\ [Next]_vars => (setting.enforceKey \/ InTurn)'
        /\ Alone /\ [Next]_vars => Alone'
        /\ "rename" \notin setting.ops /\ [Next]_vars => ("rename" \notin setting.ops)'
    BY SettingKept
  <1>2. QED
    BY <1>1, PTL DEF Spec

\* A registration that fails leaves no record behind, neither in the journal nor
\* on its way to it (handler.ts:207-209, 243-257), with other registrations,
\* deletions and locks around it: when registrations wait for the journal alone,
\* and under every name whose mutex has not expired under its owner.
THEOREM NothingLeftBehind == Spec /\ NoRewriting => []FailedLeavesNothing
  <1>1. IInv /\ NoRewriting => FailedLeavesNothing
    BY DEF IInv, InTurn, Orderly, FailedLeavesNothing, Based, Asked
  <1>2. QED
    BY <1>1, Invariance, SettingsHold, PTL

\* A name has one dataset and objects belong to one (dao.ts:64-79,
\* handler.ts:464): always where the key is made of the name, and where a name
\* is only looked up, as long as no mutex of the name has expired under its
\* owner and registrations wait for the journal alone.
THEOREM OneDataset ==
  Spec /\ NoRewriting /\ (setting.enforceKey \/ InTurn) => []OneDatasetPerName
  <1>1. IInv /\ NoRewriting /\ (setting.enforceKey \/ InTurn) => OneDatasetPerName
    <2>1. SUFFICES ASSUME IInv, NoRewriting, setting.enforceKey \/ InTurn
                   PROVE  OneDatasetPerName
      OBVIOUS
    <2>2. NoSharedObjects
      BY <2>1 DEF IInv, Located, NoSharedObjects
    <2>3. /\ setting.enforceKey \/ OneName
          /\ setting.enforceKey => \A k \in Key : journal[k] # Nil => k = journal[k].name
      BY <2>1 DEF IInv, Keyed, KeyOf
    <2>4. QED
      BY <2>2, <2>3 DEF OneDatasetPerName, OneName
  <1>2. QED
    BY <1>1, Invariance, SettingsHold, PTL

\* A registration never replaces the record of another one: the record of a name
\* changes its storage location only by being absent first (handler.ts:176-187):
\* when registrations wait for the journal alone, and under every name whose
\* mutex has not expired under its owner.
THEOREM LocationKept == Spec /\ NoRewriting => RecordKeepsLocation
  <1>1. IInv /\ NoRewriting /\ [Next]_vars =>
          [~setting.records => \A k \in Key :
             journal[k] # Nil /\ journal'[k] # Nil /\ journal'[k].name \notin overrun'
             => journal'[k].gcsurl = journal[k].gcsurl]_vars
    <2>1. SUFFICES ASSUME IInv, Next, NoRewriting, ~setting.records, NEW k \in Key,
                          journal[k] # Nil, journal'[k] # Nil, journal'[k] # journal[k],
                          journal'[k].name \notin overrun'
                   PROVE  FALSE
      BY DEF vars, persistent
    <2>2. Registered
      BY <2>1 DEF IInv, InTurn, Registered
    <2>3. PICK r \in Proc : /\ pc[r] = "saving" /\ Registration(r) \in inflight
                            /\ k = Registration(r).key
                            /\ journal'[k] = Registration(r).data
      BY <2>1, <2>2, Arrivals DEF Registered
    <2>4. req[r].name \notin overrun
      BY <2>1, <2>2, <2>3, RegistrationTyped, OverrunGrows DEF Registered
    <2>5. QED
      BY <2>1, <2>2, <2>3, <2>4, FreeUntilLanded
  <1>2. QED
    BY <1>1, Invariance, SettingsHold, PTL DEF Spec, RecordKeepsLocation

\* Only these steps begin or end a deletion of objects.
LEMMA PurgingWriters ==
  ASSUME Next, purging' # purging
  PROVE  (\E p \in Proc : Purge(p)) \/ \E s \in purging : Purged(s)
  BY DEF Next, Step, Receive, Begin, CreateWriteLock, Again, Check, Save, Saved,
     SaveRejected, InsertRejected, Keep, Rollback, Undo, RollbackRejected, Drop, DropLock,
     Close, Get, Denied, Orphan, Remove, RemoveRejected, Unlock, Acquire, Busy, Update,
     UpdateRejected, Clash, Rename, RenameDone, RenameRejected, Land, ExpireMutex,
     ExpireLock, persistent

\* A request that has deleted a record sends the deletion of its objects, or
\* leaves them.
LEMMA PurgeNext ==
  ASSUME Based, NEW p \in Proc, Receive(p) \/ Step(p), pc[p] = "purge"
  PROVE  Purge(p) \/ RemoveRejected(p)
  BY DEF Step, Receive, Begin, CreateWriteLock, Again, Check, Save, Saved,
     SaveRejected, InsertRejected, Keep, Rollback, Undo, RollbackRejected, Drop, DropLock,
     Close, Get, Denied, Orphan, Remove, Unlock, Acquire, Busy, Update,
     UpdateRejected, Clash, Rename, RenameDone, RenameRejected

\* A step that takes the only record of some objects away is a deletion, which
\* will go on to the objects, or undoes a registration.
LEMMA RecordsHandOver ==
  ASSUME IInv, Next, "rename" \notin setting.ops, ~setting.enforceKey,
         NEW s \in Journalled \ (Journalled' \cup Landing')
  PROVE  \E p \in Proc : \/ pc[p] = "undo" /\ got[p].data.gcsurl = s
                         \/ pc'[p] = "purge" /\ got'[p].data.gcsurl = s
  <1>1. /\ (Key' = Key) /\ Keyed /\ Based
        /\ \A n, t : KeyOf(n, t) = t
    BY SettingStays DEF Key, IInv, KeyOf
  <1>2. s \in Key /\ journal[s] # Nil /\ journal[s].gcsurl = s
    BY <1>1 DEF Journalled, Keyed
  <1>3. journal'[s] = Nil \/ journal'[s].gcsurl # s
    BY <1>1, <1>2 DEF Journalled
  <1>4. \A w \in inflight : w.kind = "save" /\ w.key = w.data.gcsurl
    BY <1>1 DEF Keyed, Based, TypeOK, Write
  <1>5. \A p \in Proc : got[p] # Nil => got[p].key = got[p].data.gcsurl
    BY <1>1 DEF Keyed
  <1>6. ASSUME NEW p \in Proc, Deletes(p)
        PROVE  \/ pc[p] = "undo" /\ got[p].data.gcsurl = s
               \/ pc'[p] = "purge" /\ got'[p].data.gcsurl = s
    <2>1. s = got[p].data.gcsurl
      BY <1>2, <1>3, <1>5, <1>6, NilAssumption
      DEF Deletes, Based, TypeOK, Entity, Key, IInv
    <2>2. QED
      BY <1>6, <2>1 DEF Deletes, Forgets
  <1>7. ASSUME NEW p \in Proc, Update(p) PROVE FALSE
    <2>1. /\ got[p] \in Entity /\ got[p] # Nil /\ Changed(p).gcsurl = got[p].data.gcsurl
          /\ Changed(p) # Nil
      BY <1>1, <1>7, ChangedTyped, NilAssumption DEF Update, Entity, Key
    <2>2. journal'[s] = IF s = got[p].key THEN Changed(p) ELSE journal[s]
      BY <1>1, <1>2, <1>7 DEF Update, Based, TypeOK
    <2>3. QED
      BY <1>2, <1>3, <1>5, <2>1, <2>2
  <1>8. ASSUME NEW w \in inflight, Lands(w) PROVE FALSE
    <2>1. w.data # Nil
      BY <1>1, NilAssumption DEF Based, TypeOK, Write
    <2>2. journal'[s] = journal[s] \/ (s = w.key /\ journal'[s] = w.data)
      BY <1>1, <1>2, <1>4, <1>8 DEF Lands, Based, TypeOK
    <2>3. QED
      BY <1>2, <1>3, <1>4, <2>1, <2>2
  <1>9. journal' # journal
    BY <1>2, <1>3
  <1>10. ASSUME NEW p \in Proc PROVE ~Rename(p) /\ ~RenameRejected(p)
    BY <1>1, AskedOf DEF Rename, RenameRejected
  <1>11. QED
    BY <1>1, <1>6, <1>7, <1>8, <1>9, <1>10, Effects
    DEF Quiet, Chooses, Reads, Save, Purges, persistent, Lands

\* Objects that leave all hands are deleted, or left by a failure, or those of a
\* registration that is undone.
LEMMA NoneOrphaned ==
  ASSUME IInv, Next, "rename" \notin setting.ops, ~setting.enforceKey,
         NEW s \in Tended \ (Tended' \cup Landing')
  PROVE  \/ s \in erased' \cup left'
         \/ \E p \in Proc : pc[p] = "undo" /\ got[p].data.gcsurl = s
  <1>1. /\ s \notin Journalled' /\ s \notin purging'
        /\ \A p \in Proc : pc'[p] = "purge" => got'[p].data.gcsurl # s
    BY DEF Tended
  <1>2. CASE s \in Journalled
    BY <1>1, <1>2, RecordsHandOver
  <1>3. CASE s \in purging
    <2>1. PICK t \in purging : Purged(t)
      <3>1. ~\E p \in Proc : Purge(p)
        BY <1>1, <1>3 DEF Purge
      <3>2. QED
        BY <1>1, <1>3, <3>1, PurgingWriters
    <2>2. QED
      BY <1>1, <1>3, <2>1 DEF Purged
  <1>4. ASSUME NEW q \in Proc, pc[q] = "purge", got[q].data.gcsurl = s
        PROVE  s \in left'
    <2>1. ~(pc'[q] = pc[q] /\ got'[q] = got[q])
      BY <1>1, <1>4
    <2>2. Receive(q) \/ Step(q)
      <3>1. ASSUME NEW p \in Proc \ {q}, Receive(p) \/ Step(p) PROVE FALSE
        BY <2>1, <3>1, OthersStay DEF IInv
      <3>2. CASE \/ \E w \in inflight : Land(w)
                 \/ \E t \in purging : Purged(t)
                 \/ \E n \in Name : ExpireMutex(n) \/ ExpireLock(n)
        BY <2>1, <3>2 DEF Land, Purged, ExpireMutex, ExpireLock
      <3>3. QED
        BY <3>1, <3>2 DEF Next
    <2>3. Purge(q) \/ RemoveRejected(q)
      BY <1>4, <2>2, PurgeNext DEF IInv
    <2>4. QED
      BY <1>1, <1>4, <2>3 DEF Purge, RemoveRejected
  <1>5. QED
    BY <1>2, <1>3, <1>4 DEF Tended

\* With keys of their own, the objects of a record stay in somebody's hands, from
\* the record to the request that has deleted it and to the deletion that nobody
\* awaits, until they are deleted, or a call that failed leaves them, or their
\* registration is rolled back (handler.ts:249-260, 459-467): through patches,
\* tags and sizes too, and expired mutexes, as long as nobody renames.
THEOREM NoneIsOrphaned ==
  Spec /\ "rename" \notin setting.ops => NoOrphanObjects
  <1>1. IInv /\ "rename" \notin setting.ops /\ [Next]_vars =>
          [~setting.enforceKey => \A s \in Tended \ (Tended' \cup Landing') :
             \/ s \in erased' \cup left'
             \/ \E p \in Proc : pc[p] = "undo" /\ got[p].data.gcsurl = s]_vars
    BY NoneOrphaned DEF vars
  <1>2. QED
    BY <1>1, Invariance, SettingsHold, PTL DEF Spec, NoOrphanObjects

\* A rename that ends with success has moved the dataset: it is there under the
\* new name, and nothing is under the old one (openapi.osdu.yaml:281,
\* handler.ts:657-660), when no other request runs and none of its calls fails.
THEOREM RenameMoves == Spec /\ Alone => RenameMovesDataset
  <1>1. ASSUME IInv, Alone, NEW p \in Proc, pc[p] = "renaming",
               {Deletion(p), Renamed(p)} \cap inflight = {}
        PROVE  LET At(n) == {e.data.gcsurl : e \in Found(n)}
               IN  got[p].data.gcsurl \in At(req[p].to) \ At(req[p].name)
    <2>1. /\ journal[req[p].name] = Nil /\ journal[req[p].to] = Renamed(p).data
          /\ Based
      BY <1>1 DEF IInv, Moved
    <2>2. /\ req[p].to \in Key /\ Renamed(p).data \in Record
          /\ Renamed(p).data.gcsurl = got[p].data.gcsurl
      BY <1>1, <2>1, RenamedTyped DEF Alone, Key, Write
    <2>3. Renamed(p).data # Nil
      BY <2>2, NilAssumption
    <2>4. Found(req[p].name) = {}
      BY <1>1, <2>1 DEF Found, Alone
    <2>5. [key |-> req[p].to, data |-> journal[req[p].to]] \in Found(req[p].to)
      BY <1>1, <2>1, <2>2, <2>3 DEF Found, Alone
    <2>6. QED
      BY <2>1, <2>2, <2>4, <2>5
  <1>2. IInv /\ Alone /\ [Next]_vars =>
          [\A p \in Proc :
             pc[p] = "renaming" /\ pc'[p] = "idle" /\ ~setting.faulty
             /\ {Deletion(p), Renamed(p)} \cap inflight = {}
             => LET At(n) == {e.data.gcsurl : e \in Found(n)}
                IN got[p].data.gcsurl \in At(req[p].to) \ At(req[p].name)]_vars
    BY <1>1
  <1>3. QED
    BY <1>2, Invariance, SettingsHold, PTL DEF Spec, RenameMovesDataset
=============================================================================
