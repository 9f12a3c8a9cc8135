------------------------------- MODULE Dataset -------------------------------
(***************************************************************************)
(* The datasets of one subproject: services/dataset/handler.ts and dao.ts. *)
(*                                                                         *)
(* The metadata of a dataset is one record of the journal, its bulk        *)
(* objects sit in a storage location of its own, its lock and its mutex in *)
(* Redis under its name.  A handler awaits the journal, the storage and    *)
(* Redis one after the other, and nothing but the mutex of register and    *)
(* computeSize orders two handlers: one action per await.                  *)
(*                                                                         *)
(* The locker's own steps are in module Locker; its methods are atomic     *)
(* here, with RWLock's effect on the set of the ids that hold the lock.    *)
(***************************************************************************)
EXTENDS Naturals, FiniteSets

CONSTANTS
  Proc,           \* requests that run at the same time
  Name,           \* dataset names (path and name) of the subproject
  Store,          \* storage locations, gcsurl (a uuid per registration)
  WriteId, ReadId,\* lock ids
  Tag,            \* gtags
  Settings,       \* the settings explored
  Nil             \* the absent record, entity, name, id, process

Operations == {"register", "delete", "close", "patch", "rename",
               "lockWrite", "lockRead", "unlock", "putTags", "computeSize"}

Id == WriteId \cup ReadId

\* what does not change in a behaviour
Setting ==
  [enforceKey : BOOLEAN,   \* the subproject's enforce_key
   faulty     : BOOLEAN,   \* may calls to the journal, the storage and DES fail?
   slow       : BOOLEAN,   \* may a mutex expire under the request that holds it?
   records    : BOOLEAN,   \* do registrations carry a storage record for DES?
   idempotent : BOOLEAN,   \* do clients retry with the lock id of an earlier call?
   ops        : SUBSET Operations,  \* what clients call
   \* a bound: the requests that run at a time, names, locations and ids
   uses       : SUBSET (Proc \cup Name \cup Store \cup Id)]

\* a mutex whose owner has ended without releasing it
Leaked == "leaked"

ASSUME DatasetAssumption ==
  /\ Settings \subseteq Setting
  /\ WriteId \cap ReadId = {}
  /\ Nil \notin Proc \cup Name \cup Store \cup Id
  /\ Leaked \notin Proc /\ Leaked # Nil

VARIABLES
  journal,   \* the dataset record under each key
  inflight,  \* journal writes that are sent and not awaited one by one
  purging,   \* storage locations whose deletion is sent, which nobody awaits
  erased,    \* storage locations whose objects were deleted
  left,      \* history: those whose deletion failed, or was not sent after a failure
  lock,      \* ids that hold the lock of each name
  mutex,     \* owner of the mutex of each name
  overrun,   \* history: names whose mutex expired under the request that held it
  pc,        \* the next await of each request
  req,       \* the request
  got,       \* the entity it has read
  store,     \* the storage location its registration chose
  setting    \* the setting of this behaviour

objects    == <<purging, erased, left>>
persistent == <<journal, inflight, objects>>
redis      == <<lock, mutex, overrun>>
vars       == <<persistent, redis, pc, req, got, store, setting>>

\* with enforce_key the key is made of the name, otherwise it is new
Key == IF setting.enforceKey THEN Name ELSE Store

KeyOf(n, s) == IF setting.enforceKey THEN n ELSE s

Record == [name : Name, gcsurl : Store, gtags : SUBSET Tag]
Entity == [key : Key, data : Record]
Write  == [by : Proc, kind : {"save", "delete"}, key : Key, data : Record]

\* the absent record is no record
ASSUME NilAssumption ==
  Nil \notin Record \cup [key : Name \cup Store, data : Record]

Request ==
  [op    : Operations,
   name  : Name,
   to    : Name \cup {Nil},  \* the new name of a rename
   wid   : Id \cup {Nil},    \* the lock id it presents or places
   idem  : BOOLEAN,          \* did the client choose the id?
   gtags : SUBSET Tag]

Places(r) == r.op \in {"register", "computeSize", "lockWrite", "lockRead"}

WellFormed(r) ==
  /\ r.op \in {"register", "computeSize", "lockWrite"} => r.wid \in WriteId
  /\ r.op = "lockRead" => r.wid \in ReadId
  /\ r.op \in {"delete", "unlock", "putTags"} => r.wid = Nil
  /\ r.op = "close" => r.wid # Nil
  /\ (r.op = "rename") <=> (r.to # Nil)
  /\ (r.op \in {"patch", "putTags"}) <=> (r.gtags # {})
  /\ r.idem => Places(r)

\* what clients may call
Calls ==
  {r \in [op    : setting.ops,
          name  : Name \cap setting.uses,
          to    : (Name \cap setting.uses) \cup {Nil},
          wid   : (Id \cap setting.uses) \cup {Nil},
          idem  : {FALSE, setting.idempotent},
          gtags : SUBSET Tag] : WellFormed(r)}

Label == {"idle", "create", "again", "check", "save", "saving", "keep",
          "rollback", "undo", "drop", "dropLock", "close", "get", "orphan",
          "remove", "purge", "clash", "write", "rename", "renaming", "acquire",
          "unlock"}

TypeOK ==
  /\ journal \in [Key -> Record \cup {Nil}]
  /\ inflight \in SUBSET Write
  /\ purging \in SUBSET Store /\ erased \in SUBSET Store /\ left \in SUBSET Store
  /\ lock \in [Name -> SUBSET Id]
  /\ mutex \in [Name -> Proc \cup {Nil, Leaked}]
  /\ overrun \in SUBSET Name
  /\ pc \in [Proc -> Label]
  /\ req \in [Proc -> Request \cup {Nil}]
  /\ got \in [Proc -> Entity \cup {Nil}]
  /\ store \in [Proc -> Store \cup {Nil}]
  /\ setting \in Settings

Init ==
  /\ setting \in Settings
  /\ journal = [k \in Key |-> Nil]
  /\ inflight = {} /\ purging = {} /\ erased = {} /\ left = {}
  /\ lock = [n \in Name |-> {}]
  /\ mutex = [n \in Name |-> Nil] /\ overrun = {}
  /\ pc = [p \in Proc |-> "idle"]
  /\ req = [p \in Proc |-> Nil]
  /\ got = [p \in Proc |-> Nil]
  /\ store = [p \in Proc |-> Nil]

-----------------------------------------------------------------------------
(* What a handler finds.                                                   *)

\* the entities DatasetDAO.getByKey, or DatasetDAO.get, may return for n
Found(n) ==
  {[key |-> k, data |-> journal[k]] : k \in
     {k \in Key : journal[k] # Nil
                  /\ IF setting.enforceKey THEN k = n ELSE journal[k].name = n}}

\* the locations the journal refers to, now or when a write lands
Journalled == {journal[k].gcsurl : k \in {k \in Key : journal[k] # Nil}}
Landing    == {w.data.gcsurl : w \in inflight}

\* a uuid is one that nothing refers to
FreshStore(s) ==
  /\ s \in setting.uses
  /\ s \notin Journalled \cup Landing \cup purging
  /\ \A p \in Proc : s # store[p] /\ (got[p] # Nil => s # got[p].data.gcsurl)

FreshId(id) ==
  /\ \A n \in Name : id \notin lock[n]
  /\ \A p \in Proc : req[p] # Nil => id # req[p].wid

-----------------------------------------------------------------------------
(* Steps that end or move a request.                                       *)

Goto(p, l) == pc' = [pc EXCEPT ![p] = l]

\* the reply: what the request still owns of the mutex is left to its TTL
End(p) ==
  /\ Goto(p, "idle")
  /\ req' = [req EXCEPT ![p] = Nil]
  /\ got' = [got EXCEPT ![p] = Nil]
  /\ store' = [store EXCEPT ![p] = Nil]

Leave(p) ==
  /\ End(p)
  /\ mutex' = [n \in Name |-> IF mutex[n] = p THEN Leaked ELSE mutex[n]]

Release(p) ==
  mutex' = [mutex EXCEPT ![req[p].name] = IF @ = p THEN Nil ELSE @]

\* the first await of each handler
Start(r) ==
  CASE r.op = "register" -> "create"
    [] r.op \in {"patch", "rename"} /\ r.wid # Nil -> "close"
    [] OTHER -> "get"

Begin(p, r) ==
  /\ pc[p] = "idle"
  /\ req' = [req EXCEPT ![p] = r]
  /\ Goto(p, Start(r))
  /\ UNCHANGED <<persistent, redis, got, store, setting>>

Receive(p) ==
  /\ p \in setting.uses
  /\ \E r \in Calls :
       /\ Places(r) /\ ~r.idem => FreshId(r.wid)
       /\ Begin(p, r)

-----------------------------------------------------------------------------
(* register, and the lock session it shares with computeSize.              *)

\* Locker.createWriteLock: the mutex is kept, and a refusal leaks it
CreateWriteLock(p) ==
  LET n == req[p].name
      w == req[p].wid
  IN /\ pc[p] = "create"
     /\ mutex[n] = Nil
     /\ \/ /\ lock[n] = {}
           /\ lock' = [lock EXCEPT ![n] = {w}]
           /\ mutex' = [mutex EXCEPT ![n] = p]
           /\ Goto(p, IF req[p].op = "register" THEN "check" ELSE "write")
           /\ UNCHANGED <<req, got, store>>
        \/ /\ req[p].idem /\ w \in lock[n]
           /\ mutex' = [mutex EXCEPT ![n] = p]
           /\ Goto(p, IF req[p].op = "register" THEN "again" ELSE "write")
           /\ UNCHANGED <<lock, req, got, store>>
        \/ /\ lock[n] # {} /\ ~(req[p].idem /\ w \in lock[n])
           /\ mutex' = [mutex EXCEPT ![n] = Leaked]
           /\ End(p)
           /\ UNCHANGED lock
     /\ UNCHANGED <<persistent, overrun, setting>>

\* the idempotent call that finds the dataset keeps lock and answers with it; a
\* rejected read drops both
Again(p) ==
  /\ pc[p] = "again"
  /\ \/ Goto(p, IF Found(req[p].name) # {} THEN "keep" ELSE "check")
     \/ setting.faulty /\ Goto(p, "drop")
  /\ UNCHANGED <<persistent, redis, req, got, store, setting>>

\* slip: the existence check is forgotten
Check_NoExistence(p) ==
  /\ pc[p] = "check"
  /\ \E s \in Store : FreshStore(s) /\ store' = [store EXCEPT ![p] = s]
  /\ Goto(p, "save")
  /\ UNCHANGED <<persistent, redis, req, got, setting>>

\* legal tag, authorization, existence, storage location
Check(p) ==
  /\ pc[p] = "check"
  /\ \/ Goto(p, "drop") /\ UNCHANGED store
     \/ /\ Found(req[p].name) = {}
        /\ \E s \in Store : FreshStore(s) /\ store' = [store EXCEPT ![p] = s]
        /\ Goto(p, "save")
  /\ UNCHANGED <<persistent, redis, req, got, setting>>

Registration(p) ==
  [by |-> p, kind |-> "save", key |-> KeyOf(req[p].name, store[p]),
   data |-> [name |-> req[p].name, gcsurl |-> store[p], gtags |-> {}]]

\* DatasetDAO.register and DESStorage.insertRecord start together
Save(p) ==
  /\ pc[p] = "save"
  /\ inflight' = inflight \cup {Registration(p)}
  /\ erased' = erased \ {store[p]} /\ left' = left \ {store[p]}
  /\ Goto(p, "saving")
  /\ UNCHANGED <<journal, purging, redis, req, got, store, setting>>

\* both are done
Saved(p) ==
  /\ pc[p] = "saving"
  /\ Registration(p) \notin inflight
  /\ Goto(p, "keep")
  /\ UNCHANGED <<persistent, redis, req, got, store, setting>>

\* the journal reports an error, before or after it applied the write; that a
\* write is applied after its error is left out
SaveRejected(p) ==
  LET w == Registration(p) IN
  /\ setting.faulty
  /\ pc[p] = "saving"
  /\ w \in inflight
  /\ inflight' = inflight \ {w}
  /\ \/ UNCHANGED journal
     \/ journal' = [journal EXCEPT ![w.key] = w.data]
  /\ Goto(p, "rollback")
  /\ UNCHANGED <<objects, redis, req, got, store, setting>>

\* DES rejects the record: Promise.all rejects without waiting for the write
InsertRejected(p) ==
  /\ setting.faulty /\ setting.records
  /\ pc[p] = "saving"
  /\ Goto(p, "rollback")
  /\ UNCHANGED <<persistent, redis, req, got, store, setting>>

\* removeWriteLock(session, true) and the reply
Keep(p) ==
  /\ pc[p] = "keep"
  /\ Release(p)
  /\ End(p)
  /\ UNCHANGED <<persistent, lock, overrun, setting>>

\* slip: datasetRegisteredConsistencyFlag is not set
Rollback_NoFlag(p) ==
  /\ pc[p] = "rollback"
  /\ Goto(p, "drop")
  /\ UNCHANGED <<persistent, redis, req, got, store, setting>>

Rollback(p) ==
  /\ pc[p] = "rollback"
  /\ \/ /\ Found(req[p].name) = {}
        /\ Goto(p, "drop") /\ UNCHANGED got
     \/ \E e \in Found(req[p].name) :
          got' = [got EXCEPT ![p] = e] /\ Goto(p, "undo")
  /\ UNCHANGED <<persistent, redis, req, store, setting>>

Undo(p) ==
  /\ pc[p] = "undo"
  /\ journal' = [journal EXCEPT ![got[p].key] = Nil]
  /\ Goto(p, "drop")
  /\ UNCHANGED <<inflight, objects, redis, req, got, store, setting>>

\* the rollback itself rejects: lock and mutex stay until they expire
RollbackRejected(p) ==
  /\ setting.faulty
  /\ pc[p] \in {"rollback", "undo"}
  /\ Leave(p)
  /\ UNCHANGED <<persistent, lock, overrun, setting>>

\* removeWriteLock(session): the mutex first, ...
Drop(p) ==
  /\ pc[p] = "drop"
  /\ Release(p)
  /\ Goto(p, "dropLock")
  /\ UNCHANGED <<persistent, lock, overrun, req, got, store, setting>>

\* ... then the entry, whatever it holds by now
DropLock(p) ==
  /\ pc[p] = "dropLock"
  /\ lock' = [lock EXCEPT ![req[p].name] = {}]
  /\ End(p)
  /\ UNCHANGED <<persistent, mutex, overrun, setting>>

-----------------------------------------------------------------------------
(* The other handlers.                                                     *)

\* patch with a session id: unlock before anything is read or checked
Close(p) ==
  LET n == req[p].name IN
  /\ pc[p] = "close"
  /\ mutex[n] = Nil
  /\ \/ /\ lock[n] = {} \/ req[p].wid \in lock[n]
        /\ lock' = [lock EXCEPT ![n] = @ \ {req[p].wid}]
        /\ Goto(p, "get")
        /\ UNCHANGED <<req, got, store>>
     \/ /\ lock[n] # {} /\ req[p].wid \notin lock[n]
        /\ End(p)
        /\ UNCHANGED lock
  /\ UNCHANGED <<persistent, mutex, overrun, setting>>

\* what follows the read of a dataset that exists
AfterGet(r) ==
  CASE r.op = "delete" -> "remove"
    [] r.op \in {"close", "unlock"} -> "unlock"
    [] r.op \in {"lockWrite", "lockRead"} -> "acquire"
    [] r.op = "computeSize" -> "create"
    [] r.op = "rename" -> "clash"
    [] r.op \in {"patch", "putTags"} -> "write"

Get(p) ==
  LET F == Found(req[p].name) IN
  /\ pc[p] = "get"
  /\ \/ \E e \in F : /\ got' = [got EXCEPT ![p] = e]
                     /\ Goto(p, AfterGet(req[p]))
                     /\ UNCHANGED <<req, store>>
     \/ /\ F = {} /\ req[p].op = "unlock"
        /\ Goto(p, "orphan")
        /\ UNCHANGED <<req, got, store>>
     \/ /\ F = {} /\ req[p].op # "unlock"
        /\ End(p)
  /\ UNCHANGED <<persistent, redis, setting>>

\* legal tag, authorization or the read-only mode stops the request
Denied(p) ==
  /\ \/ pc[p] \in {"remove", "acquire", "clash"}
     \/ pc[p] = "unlock" /\ req[p].op # "delete" /\ got[p] # Nil
     \/ pc[p] = "create" /\ req[p].op = "computeSize"
     \/ pc[p] = "write" /\ req[p].op # "computeSize"
  /\ End(p)
  /\ UNCHANGED <<persistent, redis, setting>>

\* unlock of a dataset that does not exist: is a lock left behind?
Orphan(p) ==
  /\ pc[p] = "orphan"
  /\ IF lock[req[p].name] # {}
     THEN Goto(p, "unlock") /\ UNCHANGED <<req, got, store>>
     ELSE End(p)
  /\ UNCHANGED <<persistent, redis, setting>>

\* slip: the objects are deleted before the metadata, which may then fail
Remove_ObjectsFirst(p) ==
  /\ pc[p] = "remove"
  /\ purging' = purging \cup {got[p].data.gcsurl}
  /\ \/ /\ journal' = [journal EXCEPT ![got[p].key] = Nil]
        /\ Goto(p, "unlock")
        /\ UNCHANGED <<req, got, store>>
     \/ End(p) /\ UNCHANGED journal
  /\ UNCHANGED <<inflight, erased, left, redis, setting>>

\* slip: the objects are forgotten
Remove_KeepsObjects(p) ==
  /\ pc[p] = "remove"
  /\ journal' = [journal EXCEPT ![got[p].key] = Nil]
  /\ Goto(p, "unlock")
  /\ UNCHANGED <<inflight, objects, redis, req, got, store, setting>>

\* DatasetDAO.delete; deleting an absent record is an error of some journals
\* and is ignored by others
Remove(p) ==
  /\ pc[p] = "remove"
  /\ \/ /\ journal' = [journal EXCEPT ![got[p].key] = Nil]
        /\ Goto(p, "purge")
        /\ UNCHANGED <<req, got, store>>
     \/ /\ journal[got[p].key] = Nil
        /\ End(p)
        /\ UNCHANGED journal
  /\ UNCHANGED <<inflight, objects, redis, setting>>

\* once the journal has answered, deleteObjects is sent and not awaited
Purge(p) ==
  /\ pc[p] = "purge"
  /\ purging' = purging \cup {got[p].data.gcsurl}
  /\ Goto(p, "unlock")
  /\ UNCHANGED <<journal, inflight, erased, left, redis, req, got, store, setting>>

\* the journal reports an error, before or after it deleted the record, or the
\* process ends: no deletion of the objects is sent
RemoveRejected(p) ==
  /\ setting.faulty
  /\ pc[p] \in {"remove", "purge"}
  /\ left' = IF pc[p] = "purge" THEN left \cup {got[p].data.gcsurl} ELSE left
  /\ End(p)
  /\ UNCHANGED <<journal, inflight, purging, erased, redis, setting>>

\* delete and unlock remove the whole lock, close the session it presents
Unlock(p) ==
  LET n == req[p].name
      S == IF req[p].op = "close" THEN {req[p].wid} ELSE Id
  IN /\ pc[p] = "unlock"
     /\ mutex[n] = Nil
     /\ lock' = [lock EXCEPT ![n] = IF S \cap @ = {} THEN @ ELSE @ \ S]
     /\ End(p)
     /\ UNCHANGED <<persistent, mutex, overrun, setting>>

\* slip: a lock is placed without the mutex
Acquire_NoMutex(p) ==
  LET n == req[p].name IN
  /\ pc[p] = "acquire"
  /\ lock' = [lock EXCEPT ![n] = IF @ = {} THEN {req[p].wid} ELSE @]
  /\ End(p)
  /\ UNCHANGED <<persistent, mutex, overrun, setting>>

\* Locker.acquireWriteLock and acquireReadLock
Acquire(p) ==
  LET n == req[p].name
      w == req[p].wid
  IN /\ pc[p] = "acquire"
     /\ mutex[n] = Nil
     /\ lock' = [lock EXCEPT ![n] =
          IF @ = {} \/ (req[p].op = "lockRead" /\ @ \subseteq ReadId)
          THEN @ \cup {w} ELSE @]
     /\ End(p)
     /\ UNCHANGED <<persistent, mutex, overrun, setting>>

\* the mutex is taken: the locker retries for a while, then answers 423
Busy(p) ==
  /\ pc[p] \in {"create", "close", "unlock", "acquire"}
  /\ mutex[req[p].name] # Nil
  /\ End(p)
  /\ UNCHANGED <<persistent, redis, setting>>

\* putTags adds to the tags it read, patch replaces them
Changed(p) ==
  CASE req[p].op = "putTags" ->
         [got[p].data EXCEPT !.gtags = @ \cup req[p].gtags]
    [] req[p].op = "patch" -> [got[p].data EXCEPT !.gtags = req[p].gtags]
    [] req[p].op = "computeSize" -> got[p].data

\* DatasetDAO.update: the copy read earlier, changed, over whatever is there
Update(p) ==
  /\ pc[p] = "write"
  /\ journal' = [journal EXCEPT ![got[p].key] = Changed(p)]
  /\ IF req[p].op = "computeSize"
     THEN Goto(p, "drop") /\ UNCHANGED <<req, got, store>>
     ELSE End(p)
  /\ UNCHANGED <<inflight, objects, redis, setting>>

\* the storage or the journal rejects: computeSize drops its lock as well
UpdateRejected(p) ==
  /\ setting.faulty
  /\ pc[p] = "write" /\ req[p].op = "computeSize"
  /\ Goto(p, "drop")
  /\ UNCHANGED <<persistent, redis, req, got, store, setting>>

\* rename: does the new name exist?
Clash(p) ==
  /\ pc[p] = "clash"
  /\ IF req[p].to # req[p].name /\ Found(req[p].to) = {}
     THEN Goto(p, "rename") /\ UNCHANGED <<req, got, store>>
     ELSE End(p)
  /\ UNCHANGED <<persistent, redis, setting>>

Deletion(p) == [by |-> p, kind |-> "delete", key |-> got[p].key,
                data |-> got[p].data]

\* slip: the record keeps its key
Renamed_OldKey(p) ==
  [by |-> p, kind |-> "save", key |-> got[p].key,
   data |-> [got[p].data EXCEPT !.name = req[p].to]]

\* without enforce_key the record keeps the key the delete is sent to
Renamed(p) ==
  [by |-> p, kind |-> "save",
   key |-> IF setting.enforceKey THEN req[p].to ELSE got[p].key,
   data |-> [got[p].data EXCEPT !.name = req[p].to]]

\* slip: the old record is not deleted
Rename_NoDelete(p) ==
  /\ pc[p] = "rename"
  /\ inflight' = inflight \cup {Renamed(p)}
  /\ Goto(p, "renaming")
  /\ UNCHANGED <<journal, objects, redis, req, got, store, setting>>

\* Promise.all of DatasetDAO.delete and DatasetDAO.register
Rename(p) ==
  /\ pc[p] = "rename"
  /\ inflight' = inflight \cup {Deletion(p), Renamed(p)}
  /\ Goto(p, "renaming")
  /\ UNCHANGED <<journal, objects, redis, req, got, store, setting>>

RenameDone(p) ==
  /\ pc[p] = "renaming"
  /\ Deletion(p) \notin inflight /\ Renamed(p) \notin inflight
  /\ End(p)
  /\ UNCHANGED <<persistent, redis, setting>>

\* one of the two is rejected, the other one still lands
RenameRejected(p) ==
  /\ setting.faulty
  /\ pc[p] = "renaming"
  /\ \E w \in {Deletion(p), Renamed(p)} \cap inflight :
       inflight' = inflight \ {w}
  /\ End(p)
  /\ UNCHANGED <<journal, objects, redis, setting>>

-----------------------------------------------------------------------------
(* The journal, the storage and the clock.                                 *)

Land(w) ==
  /\ w \in inflight
  /\ inflight' = inflight \ {w}
  /\ journal' = [journal EXCEPT
                   ![w.key] = IF w.kind = "save" THEN w.data ELSE Nil]
  /\ UNCHANGED <<objects, redis, pc, req, got, store, setting>>

\* a deletion of objects lands, or fails, which is only logged
Purged(s) ==
  /\ s \in purging
  /\ purging' = purging \ {s}
  /\ \/ erased' = erased \cup {s} /\ UNCHANGED left
     \/ setting.faulty /\ left' = left \cup {s} /\ UNCHANGED erased
  /\ UNCHANGED <<journal, inflight, redis, pc, req, got, store, setting>>

\* a leaked mutex expires, or one whose owner is slower than its TTL of 6 s
ExpireMutex(n) ==
  /\ \/ mutex[n] = Leaked /\ UNCHANGED overrun
     \/ setting.slow /\ mutex[n] \in Proc /\ overrun' = overrun \cup {n}
  /\ mutex' = [mutex EXCEPT ![n] = Nil]
  /\ UNCHANGED <<persistent, lock, pc, req, got, store, setting>>

\* an abandoned lock expires; its TTL is far longer than any request
ExpireLock(n) ==
  /\ lock[n] # {}
  /\ mutex[n] \notin Proc
  /\ \A p \in Proc : pc[p] = "dropLock" => req[p].name # n
  /\ lock' = [lock EXCEPT ![n] = {}]
  /\ UNCHANGED <<persistent, mutex, overrun, pc, req, got, store, setting>>

Step(p) ==
  \/ CreateWriteLock(p) \/ Again(p) \/ Check(p) \/ Save(p) \/ Saved(p)
  \/ SaveRejected(p) \/ InsertRejected(p) \/ Keep(p) \/ Rollback(p)
  \/ Undo(p) \/ RollbackRejected(p) \/ Drop(p) \/ DropLock(p)
  \/ Close(p) \/ Get(p) \/ Denied(p) \/ Orphan(p) \/ Remove(p) \/ Purge(p)
  \/ RemoveRejected(p) \/ Unlock(p) \/ Acquire(p) \/ Busy(p)
  \/ Update(p) \/ UpdateRejected(p) \/ Clash(p)
  \/ Rename(p) \/ RenameDone(p) \/ RenameRejected(p)

Next == \/ \E p \in Proc : Receive(p) \/ Step(p)
        \/ \E w \in inflight : Land(w)
        \/ \E s \in purging : Purged(s)
        \/ \E n \in Name : ExpireMutex(n) \/ ExpireLock(n)

Spec == Init /\ [][Next]_vars

-----------------------------------------------------------------------------
(* Properties.                                                             *)

\* A registration never replaces the record of another one: the record of a
\* name changes its storage location only by being absent first (the
\* existence check of register, handler.ts:176-187, under the mutex).  Not so
\* after a registration that left more behind than it saw (FailedLeavesNothing),
\* nor where the mutex of the name has expired under its owner.
RecordKeepsLocation ==
  [][~setting.records => \A k \in Key :
       journal[k] # Nil /\ journal'[k] # Nil /\ journal'[k].name \notin overrun'
       => journal'[k].gcsurl = journal[k].gcsurl]_vars

\* No dataset is listed whose objects were deleted, or are being deleted: delete
\* removes the metadata first (handler.ts:459) and then the objects it pointed at
\* (464).
DatasetKeepsObjects == TypeOK /\ Journalled \cap (erased \cup purging) = {}

Registering == {"again", "check", "save", "saving", "keep", "rollback",
                "undo", "drop"}

\* While a registration runs nobody else gets the lock of its dataset, and
\* its mutex stays its own (handler.ts:138-141), as long as no mutex of the name
\* has expired under its owner.
SessionExcludes ==
  \A p \in Proc : pc[p] \in Registering /\ req[p].name \notin overrun =>
    lock[req[p].name] \subseteq {req[p].wid} /\ mutex[req[p].name] = p

\* A registration that fails and rolls back leaves no record behind, neither
\* in the journal nor on its way to it (handler.ts:207-209, 243-257).
RolledBack ==
  \A p \in Proc :
    pc[p] \in {"drop", "dropLock"} =>
      store[p] \notin Journalled \cup Landing

\* That, when registrations have no storage record for DES and no mutex of the
\* name has expired under its owner: otherwise it does not hold.
FailedLeavesNothing ==
  ~setting.records => \A p \in Proc :
    pc[p] \in {"drop", "dropLock"} /\ req[p].name \notin overrun =>
      store[p] \notin Journalled \cup Landing

\* once its writes have landed, a rename none of whose calls failed does not
\* leave two datasets at the same objects
NoSharedObjects ==
  ~setting.faulty /\ inflight = {} =>
    \A k, l \in Key : journal[k] # Nil /\ journal[l] # Nil
                       /\ journal[k].gcsurl = journal[l].gcsurl => k = l

\* A name has one dataset, also when records have keys of their own and the
\* handlers look a dataset up by name (dao.ts:64-79), there as long as no mutex
\* of the name has expired under its owner; and objects belong to one dataset:
\* deleting another at the same objects would delete them (handler.ts:464, 657-660).
OneDatasetPerName ==
  /\ \A k, l \in Key : /\ journal[k] # Nil /\ journal[l] # Nil
                         /\ journal[k].name = journal[l].name
                         /\ (setting.enforceKey \/ journal[k].name \notin overrun) => k = l
  /\ NoSharedObjects

\* the locations something refers to that deletes their objects in the end
Tended ==
  Journalled \cup purging
    \cup {got[p].data.gcsurl : p \in {q \in Proc : pc[q] = "purge"}}

\* With keys of their own, the objects of a record stay in somebody's hands: from
\* the record to the request that has deleted it, to the deletion that nobody
\* awaits, until they are deleted, or a call that failed leaves them, or their
\* registration is rolled back (handler.ts:249-260, 459-467).
NoOrphanObjects ==
  [][~setting.enforceKey => \A s \in Tended \ (Tended' \cup Landing') :
       \/ s \in erased' \cup left'
       \/ \E p \in Proc : pc[p] = "undo" /\ got[p].data.gcsurl = s]_vars

\* A rename that ends with success, no call having failed before, has moved
\* the dataset: it is there under the new name, and nothing under the old one
\* still points at its objects, which a delete would remove (openapi.osdu.yaml:281,
\* handler.ts:657-660).
RenameMovesDataset ==
  [][\A p \in Proc :
       pc[p] = "renaming" /\ pc'[p] = "idle" /\ ~setting.faulty
       /\ {Deletion(p), Renamed(p)} \cap inflight = {}
       => LET At(n) == {e.data.gcsurl : e \in Found(n)}
          IN got[p].data.gcsurl \in At(req[p].to) \ At(req[p].name)]_vars

-----------------------------------------------------------------------------
(* What these rest on.                                                     *)

Rewriting == {"patch", "putTags", "computeSize", "rename"}

\* the labels of each operation's requests
LabelsOf(op) ==
  CASE op = "register" -> Registering \cup {"create", "dropLock"}
    [] op = "computeSize" -> {"get", "create", "write", "drop", "dropLock"}
    [] op = "rename" -> {"close", "get", "clash", "rename", "renaming"}
    [] op = "patch" -> {"close", "get", "write"}
    [] op = "putTags" -> {"get", "write"}
    [] op = "delete" -> {"get", "remove", "purge", "unlock"}
    [] op = "close" -> {"get", "unlock"}
    [] op = "unlock" -> {"get", "orphan", "unlock"}
    [] op \in {"lockWrite", "lockRead"} -> {"get", "acquire"}

\* where a request stands, and what it has read and chosen by then
Asked ==
  \A p \in Proc :
    /\ pc[p] # "idle" =>
         /\ req[p] \in Request /\ WellFormed(req[p])
         /\ req[p].op \in setting.ops
         /\ pc[p] \in LabelsOf(req[p].op)
    /\ \/ pc[p] \in {"undo", "remove", "purge", "write", "clash", "rename", "renaming"}
       \/ pc[p] = "create" /\ req[p].op = "computeSize"
       => got[p] \in Entity
    /\ pc[p] \in {"save", "saving"} => store[p] \in Store
    /\ store[p] # Nil =>
         pc[p] \in {"save", "saving", "keep", "rollback", "undo", "drop", "dropLock"}

\* a lock has one writer or only readers
LockShape ==
  \A n \in Name : lock[n] \subseteq ReadId \/ \E w \in WriteId : lock[n] = {w}

Based == TypeOK /\ Asked /\ LockShape

InSession(p) ==
  pc[p] \in Registering \/ (pc[p] = "write" /\ req[p].op = "computeSize")

Sessions ==
  \A p \in Proc : InSession(p) /\ req[p].name \notin overrun =>
    lock[req[p].name] \subseteq {req[p].wid} /\ mutex[req[p].name] = p

Deleted == erased \cup purging

\* where a record refers to, as far as a write can tell: a location is
\* referred to by one record, by one write that has not landed, or by one
\* registration that has not sent its write
Located ==
  /\ Journalled \cap (Deleted \cup Landing) = {}
  /\ Landing \cap Deleted = {}
  /\ \A v, w \in inflight : v.data.gcsurl = w.data.gcsurl => v = w
  /\ \A k, l \in Key : journal[k] # Nil /\ journal[l] # Nil
                         /\ journal[k].gcsurl = journal[l].gcsurl => k = l
  /\ \A p \in Proc : got[p] # Nil =>
       /\ got[p].data.gcsurl \notin Landing
       /\ \A k \in Key : journal[k] # Nil /\ journal[k].gcsurl = got[p].data.gcsurl
            => k = got[p].key
  /\ \A p \in Proc : pc[p] = "purge" => got[p].data.gcsurl \notin Journalled
  /\ \A p \in Proc : pc[p] = "save" =>
       /\ store[p] \notin Journalled \cup Landing \cup purging
       /\ \A q \in Proc : got[q] # Nil => got[q].data.gcsurl # store[p]
  /\ \A p, q \in Proc : store[p] # Nil /\ store[p] = store[q] => p = q

\* what is written and read has the key of its name, or of its location, and
\* only a rename deletes without waiting
Keyed ==
  /\ \A k \in Key : journal[k] # Nil => k = KeyOf(journal[k].name, journal[k].gcsurl)
  /\ \A w \in inflight :
       /\ w.key = KeyOf(w.data.name, w.data.gcsurl)
       /\ w.kind = "delete" => "rename" \in setting.ops
  /\ \A p \in Proc : got[p] # Nil =>
       got[p].key = KeyOf(got[p].data.name, got[p].data.gcsurl)

OneName ==
  \A k, l \in Key : /\ journal[k] # Nil /\ journal[l] # Nil
                      /\ journal[k].name = journal[l].name
                      /\ journal[k].name \notin overrun => k = l

\* each write belongs to the registration that waits for it; its name is free
\* until it lands; what a failed registration left behind is under its name: the
\* latter two where no mutex of the name has expired under its owner
Orderly ==
  /\ \A w \in inflight : pc[w.by] = "saving" /\ w = Registration(w.by)
  /\ \A p \in Proc : pc[p] # "idle" /\ req[p].name \notin overrun =>
       /\ pc[p] = "save" \/ (pc[p] = "saving" /\ Registration(p) \in inflight) =>
            \A k \in Key : journal[k] # Nil => journal[k].name # req[p].name
       /\ pc[p] \in {"rollback", "undo"} =>
            \A k \in Key : journal[k] # Nil /\ journal[k].gcsurl = store[p] =>
              /\ journal[k].name = req[p].name
              /\ pc[p] = "undo" => k = got[p].key
       /\ pc[p] \in {"drop", "dropLock"} => store[p] \notin Journalled \cup Landing

\* one client: a rename finds its two writes as it sent them
Moved ==
  /\ \A w \in inflight : pc[w.by] \in {"saving", "renaming"}
  /\ \A p \in Proc :
       /\ pc[p] # "idle" => p \in setting.uses
       /\ pc[p] \in {"clash", "rename", "renaming"} => got[p].key = req[p].name
       /\ pc[p] \in {"rename", "renaming"} => req[p].to # req[p].name
       /\ pc[p] = "saving" => inflight \subseteq {Registration(p)}
       /\ pc[p] = "renaming" =>
            /\ inflight \subseteq {Deletion(p), Renamed(p)}
            /\ Deletion(p) \notin inflight => journal[req[p].name] = Nil
            /\ Renamed(p) \notin inflight => journal[req[p].to] = Renamed(p).data

\* the requests each of these is about
NoRewriting == setting.ops \cap Rewriting = {}
InTurn      == ~setting.records
Alone       == /\ setting.enforceKey /\ ~setting.faulty
               /\ \A p, q \in Proc \cap setting.uses : p = q

IInv ==
  /\ Based
  /\ Sessions
  /\ NoRewriting => Located
  /\ Keyed
  /\ NoRewriting /\ InTurn => OneName /\ Orderly
  /\ Alone => Moved
=============================================================================
