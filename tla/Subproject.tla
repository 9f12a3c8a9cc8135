----------------------------- MODULE Subproject -----------------------------
(***************************************************************************)
(* A subproject: services/subproject/handler.ts and dao.ts.                *)
(*                                                                         *)
(* Its record is in the journal; the groups of its access lists are in the *)
(* entitlements service, its bucket in the cloud storage, the records of   *)
(* its datasets in the journal again.  Each instance of the service keeps  *)
(* the record it has read or written in memory for 10 seconds.  A handler  *)
(* works on these one after the other, and nothing undoes its first steps  *)
(* when a later one fails.                                                 *)
(***************************************************************************)
EXTENDS Naturals

CONSTANTS
  Proc,       \* requests that run at the same time
  Inst,       \* instances of the service
  Dataset,    \* dataset names
  Role,       \* the access lists of a record: admins, viewers
  Ltag,       \* legal tags
  Bucket,     \* bucket names the storage invents
  Uuid,       \* uuids in the names of default groups
  MaxFailures, \* bound: the remote calls that fail in a behaviour
  Nil

\* a default group of the subproject, or one that the client brought along
Own   == <<"own">>
Group == (Role \X Uuid) \cup {Own}

ASSUME SubprojectAssumption ==
  /\ MaxFailures \in Nat
  /\ Nil \notin Proc \cup Inst \cup Dataset \cup Ltag \cup Bucket \cup Uuid

VARIABLES
  sub,       \* the record of the subproject
  datasets,  \* the records of its datasets
  groups,    \* the default groups that exist
  buckets,   \* the buckets that exist
  cache,     \* what each instance remembers of the record
  tasks,     \* calls that were sent and are not awaited one by one
  pc,        \* the next await of each request
  req,       \* the request
  at,        \* the instance that serves it
  got,       \* the record it works on
  todo,      \* the copies of datasets it still has to write
  listed,    \* the datasets a recursive patch has listed
  deleter,   \* history: the instance that has last deleted the record
  failures   \* the remote calls that failed

remote == <<sub, datasets, groups, buckets, deleter>>
pages  == <<todo, listed>>
local  == <<pc, req, at, got, pages>>
vars   == <<remote, cache, tasks, local, failures>>

\* legal tag, access lists, gcs_bucket
Record == [ltag : Ltag, acls : [Role -> Group \cup {Nil}],
           bucket : Bucket \cup {Nil}]

\* a dataset is stored in the bucket of the record it was registered under
Entity == [ltag : Ltag, bucket : Bucket]

Request ==
  [op        : {"create", "get", "delete", "patch", "register"},
   ltag      : Ltag \cup {Nil},
   acls      : [Role -> {Own, Nil}],
   recursive : BOOLEAN,
   dataset   : Dataset \cup {Nil}]

Task == [kind : {"record", "uncache", "list", "dataset", "group", "bucket"},
         by   : Proc \cup {Nil},    \* the request that waits for it
         on   : Inst \cup Dataset \cup Group \cup Bucket]

\* nothing is not a record, an entity, a request or a group
ASSUME NilAssumption == Nil \notin Record \cup Entity \cup Request \cup Group

Label == {"idle", "exist", "groups", "bucket", "save", "fill",
          "lookup", "loaded", "body", "removing", "page", "update"}

TypeOK ==
  /\ sub \in Record \cup {Nil}
  /\ datasets \in [Dataset -> Entity \cup {Nil}]
  /\ groups \in SUBSET Group
  /\ buckets \in SUBSET Bucket
  /\ cache \in [Inst -> Record \cup {Nil}]
  /\ tasks \in SUBSET Task
  /\ pc \in [Proc -> Label]
  /\ req \in [Proc -> Request \cup {Nil}]
  /\ at \in [Proc -> Inst \cup {Nil}]
  /\ got \in [Proc -> Record \cup {Nil}]
  /\ todo \in [Proc -> [Dataset -> Entity \cup {Nil}]]
  /\ listed \in [Proc -> SUBSET Dataset]
  /\ deleter \in Inst \cup {Nil}
  /\ failures \in 0..MaxFailures

NoEntities == [d \in Dataset |-> Nil]

Init ==
  /\ sub = Nil /\ datasets = NoEntities
  /\ groups = {} /\ buckets = {} /\ tasks = {}
  /\ cache = [i \in Inst |-> Nil]
  /\ pc = [p \in Proc |-> "idle"]
  /\ req = [p \in Proc |-> Nil]
  /\ at = [p \in Proc |-> Nil]
  /\ got = [p \in Proc |-> Nil]
  /\ todo = [p \in Proc |-> NoEntities]
  /\ listed = [p \in Proc |-> {}]
  /\ deleter = Nil /\ failures = 0

-----------------------------------------------------------------------------
(* Requests.                                                               *)

Goto(p, l) == pc' = [pc EXCEPT ![p] = l]

End(p) ==
  /\ Goto(p, "idle")
  /\ req' = [req EXCEPT ![p] = Nil]
  /\ at' = [at EXCEPT ![p] = Nil]
  /\ got' = [got EXCEPT ![p] = Nil]
  /\ todo' = [todo EXCEPT ![p] = NoEntities]
  /\ listed' = [listed EXCEPT ![p] = {}]

\* a uuid or a random bucket name is one that nothing refers to
Names(r) == IF r = Nil THEN {} ELSE {r.bucket} \cup {r.acls[a] : a \in Role}

Unused(x) ==
  /\ x \notin groups \cup buckets \cup Names(sub)
  /\ \A d \in Dataset : datasets[d] # Nil => datasets[d].bucket # x
  /\ \A i \in Inst : x \notin Names(cache[i])
  /\ \A p \in Proc : x \notin Names(got[p])
  /\ \A t \in tasks : t.on # x

\* bound: a creation comes while there are names left for it
Room == /\ \E b \in Bucket : Unused(b)
        /\ \A r \in Role : \E u \in Uuid : Unused(<<r, u>>)

\* a patch needs a legal tag, as a creation whose datasets are to have one;
\* only creations and patches carry access lists
WellFormed(r) ==
  /\ (r.op \in {"create", "patch"}) <=> (r.ltag # Nil)
  /\ r.op \notin {"create", "patch"} => \A a \in Role : r.acls[a] = Nil
  /\ r.recursive => r.op = "patch"
  /\ (r.op = "register") <=> (r.dataset # Nil)

Receive(p) ==
  \E r \in Request, i \in Inst :
    /\ pc[p] = "idle"
    /\ WellFormed(r)
    /\ r.op = "create" => Room
    /\ Goto(p, IF r.op = "create" THEN "exist" ELSE "lookup")
    /\ req' = [req EXCEPT ![p] = r]
    /\ at' = [at EXCEPT ![p] = i]
    /\ UNCHANGED <<remote, cache, tasks, got, pages, failures>>

\* a remote call fails
Failure == failures < MaxFailures /\ failures' = failures + 1

\* authorization or the legal tag stops the request, or a call of it fails
Stopped(p) ==
  /\ \/ pc[p] \in {"exist", "body"} /\ UNCHANGED failures
     \/ pc[p] \in {"groups", "bucket", "save", "lookup", "page",
                   "update"} /\ Failure
  /\ End(p)
  /\ UNCHANGED <<remote, cache, tasks>>

\* SubProjectDAO.get: from memory, or from the journal
Lookup(p) ==
  /\ pc[p] = "lookup"
  /\ \/ /\ cache[at[p]] # Nil
        /\ got' = [got EXCEPT ![p] = cache[at[p]]]
        /\ Goto(p, "body")
        /\ UNCHANGED <<req, at, pages>>
     \/ /\ cache[at[p]] = Nil /\ sub # Nil
        /\ got' = [got EXCEPT ![p] = sub]
        /\ Goto(p, "loaded")
        /\ UNCHANGED <<req, at, pages>>
     \/ /\ cache[at[p]] = Nil /\ sub = Nil
        /\ End(p)
  /\ UNCHANGED <<remote, cache, tasks, failures>>

Remember(p, r) == cache' = [cache EXCEPT ![at[p]] = r]

Loaded(p) ==
  /\ pc[p] = "loaded"
  /\ Remember(p, got[p])
  /\ Goto(p, "body")
  /\ UNCHANGED <<remote, tasks, req, at, got, pages, failures>>

\* get answers with the record
Answer(p) ==
  /\ pc[p] = "body" /\ req[p].op = "get"
  /\ End(p)
  /\ UNCHANGED <<remote, cache, tasks, failures>>

-----------------------------------------------------------------------------
(* create                                                                  *)

\* SubProjectDAO.exist looks into the memory of the instance first
Exist(p) ==
  /\ pc[p] = "exist"
  /\ IF cache[at[p]] # Nil \/ sub # Nil
     THEN End(p)
     ELSE /\ got' = [got EXCEPT ![p] =
                [ltag |-> req[p].ltag, acls |-> req[p].acls, bucket |-> Nil]]
          /\ Goto(p, "groups")
          /\ UNCHANGED <<req, at, pages>>
  /\ UNCHANGED <<remote, cache, tasks, failures>>

\* a default group for each list that the request did not name
CreateGroup(p) ==
  /\ pc[p] = "groups"
  /\ \/ \E r \in Role, u \in Uuid :
          /\ got[p].acls[r] = Nil
          /\ Unused(<<r, u>>)
          /\ groups' = groups \cup {<<r, u>>}
          /\ got' = [got EXCEPT ![p].acls[r] = <<r, u>>]
          /\ UNCHANGED pc
     \/ /\ \A r \in Role : got[p].acls[r] # Nil
        /\ Goto(p, "bucket")
        /\ UNCHANGED <<groups, got>>
  /\ UNCHANGED <<sub, datasets, buckets, cache, tasks, req, at, pages, deleter, failures>>

\* a slip: the name of the bucket is recorded, the bucket is not created
CreateBucket_NameOnly(p) ==
  /\ pc[p] = "bucket"
  /\ \E b \in Bucket : Unused(b) /\ got' = [got EXCEPT ![p].bucket = b]
  /\ Goto(p, "save")
  /\ UNCHANGED <<remote, cache, tasks, req, at, pages, failures>>

\* getBucketName invents an unused name, then the bucket is created
CreateBucket(p) ==
  /\ pc[p] = "bucket"
  /\ \E b \in Bucket :
       /\ Unused(b)
       /\ buckets' = buckets \cup {b}
       /\ got' = [got EXCEPT ![p].bucket = b]
  /\ Goto(p, "save")
  /\ UNCHANGED <<sub, datasets, groups, cache, tasks, req, at, pages, deleter, failures>>

\* what a creation or a patch registers; the default groups that a patch
\* replaces stay where they are
Result(p) ==
  IF req[p].op = "create" THEN got[p]
  ELSE [got[p] EXCEPT
          !.ltag = req[p].ltag,
          !.acls = [r \in Role |-> IF req[p].acls[r] # Nil
                                   THEN req[p].acls[r] ELSE @[r]]]

\* SubProjectDAO.register
Save(p) ==
  /\ pc[p] = "save"
  /\ sub' = Result(p)
  /\ \/ Goto(p, "fill") /\ UNCHANGED <<req, at, got, pages, failures>>
     \/ Failure /\ End(p)
  /\ UNCHANGED <<datasets, groups, buckets, deleter, cache, tasks>>

Fill(p) ==
  /\ pc[p] = "fill"
  /\ Remember(p, Result(p))
  /\ End(p)
  /\ UNCHANGED <<remote, tasks, failures>>

-----------------------------------------------------------------------------
(* delete                                                                  *)

Sent(k, p, x) == [kind |-> k, by |-> p, on |-> x]

\* SubProjectDAO.delete and DatasetDAO.deleteAll start together
Delete(p) ==
  /\ pc[p] = "body" /\ req[p].op = "delete"
  /\ tasks' = tasks \cup {Sent("record", p, at[p]), Sent("list", p, at[p])}
  /\ Goto(p, "removing")
  /\ UNCHANGED <<remote, cache, req, at, got, pages, failures>>

\* a slip: the storage is cleared without waiting for the metadata
Removed_NotAwaited(p) ==
  /\ pc[p] = "removing"
  /\ tasks' = tasks \cup {Sent("group", Nil, g) :
                             g \in {got[p].acls[r] : r \in Role} \ {Own}}
                    \cup {Sent("bucket", Nil, got[p].bucket)}
  /\ End(p)
  /\ UNCHANGED <<remote, cache, failures>>

\* a slip: the storage is left alone
Removed_KeepsBucket(p) ==
  /\ pc[p] = "removing"
  /\ \A t \in tasks : t.by # p
  /\ tasks' = tasks \cup {Sent("group", Nil, g) :
                             g \in {got[p].acls[r] : r \in Role} \ {Own}}
  /\ End(p)
  /\ UNCHANGED <<remote, cache, failures>>

\* the metadata is gone; groups and bucket are deleted detached
Removed(p) ==
  /\ pc[p] = "removing"
  /\ \A t \in tasks : t.by # p
  /\ tasks' = tasks \cup {Sent("group", Nil, g) :
                             g \in {got[p].acls[r] : r \in Role} \ {Own}}
                    \cup {Sent("bucket", Nil, got[p].bucket)}
  /\ End(p)
  /\ UNCHANGED <<remote, cache, failures>>

\* a slip: the instance keeps the deleted record in memory
Follow_NoUncache(t) ==
  CASE t.kind = "list" -> {Sent("dataset", t.by, d) :
                             d \in {d \in Dataset : datasets[d] # Nil}}
    [] OTHER -> {}

\* what a call that was answered starts next
Follow(t) ==
  CASE t.kind = "record" -> {Sent("uncache", t.by, t.on)}
    [] t.kind = "list" -> {Sent("dataset", t.by, d) :
                             d \in {d \in Dataset : datasets[d] # Nil}}
    [] OTHER -> {}

Effect(t) ==
  /\ sub' = IF t.kind = "record" THEN Nil ELSE sub
  /\ deleter' = IF t.kind = "record" THEN t.on ELSE deleter
  /\ datasets' = IF t.kind = "dataset"
                 THEN [datasets EXCEPT ![t.on] = Nil] ELSE datasets
  /\ groups' = groups \ (IF t.kind = "group" THEN {t.on} ELSE {})
  /\ buckets' = buckets \ (IF t.kind = "bucket" THEN {t.on} ELSE {})
  /\ cache' = IF t.kind = "uncache"
              THEN [cache EXCEPT ![t.on] = Nil] ELSE cache

Perform(t) ==
  /\ t \in tasks
  /\ Effect(t)
  /\ tasks' = (tasks \ {t}) \cup Follow(t)
  /\ UNCHANGED <<local, failures>>

\* a call is rejected, carried out or not: so is the request that waits for
\* it, and the other calls go on without it
Reject(t) ==
  /\ Failure
  /\ t \in tasks /\ t.kind # "uncache"
  /\ Effect(t) \/ UNCHANGED <<remote, cache>>
  /\ IF t.by = Nil
     THEN tasks' = tasks \ {t} /\ UNCHANGED local
     ELSE /\ tasks' = {[s EXCEPT !.by = IF @ = t.by THEN Nil ELSE @] :
                         s \in tasks \ {t}}
          /\ End(t.by)

-----------------------------------------------------------------------------
(* patch                                                                   *)

Patch(p) ==
  /\ pc[p] = "body" /\ req[p].op = "patch"
  /\ Goto(p, IF req[p].recursive /\ got[p].ltag # req[p].ltag
             THEN "page" ELSE "save")
  /\ UNCHANGED <<remote, cache, tasks, req, at, got, pages, failures>>

\* the next page, of any size: the datasets that have the tag the subproject
\* had, with the new one
Page(p) ==
  LET left == {d \in Dataset \ listed[p] : datasets[d] # Nil} IN
  /\ pc[p] = "page"
  /\ IF left = {}
     THEN Goto(p, "save") /\ UNCHANGED pages
     ELSE \E ds \in (SUBSET left) \ {{}} :
            /\ todo' = [todo EXCEPT ![p] =
                 [d \in Dataset |->
                    IF d \in ds /\ datasets[d].ltag = got[p].ltag
                    THEN [datasets[d] EXCEPT !.ltag = req[p].ltag] ELSE Nil]]
            /\ listed' = [listed EXCEPT ![p] = @ \cup ds]
            /\ Goto(p, "update")
  /\ UNCHANGED <<remote, cache, tasks, req, at, got, failures>>

\* a slip: the first page is taken for all
Update_OnePage(p) ==
  LET left == {d \in Dataset : todo[p][d] # Nil} IN
  /\ pc[p] = "update"
  /\ IF left = {}
     THEN Goto(p, "save") /\ UNCHANGED <<datasets, todo>>
     ELSE \E d \in left :
            /\ datasets' = [datasets EXCEPT ![d] = todo[p][d]]
            /\ todo' = [todo EXCEPT ![p][d] = Nil]
            /\ UNCHANGED pc
  /\ UNCHANGED <<sub, groups, buckets, deleter, cache, tasks, req, at, got, listed, failures>>

\* DatasetDAO.updateAll saves the copies one after the other
Update(p) ==
  LET left == {d \in Dataset : todo[p][d] # Nil} IN
  /\ pc[p] = "update"
  /\ IF left = {}
     THEN Goto(p, "page") /\ UNCHANGED <<datasets, todo>>
     ELSE \E d \in left :
            /\ datasets' = [datasets EXCEPT ![d] = todo[p][d]]
            /\ todo' = [todo EXCEPT ![p][d] = Nil]
            /\ UNCHANGED pc
  /\ UNCHANGED <<sub, groups, buckets, deleter, cache, tasks, req, at, got, listed, failures>>

-----------------------------------------------------------------------------
(* Datasets and the clock.                                                 *)

\* DatasetHandler.register (module Dataset): tag and bucket of the record
Register(p) ==
  /\ pc[p] = "body" /\ req[p].op = "register"
  /\ IF datasets[req[p].dataset] = Nil
     THEN datasets' = [datasets EXCEPT ![req[p].dataset] =
                        [ltag |-> got[p].ltag, bucket |-> got[p].bucket]]
     ELSE UNCHANGED datasets
  /\ End(p)
  /\ UNCHANGED <<sub, groups, buckets, cache, tasks, deleter, failures>>

\* the 10 seconds are over
Forget(i) ==
  /\ cache[i] # Nil
  /\ cache' = [cache EXCEPT ![i] = Nil]
  /\ UNCHANGED <<remote, tasks, local, failures>>

Step(p) == \/ Stopped(p) \/ Lookup(p) \/ Loaded(p) \/ Answer(p) \/ Exist(p)
           \/ CreateGroup(p) \/ CreateBucket(p) \/ Save(p) \/ Fill(p)
           \/ Delete(p) \/ Removed(p) \/ Patch(p) \/ Page(p) \/ Update(p)
           \/ Register(p)

Next == \/ \E p \in Proc : Receive(p) \/ Step(p)
        \/ \E t \in tasks : Perform(t) \/ Reject(t)
        \/ \E i \in Inst : Forget(i)

Spec == Init /\ [][Next]_vars

-----------------------------------------------------------------------------
(* Properties.                                                             *)

\* The bucket and the default groups of a subproject exist as long as its
\* record: create makes them first, delete removes them last
\* (handler.ts:120-149, 227-251).
RecordBacked ==
  /\ TypeOK
  /\ sub # Nil => /\ sub.bucket \in buckets
                  /\ \A r \in Role : sub.acls[r] \in groups \cup {Own}

\* No dataset is listed whose bucket was deleted (handler.ts:228-251).
DatasetsBacked ==
  \A d \in Dataset : datasets[d] # Nil => datasets[d].bucket \in buckets

\* Without failures only a creation brings a subproject into being, or a patch at
\* an instance that still has it in memory after another one has deleted it: never
\* one at the instance that did (handler.ts:271, 330; dao.ts:44-45, 89).
OnlyCreateCreates ==
  [][sub = Nil /\ sub' # Nil => failures > 0 \/ \E p \in Proc :
       /\ pc[p] = "save"
       /\ req[p].op = "create" \/ (deleter # Nil /\ at[p] # deleter)]_vars

\* A recursive patch comes to write the record, page by page, only when no
\* dataset is left with the tag it replaces, also after an attempt that stopped
\* half way (handler.ts:305-330, openapi.osdu.yaml:1618).
RecursivePatchComplete ==
  \A p \in Proc :
    pc[p] = "save" /\ req[p].recursive /\ got[p].ltag # req[p].ltag
    => \A d \in Dataset :
         datasets[d] # Nil => datasets[d].ltag # got[p].ltag

\* Without failures nothing is left behind: a bucket belongs to the record,
\* to a creation under way, or to a deletion (handler.ts:145-149, 249).
BucketsOwned ==
  failures = 0 => \A b \in buckets :
    \/ sub # Nil /\ sub.bucket = b
    \/ \E p \in Proc : got[p] # Nil /\ got[p].bucket = b
    \/ \E t \in tasks : t.on = b

-----------------------------------------------------------------------------
(* What these rest on.                                                     *)

OneRequest  == \A p, q \in Proc : p = q
OneInstance == \A i, j \in Inst : i = j

\* a record that a creation has finished
Complete == [ltag : Ltag, acls : [Role -> Group], bucket : Bucket]

LabelsOf(op) ==
  CASE op = "create" -> {"exist", "groups", "bucket", "save", "fill"}
    [] op \in {"get", "register"} -> {"lookup", "loaded", "body"}
    [] op = "delete" -> {"lookup", "loaded", "body", "removing"}
    [] op = "patch" -> {"lookup", "loaded", "body", "page", "update", "save", "fill"}

\* the labels at which a request works on a record it has read or made
Working == {"save", "fill", "loaded", "body", "removing", "page", "update"}

\* where a request stands, and what it has by then
Asked ==
  \A p \in Proc :
    /\ pc[p] # "idle" =>
         /\ req[p] \in Request /\ WellFormed(req[p]) /\ at[p] \in Inst
         /\ pc[p] \in LabelsOf(req[p].op)
    /\ pc[p] \in {"idle", "exist", "lookup"} => got[p] = Nil
    /\ pc[p] \in {"groups", "bucket"} =>
         got[p] \in Record /\ got[p].bucket = Nil /\ req[p].op = "create"
    /\ pc[p] = "bucket" => \A r \in Role : got[p].acls[r] \in Group
    /\ pc[p] \in Working => got[p] \in Complete
    /\ pc[p] \in {"page", "update"} => req[p].recursive /\ got[p].ltag # req[p].ltag
    /\ pc[p] # "update" => todo[p] = NoEntities
    /\ pc[p] \notin {"page", "update", "save", "fill"} => listed[p] = {}

\* the records that are kept are finished, and each call is sent to its place
Kept ==
  /\ sub # Nil => sub \in Complete
  /\ \A i \in Inst : cache[i] # Nil => cache[i] \in Complete
  /\ \A t \in tasks :
       /\ t.kind \in {"record", "uncache", "list"} => t.on \in Inst
       /\ t.kind = "dataset" => t.on \in Dataset

Based == TypeOK /\ Asked /\ Kept

\* a page is done with when its datasets are written, the patch when all are
Paged ==
  \A p \in Proc :
    /\ pc[p] \in {"page", "update"} =>
         \A d \in listed[p] :
           datasets[d] # Nil /\ datasets[d].ltag = got[p].ltag => todo[p][d] # Nil
    /\ \A d \in Dataset : todo[p][d] # Nil => todo[p][d].ltag = req[p].ltag

\* what stays: what exists and is not about to be deleted
Staying(b)   == b \in buckets /\ \A t \in tasks : t.kind = "bucket" => t.on # b
Granting(g)  == g = Own \/ (g \in groups /\ \A t \in tasks : t.kind = "group" => t.on # g)
Standing(r)  == Staying(r.bucket) /\ \A a \in Role : Granting(r.acls[a])

\* every record, entity and copy that anyone has refers to what stays
Backed ==
  /\ sub # Nil => Standing(sub)
  /\ \A i \in Inst : cache[i] # Nil => Standing(cache[i])
  /\ \A d \in Dataset : datasets[d] # Nil => Staying(datasets[d].bucket)
  /\ \A p \in Proc :
       /\ pc[p] \in Working => Standing(got[p])
       /\ pc[p] \in {"groups", "bucket"} =>
            \A a \in Role : got[p].acls[a] # Nil => Granting(got[p].acls[a])
       /\ \A d \in Dataset : todo[p][d] # Nil => Staying(todo[p][d].bucket)

\* what a deletion still has to do before it clears the storage
Deleting ==
  \A p \in Proc : pc[p] = "removing" =>
    /\ \/ Sent("record", p, at[p]) \in tasks
       \/ sub = Nil /\ (Sent("uncache", p, at[p]) \in tasks \/ cache[at[p]] = Nil)
    /\ \/ \E t \in tasks : t.by = p /\ t.kind = "list"
       \/ \A d \in Dataset : datasets[d] # Nil => Sent("dataset", p, d) \in tasks

\* without failures each bucket is accounted for, each call is awaited but those
\* that clear the storage, and there is one record, that everybody knows
Owned ==
  \A b \in buckets :
    \/ sub # Nil /\ sub.bucket = b
    \/ \E p \in Proc : got[p] # Nil /\ got[p].bucket = b
    \/ \E t \in tasks : t.kind = "bucket" /\ t.on = b

Awaited ==
  \A t \in tasks : t.kind \notin {"group", "bucket"} =>
    t.by \in Proc /\ pc[t.by] = "removing"

Known ==
  (\A p \in Proc : pc[p] # "removing") =>
    \A i \in Inst : cache[i] # Nil => sub # Nil /\ cache[i].bucket = sub.bucket

Agreed(p) ==
  /\ pc[p] \in Working /\ req[p].op # "create" => sub = Nil \/ got[p].bucket = sub.bucket
  /\ pc[p] \in Working \ {"removing"} /\ req[p].op # "create" => sub # Nil
  /\ pc[p] \in {"groups", "bucket", "save"} /\ req[p].op = "create" =>
       sub = Nil /\ \A i \in Inst : cache[i] = Nil
  /\ pc[p] = "fill" /\ req[p].op = "create" => sub # Nil /\ sub.bucket = got[p].bucket

Coherent == Owned /\ Awaited /\ Known /\ \A p \in Proc : Agreed(p)

\* a record that is gone is remembered, or worked on, only elsewhere
Elsewhere(i) == deleter # Nil /\ deleter # i

Timely ==
  /\ Awaited
  /\ \A p \in Proc : pc[p] \in {"loaded", "fill"} => sub # Nil
  /\ sub = Nil =>
       /\ \A i \in Inst : cache[i] # Nil =>
            Elsewhere(i) \/ \E p \in Proc : Sent("uncache", p, i) \in tasks
       /\ \A p \in Proc : pc[p] \in {"body", "page", "update", "save"}
                            /\ req[p].op # "create" => Elsewhere(at[p])

IInv ==
  /\ Based
  /\ OneRequest /\ failures = 0 => Timely
  /\ OneRequest => Paged
  /\ OneRequest /\ OneInstance =>
       /\ Backed /\ Deleting
       /\ failures = 0 => Coherent
=============================================================================
