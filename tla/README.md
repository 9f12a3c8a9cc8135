# Seismic store service: specifications, checks and proofs

The seismic store keeps seismic datasets in the object storage of a cloud and
their metadata in a journal (Cosmos, Datastore, DynamoDB, PostgreSQL, ...). The
service in `src/app/sdms` is stateless but for in-memory caches; several
instances of it run at once and meet in the journal, in Redis and in the object
storage. This directory holds TLA+ modules of its core, TLC configurations that
check them, and proofs that TLAPS checks. `PROJECT.json` names, for every
definition that models code, the lines it models.

## 1. The system

All paths below are under `src/app/sdms/src` unless they say otherwise.

| Component | State | Operations |
|---|---|---|
| Dataset locker, `services/dataset/locker.ts` | per dataset, in Redis: lock entry (a write id, or the list of read ids), a session key per reader, a Redlock mutex; all expire | createWriteLock, removeWriteLock, acquireWriteLock, acquireReadLock, unlock, handler of expired-key events |
| Dataset service, `services/dataset/handler.ts`, `dao.ts` | record of each dataset in the journal; its objects; optionally a storage record in DES | register, get, list, delete, patch (metadata, close, rename), lock, unlock, exists, sizes, computeSize, permission, putTags |
| Copy, `services/utility/handler.ts` (cp), `cloud/shared/queue.ts` | a Bull job in Redis; the transfer status in the record of the destination | the cp request; the worker, with retries |
| Subproject service, `services/subproject` | record in the journal, default groups in the entitlements service, a bucket; 10 s cache in each instance | create, get, list, delete, patch (also recursive over the legal tags of the datasets) |
| Tenant service, `services/tenant` | record in a service journal; 3600 s cache in each instance; the data partition of the process | create, get, delete, path |
| User service, entitlements client, `services/user`, `dataecosystem/entitlement.ts`, `auth/groups.ts` | group memberships, in the entitlements service | add, remove, list, roles |
| Authorization, `auth/auth.ts` | decisions cached for 60 s | isUserAuthorized, isWriteAuthorized, isReadAuthorized, legal tags |
| Service applications, impersonation tokens, `services/svcapp`, `imptoken`, `impersonation_token` | records of applications, trusted or not; tokens are kept by their users | register, list, generate, refresh, patch |
| Journals, `cloud/journal.ts` and `cloud/providers/*` | entities, queries, transactions | get, save, delete, runQuery, transaction |
| Object storage and credentials, `cloud/providers/*` | buckets and objects; cached tokens | create, delete, copy, list; get and refresh |
| Server, `server/server.ts`, `cloud/config.ts` | process-wide configuration and flags | routing, token exchange |
| Cosmos migrator, `src/app/sdms/maintenance` | a continuation file | page by page copy between containers |
| sdms-v4, `src/app/sdms-v4` | caches of schemas and partitions | schema, connection, status |
| File metadata, `src/app/filemetadata` | none | read headers of SEGY and OpenZGY files |

**Interactions.** A request first reads the tenant and the subproject (caches,
then journal), asks the entitlements and compliance services for permission,
and then works on the record of a dataset. Registration, cp and computeSize hold
the locker's mutex across several remote calls; the other dataset operations
hold nothing between reading the record and writing it. cp hands its locks over
to the Bull worker, through the queue. Redis tells subscribed instances when the
session key of a reader has expired.

**What is hard.** Every `await` is a point where any other request, worker or
event handler may run, at this or another instance. Nothing is transactional:
the multi-step operations undo their steps by hand, or not at all. `Promise.all`
lets some calls go on after another has failed the request. Mutexes, locks and
sessions expire on their own. Redis events are lost and come late. Bull repeats
a job from its beginning. Copies of records in memory and in handlers are stale
when they are written back.

**What makes the parts correct.**

- Locker: the entry is a readers-writer lock; its sections exclude each other; an
  id is handed out only if it is in the entry; no lock and no leaked mutex stays for ever.
- Dataset: one dataset per name; a registration that fails leaves nothing; a
  record and its objects appear and go together; renaming moves the dataset.
- Copy: one copy at a time into one destination; nobody writes what is copied;
  "Completed" is complete; every copy settles and returns its lock.
- Access: an answer of success means that the groups have changed; nobody is let in by
  a decision that is too old, or turned away by any old decision.
- Journal: what is answered as done is done, once and in order; a commit that fails
  stops at a point; a listing by pages misses and repeats nothing.
- Object storage: nobody loses objects to somebody else's deletion; a copy has
  everything; a deletion leaves nothing.
- Tenant: what is answered stands; a tenant goes only when nothing is left in it; an
  instance does not serve what it has deleted.
- Tokens and credentials: whatever is handed out gives no more access than its user
  had; the service does not use a token of its own that has expired.
- Subproject: groups and bucket outlive the record, the bucket outlives the
  datasets in it; only a creation brings a subproject into being; a recursive
  patch reaches every dataset.

## 2. Modules

| Module | Models | Extended or instantiated by |
|---|---|---|
| `RWLock` | what the locker promises: a readers-writer lock | `Locker` |
| `Locker` | the locker, one action per Redis command | `MCLocker`, `LockerProofs` |
| `LockerProofs` | theorems about `Locker` | |
| `Dataset` | register, delete, close, patch, rename, lock, unlock, putTags, computeSize, one action per await; the locker's methods are atomic, with the effect `RWLock` gives them | `MCDataset`, `DatasetProofs` |
| `DatasetProofs` | theorems about `Dataset` | |
| `CopyJob` | cp, the Bull worker, other clients of source and destination | `MCCopyJob`, `CopyJobProofs` |
| `CopyJobProofs` | theorems about `CopyJob` | |
| `Subproject` | create, get, delete, patch of a subproject and the registration of datasets under it, with the instances' caches | `MCSubproject`, `SubprojectProofs` |
| `SubprojectProofs` | theorems about `Subproject` | |
| `Access` | adding and removing users, the decisions of `auth.ts` and their memory | `MCAccess`, `AccessProofs` |
| `AccessProofs` | theorems about `Access` | |
| `Journal` | the journals of the five clouds (Cosmos with and without its sidecar) behind `IJournal`, and listing, deleting all and committing with them | `MCJournal`, `CloudProofs` |
| `Storage` | the object storages of the five clouds behind `IStorage` and `ISeistore` | `MCStorage`, `StorageProofs` |
| `StorageProofs` | theorems about `Storage` | |
| `Tenant` | tenants and service applications on several instances, next to creations and deletions of subprojects | `MCTenant`, `TenantProofs` |
| `TenantProofs` | theorems about `Tenant` | |
| `Credentials` | impersonation tokens of both kinds, storage credentials of the five clouds, the token of the service in memory | `MCCredentials`, `CloudProofs` |
| `CloudProofs` | theorems about `Journal` and `Credentials`, the two modules that tell the clouds apart by operators of their own; this is why the definitions of `Journal` are called `JInit`, `JSpec`, `JInv` | |
| `MC...` | symmetry sets, and the operations a run explores | |

In every module `pc[p]` names the next await of request `p`, `req[p]` is the
request, and the other functions over `Proc` are the local variables of the
handler that it reads again later. Authorization and validation appear as a
choice to stop; formats, messages and metadata fields that no property looks at
are left out. Operators whose name has an underscore (`Check_NoExistence`) are
variants with a slip in them. Nothing uses them; each shows that some property
would notice the slip.

### Locker

The entry is the set `lock` of ids in it. `lockTtl` and `session` count ticks:
only `Tick` advances time, an entry or session at 0 is gone. A process in
`Section` has the mutex (`AcquireMutex`) and runs `GetLock`; `AfterGet` is the
decision that createWriteLock, acquireWriteLock, acquireReadLock, unlock or the
event handler takes on what it read. `SetWrite`, `SetSession`, `SetList`,
`DelSession`, `GetTtl`, `Rewrite` and `DelLock` are the Redis commands that
follow. `Abort` is a command that rejects, with or without effect: the mutex
stays taken, as in the code. `RefuseCreate` is the 423 of createWriteLock, which
leaves the mutex, too. Expired-key events go to subscribed instances, are handled
late or lost, and an instance may leave (`Restart`).

### Dataset

`journal` maps keys to records. With `enforce_key` the key is the name, without it every
record has a key of its own and is found by a query. Calls inside a `Promise.all` are put
into `inflight` and land one by one (`Land`), also after the request has failed. A
deletion removes the record (`Remove`), then sends the deletion of the objects (`Purge`),
which nobody awaits: it is in `purging` until it lands or fails (`Purged`). `erased` are
the locations whose objects are gone, `left` those where a failure leaves them, `overrun`
the names whose mutex has expired under its owner; the last two are history. The `setting`
says whether `enforce_key` is on, whether calls fail, whether a mutex may expire under its
owner, whether registrations carry a storage record for DES, whether clients retry with
their lock id, what is called, and how many requests, names, locations and ids occur
(`uses`). It is chosen once, so that one run covers all the combinations listed in
`MCDataset`.

### CopyJob

A cp checks source and destination, takes the lock of the destination (keeping
the mutex), a read lock of the source, checks the legal tag, registers the
destination as InProgress, queues the job and releases the mutex. A job copies
the objects, saves Completed and unlocks; its failure deletes the locks, saves
Aborted and leaves the job to Bull until its `Attempts` are used up. Taking the read
lock and both unlocks need mutexes that others may hold, and then throw (`busy`); the
mutex of the source is not a variable, it is busy or not whenever it is asked for. Locks
expire at any time where the setting says so (`expiring`), also those of a job that
waits in the queue. `past` is history: what has taken locks, or the destination, from
a copy.

### Subproject

The record, the datasets' records, groups and buckets are remote; `cache` is what
each instance remembers. Calls that run in parallel or detached are `tasks`: they
are performed one by one, at any time, and when one that a request waits for is
rejected, the request ends and the others go on (`Reject`). `deleter` is history: the
instance that has last deleted the record. The access lists are
treated alike by the code; the runs take one of them for both.

### Access

`member` is what the entitlements service knows: the role of each user in each
group. An addition has a call per group in `tasks` (`Post`, after a 400 `Again`
as a member, after a 409 `Members`); the first that fails ends the request. A
removal visits the groups in `todo` one by one. `Check`, `Ask` and `Keep` are
isUserAuthorized, with the memory `cache` of each instance; `Known` is what its
get returns, which is nothing for a decision against the user. `saw` and `gone`
are history variables: what disturbed a request, and how long ago an access was
lost. The `setting` fixes the access lists, whether the resource is a dataset,
whether the user is a group (which can be no owner), and what is called.

### Journal

`table` is what the database holds under each key. Keys are numbers in the order in
which the database lists them, except that PostgreSQL lists its rows in the order of
their ids: `older` relates the rows, and a row that is inserted (again) comes after all
others (`Numbered`). `client[p]` is the call of a client: the operations it was given
(`ops`) and those it has yet to make (`todo`), or the datasets that deleteAll has yet to
delete (`left`), the cursor of a listing and what it has `got`. The cursor 0 is the
beginning; `None` is a row of PostgreSQL that is gone, also when its dataset is saved
again. A page is a set: a beginning (`Beginnings`) of the rows beyond the cursor.
Each cloud has its own operators (`CosmosRows`, `PostgresRows`, ...) and the operator
without a prefix chooses by the `scenario`. IBM's deletions are `detached`: nobody awaits
them. History: what a listing returned `again` and what it is known to miss (`cut`), the
datasets that were there all the time (`kept`), the keys a call `wrote` and those
nobody wrote after it (`mine`). The call on one key is atomic; this is the assumption
the other modules rest on.

### Storage

What the methods of the five clouds differ in is a record, the plan of the
method: which pages it lists, what it does to each item, when it answers and
what becomes of an error. `How("again", "delete", "end", "either")`, for example,
is AWS's deletion: list the first page, delete it, and again while there is
more. The actions carry plans out: `List` and `ListFails`, the requests that
land one by one, or fail, and the answer (`Return`). A page is any nonempty
beginning of what is left to list (`Pages`, `Left`). Work that goes on after the
answer keeps its `Slot`. `kept` is history: of what a call was to delete or copy
when it began, the objects that have been there ever since.

### Tenant

`tenant` is the version in the journal, `cache` the version each instance
remembers. Each version names a project (`home`), and `subs` and `app` are what the
journal of each project keeps under the tenant's name; a request looks in the project
of the version it works with (`Where`), which may be a memory. A request
looks into the memory (`Look`), else reads the journal (`Read`) and remembers
(`Keep`); a deletion looks for subprojects (`List`), erases and forgets; a
creation saves and remembers. Answers of the journal and what is done with
them are two steps. `answered`, `known`, `erased`, `missed` and `gone` are history.

### Credentials

A request of the user, with the user's own token or an impersonation token (`by`), asks
for rights (`want`): for a token, or for a credential for the storage. Its steps are the
checks the handlers make, in their order: `Vouch` for the application, `Check` of each
resource, `Validate` and `AskUrl` of a renewal, then `Issue` or `Hand`. `Granted` is what
the policy of the cloud lets the holder of a credential do, and where. `manage` is what a
policy permits on the bucket itself. `basis` carries from token to token the user's rights
it rests on. `kept` is the token of the service: until when it is served from memory and
until when it is really valid; `Made` and `Arrive` are the two ends of the issuer's
answer.

## 3. Runs

| Run | What it asks | Bounds |
|---|---|---|
| `locker` | sections exclude each other, ids handed out are backed, the entry refines `RWLock`; `IInv`, which also says that decisions are taken on a current entry and that the list of readers outlives its sessions, is inductive in proof and an invariant here | 2 processes, 2 write and 2 read ids, TTLs of 2 and 1 ticks and a margin of 1 |
| `locker_live` | a leaked mutex is freed; a write lock ends although clients retry with its id | 2 processes, 1 id of each kind |
| `dataset` | registrations, deletions and locks of one name among several requests whose calls fail, with and without `enforce_key`, and with mutexes that expire under their owners; all changing operations on two names, with calls that fail and land late | 3 requests that register, delete and lock, 2 with more operations, without `enforce_key` or with expiring mutexes: 1 name (2 for expiring mutexes), 2 or 3 locations; 1 request at a time, 2 names, 2 locations, 1 tag |
| `ghost_dataset` | shows that a failed registration with a storage record may leave a record | 2 requests, 1 name |
| `copy` | two copies of one destination stay apart; clients stay out while the locks of a copy last; Completed means complete; copies settle and return the lock | 2 cp, or 1 cp that may fail, lose its destination or its locks; 1 client, 2 attempts |
| `copy_retry` | shows that the second attempt copies without locks | 1 cp, 2 clients |
| `subproject` | record, groups, bucket and datasets stay consistent when one remote call fails | 1 request at a time with leftovers of earlier ones, 2 datasets, 2 tags, 2 buckets, 1 failure |
| `access` | success means that the groups have changed; decisions in memory let nobody in for too long and turn nobody away | 2 requests at a time, 1 user, 4 groups, 6 access lists, a memory of 1 tick |
| `journal` | on each journal: what is answered as done is done, a failed commit made a prefix, a listing is complete and repeats nothing, deleteAll leaves nothing | 2 clients, pages of 1 record, 2 keys of each kind (3 on Datastore, 1 where saves meet transactions), 1 tag where tags matter, transactions of 2 operations |
| `storage` | on each storage: a deletion takes no objects of others, a copy that succeeds has everything, a deletion that succeeds leaves nothing | 2 calls at a time, 2 buckets, 3 locations, 2 names of which one has another `/`, pages of any size |
| `tenant` | a deleted tenant does not come back in the memory of its instance, a deletion abandons nothing, no later request takes an answer back | 2 requests, 2 instances, 2 versions of the tenant in one project or two, 1 subproject, 1 application |
| `credentials` | tokens and storage credentials give nothing that was not the user's; no expired token of the service is served | 1 request at a time, 2 subprojects, 1 dataset, 2 tokens of 2 resources; 2 requests for the service's token, which lives 3 ticks, margin 1, 6 ticks |

**Why the bounds are enough.** Two processes are what a conflict over a mutex, an
entry or a destination needs. `dataset` takes three because a registration can be
disturbed by a deletion and a second registration together. Two read ids give the
list that shrinks without becoming empty. TTLs of 2 and 1 with a margin of 1 keep the
order of 24 h, 1 h and 5 min. Names, tags, buckets and ids that come from a
random generator are drawn from a small set, but only while nothing refers to
them. Two datasets give a recursive patch two pages. Pages of one record
make every listing of two a listing by pages, and let another client in between; that a
row of PostgreSQL is inserted again while it is listed takes a third client, or a
deletion that a failed deleteAll left behind;
the pages of `Storage` have any size. Two versions of a tenant tell a tenant from its successor, two
instances the memory of one from that of the other. Two tokens let one be made
from the other. A life of three ticks with a margin of one lets an answer arrive
late, be served, and expire within six. Symmetry is used only
for safety. Symmetric sets are interchangeable in the code: ids, requests,
locations, names.

**Assumptions named in the modules.**

- `SlowSection = FALSE` (Locker): a section of a few Redis commands ends within the
  6 s of the mutex. With TRUE the sections overlap and every property of the
  locker fails; the code has no fencing.
- `slow` (Dataset, a field of the setting): a registration makes several remote calls
  under a mutex of 6 s, so the mutex may expire under it; two of the settings of the run
  have it. `SessionExcludes`, `FailedLeavesNothing`, `RecordKeepsLocation` and, where
  names are looked up, `OneDatasetPerName` are then false for the names in `overrun`,
  and are stated for the others; the other properties hold for all.
- `LongCopy = TRUE` (CopyJob): a copy may outlast the mutex its job holds.
- `Patient = TRUE` (CopyJob): the attempts to take the mutex outlast a cp that holds it.
- `Settings` (CopyJob) lists what may go wrong, and `setting` is one of them for
  the whole behaviour. `OneCopy`, and `CompletedIsComplete` for several requests, are
  stated as long as no job has dropped its locks, nobody has deleted the destination
  and no lock of the destination has expired under a copy (`Calm`);
  `KeptLocksExcludeWriters` also needs that the lock of the dataset has not expired, or
  been dropped by a copy without locks. `CopySettles` is stated for settings in which
  neither cp's own calls after the registration, nor the reading of the record, nor the
  saving of Aborted fail in their turn, as nothing is left that could record it.
- A `queue.add` that is rejected has not added the job (CopyJob).
- The ids of buckets and datasets have one length (Storage): AWS and IBM delete what
  begins with the id, without a `/` behind it (`aws/storage.ts:180`, `ibm/cos.ts:160`), and
  Azure all containers whose names begin with one (`azure/cloudstorage.ts:167-173`),
  which is the same only then.
- `failures = 0` or `~setting.faulty` guards the properties that a failed call
  breaks by itself, since nothing cleans up after it.
- In `Access` an answer of the entitlements service about a user's groups is taken
  up within the tick in which it was given; access lists do not change.
- One request at a time in `subproject`: see the known disagreements.
- `EffectOfAnswer`, `FailedCommit` and `AllDeleted` are not stated for IBM's journal, nor
  for the Cosmos sidecar when calls fail (`Truthful`), nor `CopyComplete` for AWS, IBM and
  MinIO and `Gone` for IBM; `Conferred` does not count what IBM permits on buckets: what
  breaks them is in the known disagreements. `ListedOnce` and `CopyComplete` count what
  was there all the time.
- Reads of the journal see every earlier write in all modules. Cosmos and DynamoDB may
  serve an older state (the code asks neither for a consistent read); how long is not in
  this code, which on Cosmos repeats a read that finds nothing.
- A journal write that is answered with an error has been applied by then or never is
  (Dataset); in the code it may be applied later still.
- In `Credentials` signatures and encryption cannot be forged, decisions may rest on the
  groups of the last minute (`recent`), and no answer of a token's issuer takes longer
  than the margin of 300 s (the guard of `Tick`). A user's right on a
  subproject is taken to cover its datasets. Subprojects are not recreated.

**Fairness.** `Locker!FairSpec`: a request that has started goes on (`WF` of each
`Command`, the event loop), handled events are handled, time passes, a mutex whose
TTL ran out goes. Nothing is assumed of clients. `CopyJob!LiveSpec`: cp
requests go on; the steps of a job are strongly fair because Bull keeps jobs in
Redis and takes them up again, and the mutex a job waits for may be taken and
released again and again in between.

Deadlock is checked in every run: clients may always send a request, so a state
without successor would be a fault of the model.

## 4. Known disagreements

Checked by a run that ends in a violation:

- `ghost_dataset`: the rollback of a registration looks for a record that is still
  on its way to the journal.
- `copy_retry`: a repeated copy runs without the locks that the documentation promises.

Met while modelling, not checked by runs of their own:

*Locker, datasets, copy*

- `locker.ts:32` says the entry of a reader is removed after an hour. It is removed
  only in an event handler that may never run, while each new reader renews
  the whole list.
- Without `enforce_key` a rename deletes and saves the same key at the same time
  and may lose the dataset (`dataset/handler.ts:657`). `RenameMovesDataset` is
  checked with `enforce_key`.
- Stale upserts: patch, putTags and computeSize save the record they read; an
  update or a deletion in between is undone (`dataset/handler.ts:662, 971, 1077`).
- The mutex of a registration is "removed at the end of the method"
  (`dataset/handler.ts:138`), or by its TTL, whichever is first. The 423 of
  createWriteLock leaves it to the TTL (`locker.ts:220`).
- removeWriteLock releases the mutex before it deletes the entry, which by then may
  belong to a retry of the same client (`locker.ts:226-236`).
- Opening for write with the id of a read session is granted (`locker.ts:295-303`).
- delete, and unlock of a dataset that is gone, unlock the name for everybody
  (`dataset/handler.ts:471, 797`).
- patch replaces gtags (`dataset/handler.ts:586`); the API says they are appended.
- The worker names the source with the name of the destination (`queue.ts:97`),
  unlocks the source for everybody when cp had no read lock (154), and turns a
  Completed copy into Aborted when the lock is gone at the end (158).
- Of two cp that both find the destination free, the second may create the lock and the
  record again after an attempt of the first has failed and dropped its locks (`queue.ts:170`);
  the retry of the first then copies beside the second, or calls its record Completed.
  For the attempt to fail it is enough that the mutex of the source is held by others when
  it comes to unlock (`queue.ts:154`, `locker.ts:396, 508-519`).
- The locks of a copy last for an hour and a day (`locker.ts:32, 361`) and are not renewed,
  while the queue starts 100 jobs in ten minutes (`queue.ts:50-53`): a job that waits too
  long copies without them.
- A job that cannot read the record in any attempt leaves it InProgress for ever.
- `copyJob.remove()` after a failed release of the mutex (`utility/handler.ts:511`) is never
  reached, as releaseMutex rejects nothing.
- `queue.ts:102` says the mutex is tried about 100 times; acquireMutex throws at the first refusal.

*Subprojects, users*

- A patch served from the memory of another instance registers a deleted
  subproject again (`subproject/handler.ts:330`, `dao.ts:44`). `OnlyCreateCreates`
  excepts a patch at another instance than the one that deleted; TLC checks it on one
  instance, and `OnlyElsewhereRevived` is proved for any number.
- Two subproject requests at once: a patch or a dataset registration next to a
  deletion writes into a journal that was just cleared; of two creations the
  second replaces the first one's record and its bucket is lost.
- `exponentialBackOff` is given a promise instead of a function and never repeats
  anything (`subproject/handler.ts:239, 334`, `shared/utils.ts:142`); the default
  groups a patch replaces are never deleted, because the result of `concat` is
  dropped (287, 292).
- Group names are matched by a prefix, so that deleting subproject `a` may
  delete groups of `ab` that its lists name (`groups.ts:67`).
- A recursive patch that failed half way from tag A to B and is then given C
  leaves datasets at B; the API speaks of all datasets.
- A patch "can take up to 5s" (`openapi.osdu.yaml:1597`); the cache keeps a record for 10.
- Removing a user swallows the error of any answer, as `indexOf` is used as a condition
  (`user/handler.ts:513`); "do not throw if a user is not a member" (505) means only
  one of them. `RemovedIsOut` is stated for removals in which no call is refused.
- An addition that finds the user in a group of several pages reads the first page
  for ever (`entitlement.ts:130-133`), and removal from a dataset looks for the user on the first
  page only (`groups.ts:48-52`). No property says that an addition ends; `RemovedIsOut`
  excludes these groups.
- Without default groups an addition takes the first group of the list, a removal
  the first one the caller is in, or a group called `undefined`
  (`user/handler.ts:196, 284`); the API speaks of the first group in both
  (`openapi.osdu.yaml:1764, 1821`). `RemovedIsOut` is stated for lists with default groups.

*Journals*

- IBM's save swallows a conflict and so loses an update (`ibm/datastore.ts:106`);
  saving an array does nothing; a get that fails says that the record is absent;
  a deletion is not awaited; only the first page is listed.
- Through the Cosmos sidecar an error 404 of a save, whatever it is about, is
  dropped, and the call succeeds with nothing written (`cosmosdb.ts:75, 82, 116-120`); so are
  those of a read, which finds nothing, and of a deletion.
- PostgreSQL's cursor is a row: when that row is deleted or loses the tag asked for,
  the listing ends early (`cut` in the model). A save that looked before a deletion and writes
  after it inserts the row again, with a new id: the listing then returns the dataset a second
  time, or ends, as the row it was to go on after has another id. `ListedOnce` says for
  PostgreSQL that no dataset is returned twice that stayed; for the others, none at all.
- listDatasets drops the cursor of an empty page of Cosmos; AWS ignores limit and cursor.
- A transaction that fails leaves the operations it has made; rollback does not
  undo them, and where deleting an absent record is an error a repeated commit
  never succeeds. Datastore alone commits all or nothing.

*Object storage*

- Azure deletes only what is directly in the folder of a dataset, and answers a copy
  when the copies have started.
- AWS's copyObject is called without sending the request. MinIO's copy source lacks
  the bucket and only the bucket of the key is replaced. Both look at one page. IBM
  copies and deletes in callbacks nobody waits for, and one page.
- Google's deletion of a subproject deletes the bucket only, and is refused while objects
  are left; a creation whose second call fails leaves the bucket. AWS hides errors of
  creating and deleting a bucket.

*Tenants, applications*

- Another instance serves a deleted tenant for up to an hour and creates subprojects in
  it. A get that overlaps the deletion puts the tenant back into memory.
- A deletion looks for subprojects in the project of the tenant it remembers
  (`tenant/handler.ts:116, 125-126`, `google/datastore.ts:37`). When the tenant was deleted
  and created again for another project meanwhile, at another instance, it finds none there
  and deletes the new tenant with its subprojects (`missed`).
- Two creations, or two registrations, that overlap replace each other: a late
  plain registration takes back the trust. "Already exists" may come from memory.
- A creation that is refused with 409 leaves the consistency flag of the process off
  until the next request switches it on (`server.ts:95`).

*Tokens, credentials*

- `imptoken/dao.ts:94` says a 4xx refuses the refresh; the code looks at
  `error.statusCode` (96), which is undefined, and so every answer of the url
  allows it. A call without an answer ends in a TypeError.
- The refresh of an old token looks neither at the application nor at the user again.
- Old tokens can be signed on Google only; new ones need an authentication provider
  that is not in this repository.
- IBM's policies permit everything (`s3:*`) on the bucket itself, also to a viewer: to
  delete it, or to rewrite its policy (`ibm/stshelper.ts:129-137`, under the comment "Allow
  Listing files"). `Conferred` is about objects there.
- AWS, IBM and MinIO give for a dataset a credential for its whole subproject; on
  Google, that for a subproject covers datasets with access lists of their own.
- Azure tells the client 3599 s and signs for 3599 minutes; its map of delegation keys is
  always empty, as each request makes a new provider.
- The memory of exchanged tokens keeps a token for 300 s, whatever its own expiry
  (`server.ts:108`).

## 5. Proofs

`LockerProofs` proves, for any number of processes, instances and ids and any
TTLs and margin (`LockerAssumption`), and with sections that do not outlive the
mutex (`Quick`):

| Theorem | States |
|---|---|
| `Invariance` | `Spec => []IInv` |
| `MutualExclusion` | two sections never run together |
| `NoStaleDecision` | what a section has read holds, or has expired, until it writes |
| `ReadersOutlived` | the list of readers never expires before one of its sessions |
| `GrantsAreBacked` | an id given to a client is in the entry, or the entry has expired |
| `Refinement` | `Spec` implements `RWLock!Spec` with `holders <- lock` |

None of these invariants is inductive alone. `IInv` joins the types, the fact that
a process within a section owns the mutex, the shape of the entry (one writer,
or readers only; absent exactly at TTL 0), the shapes of calls and of what a
process knows at each command, the currency of what it read (`SeenIsCurrent`)
and the margins of the TTLs (`MainOutlivesSessions`, and `LeftCoversSessions` for
the TTL that was read and not yet written back). The argument: only the owner of
the mutex writes the entry, apart from expiry and removeWriteLock, which can only
make it vanish; so a decision still holds when the command that acts upon it runs.
There is one lemma per part of `IInv`, with a case per group of actions. The
refinement uses `IInv` to map each write of the entry to a step of `RWLock`; a
list written back after it expired is `Revive`, which is why the abstract
lock has that step. TLC checks `IInv` and the refinement in run `locker`.

`TenantProofs` proves, for any number of requests, instances, subprojects and
versions, and for any settings (`TenantAssumption`):

| Theorem | States |
|---|---|
| `Invariance` | `Spec => []IInv` |
| `DeletionSeen` | an instance that has deleted a tenant does not serve it again, unless a call of its own had read it before |
| `NoneAbandoned` | a subproject of a deleted tenant was written after the deletion had looked, or is in a project in which it did not look |
| `AnswersAreKept` | a creation or registration about to write replaces nothing that was answered before it began |

Its `IInv` adds to the types and the three properties that versions only grow and never
come back and that a subproject is in the project its version names (`Versions`), that
what a call is about to remember is not a version its instance has seen deleted (`Hands`),
that between a deletion's look and its erasure the only subprojects where it looked are
late ones (`Looked`), and that what a request knew was answered (`Known`). One lemma per
action shows each part preserved. TLC checks `IInv` in run `tenant`.

`CloudProofs` proves about `Journal`, for any number of clients, any finite sets of keys,
any tags, sizes of pages and transactions, and all scenarios (`JournalAssumption`):

| Theorem | States |
|---|---|
| `JournalInvariance` | `JSpec => []JInv` |
| `SafeAnswer` | a save, a deletion or a commit that succeeds has made its operations, in order (`Truthful`) |
| `SafeFailure` | a commit that fails made the first of its operations; all or none on Datastore (`Truthful`) |
| `SafeListing` | a listing repeats nothing that stayed and misses nothing that stayed, unless `cut` |
| `SafeDeletion` | a deleteAll that succeeds leaves nothing it found (`Truthful`) |

`Truthful` leaves out IBM, and the Cosmos sidecar when calls fail. The properties are
about the end of a call; `JInv` is about its middle. `InOrder`: a call has made the first
`n` of its operations, in that order, has the others in `todo`, and a key that nobody else
wrote holds what the last of those `n` on the key left (`Reached`, `Holds`). `Paged`: what
lies up to the cursor of a listing has been returned, nothing beyond it has, and on
PostgreSQL the row of the cursor is there or known to be gone. `Erasing`: what is there of
what deleteAll found is in `left`. `Ordered`: the ids of PostgreSQL's rows are a total
order of the rows there are, which an insertion, a deletion and a new insertion of the
same key preserve. Who writes meanwhile is dealt with in one place, the lemmas about
`Watch`. That the last operation on a key (`LastOn`) and the last row of a page (`LastOf`)
exist is a fact about finite sets: lemma `Smallest` gets a least element from a
well-founded order, so no induction over the page is needed.

`CloudProofs` proves about `Credentials`, for any number of requests, subprojects, datasets and
tokens, any lives of tokens longer than the margin, and any settings that
`CredentialsAssumption` allows:

| Theorem | States |
|---|---|
| `Invariance` | `Spec => []IInv` |
| `NothingAdded` | what a token or a storage credential gives access to, the user had a right to when it was checked, on IBM for the objects only; a trusted application is behind each token |
| `ServedFresh` | a token of the service that is served from memory has not expired |

`Conferred` alone is not inductive: a token is issued, and a credential handed out, some
awaits after the checks. Its `IInv` adds what a request has established at each
of them: behind every resource it is through with are rights that also cover what
a credential for it will reach (`Checked`, by `Grounded`), nothing is left to check where
something is handed out (`Placed`), tokens are for subprojects (`ForSubs`), and an answer
on its way is not late (`InTime`). The lemma `AllowedGrounds` carries the
argument: on each cloud and under each policy, what lets a request pass covers
all that its credential will reach. Without the part of `CredentialsAssumption` that confines the
policy of access lists per dataset to Azure and Google it would not hold.
TLC checks the two properties in run `credentials`.

`DatasetProofs` proves, for any number of requests, names, storage locations, tags and
lock ids, and any settings (`DatasetAssumption`):

| Theorem | States | Under |
|---|---|---|
| `BaseInvariance` | types, a request at a label of its operation, one writer or readers in a lock | |
| `SessionExclusion` | while a registration runs, nobody else has its lock or mutex | name not in `overrun` |
| `ObjectsKept` | no dataset is listed whose objects were deleted or are being deleted | `NoRewriting` |
| `NothingLeftBehind` | a failed registration leaves no record, nor one on its way | `NoRewriting`, no storage record, name not in `overrun` |
| `OneDataset` | one dataset per name, and nobody's objects are shared | `NoRewriting`; without `enforceKey` `InTurn`, name not in `overrun` |
| `LocationKept` | a registration replaces no record of another | `NoRewriting`, no storage record, name not in `overrun` |
| `NoneIsOrphaned` | with keys of their own the objects of a record stay in somebody's hands until they are deleted, a failed call leaves them or a rollback drops them | no renames |
| `RenameMoves` | a rename that succeeds has moved the dataset | `Alone` |

`NoRewriting` says that no request saves back a record it has read (patch, rename,
putTags, computeSize): these undo deletions, see above, and with one of them the
properties are false. `InTurn` is that registrations have no storage record, `Alone` one
request whose calls do not fail, with `enforce_key`. The invariant has one part for each
hypothesis. `Sessions`: from its lock on, a registration has mutex and lock, unless the
mutex of its name expired under an owner; a name that is not in `overrun` keeps what was
established under it, whatever happens to the others, and this carries through `Orderly`
and `OneName`. `Located`:
a storage location is referred to by one record, by one write that has not landed or by
one registration that has not sent its write, and by none of them once its deletion is sent.
`Orderly`: the name a registration found free stays free until its write has landed, and
what it is about to roll back is its own. `Keyed`: a record has the key of its name or
location. Calls that land late, after their request has failed too, are covered by what
these say of `inflight`.

`SubprojectProofs` proves, for any number of datasets, access lists, tags, buckets and
failures:

| Theorem | States | Under |
|---|---|---|
| `BaseInvariance` | types, and what a request has at each label | |
| `PatchCompletes` | a recursive patch saves its record when no dataset has the old tag | `OneRequest` |
| `RecordIsBacked`, `DatasetsAreBacked` | bucket and groups outlive the record, the bucket the datasets | `OneRequest`, `OneInstance` |
| `NoBucketLost` | without failures every bucket belongs to something | the same |
| `OnlyElsewhereRevived` | without failures only a creation creates, or a patch at another instance than the one that deleted | `OneRequest` |

`Timely` is what the last one rests on: an instance that remembers a record which is gone
is not the one that deleted it, or has yet to forget it while the deletion waits. The
hypotheses cannot be dropped: section 4 has what two requests at once, or the memory
of a second instance, do. One request at a time is next to any number of calls that
earlier ones left behind, and this is what the invariant is about. `Backed`: every
record, entity and copy of one that anyone has, in the journal, in memory or in a
request, refers to buckets and groups that exist and that no call under way deletes
(`Standing`, `Staying`, `Granting`). `Deleting`: what a deletion has not cleared yet has
a call under way that will. `Coherent`: as long as nothing has failed, there is one
bucket that journal, memory and request agree on. `Paged`: the datasets behind a
recursive patch have not the old tag.

`CopyJobProofs` proves, for any number of clients and attempts, and a copy that outlasts
its mutex or not:

| Theorem | States | Under |
|---|---|---|
| `BaseInvariance` | types, and what each request and job has at its label | |
| `CopiesTakeTurns` | two copies never write one destination at once | `Calm` |
| `CopiesAreComplete` | Completed means complete | `OneRequest` or `Calm` |
| `LockedCopyAlone` | no client has a dataset open for write that a copy with locks reads or writes | `past` has nothing that concerns the dataset |

The hypotheses are about what has happened, not about who takes part: any number of
requests, any faults, mutexes that are busy, and locks of clients that expire. `Calm` says
that so far no job has dropped its locks, nobody has deleted the destination and no lock of
the destination has expired under a copy; from the first of these on the properties are
false, as TLC finds within a second. Two cp have both found the destination free. An attempt
of the first fails, in its copy or because the mutex of the source is busy, and drops its
locks; the second cp creates the lock, and the record, again; the retry of the first finds
that record, and copies next to the job of the second, or calls its record Completed.
In the invariant, `InHand` says that a cp or job that is under way has the lock of its
destination, the record with it once there is one, and its read lock unless the source is in
`past` (`Firm`); as a lock has one writer, no two are under way. `Finished` says that a job
about to report has copied everything, under its own record; `Openings` that a client with a
dataset open for write has its lock, unless that of the dataset was lost.

`AccessProofs` proves, for any number of requests, instances, users, groups and access
lists and any length of the memory (`AccessAssumption`):

| Theorem | States |
|---|---|
| `Invariance` | `Spec => []IInv` |
| `SuccessIsTrue` | an addition or removal answered with success holds, unless another request touched its user |
| `NobodyTurnedAway` | no decision in memory turns away a user who has access |
| `LossIsNoticed` | no decision lets in for longer than it is remembered |

Its invariant follows each call: a group of an addition has a task or the user in it
(`Adding`); a group of a removal is still to be visited, or without the user, or the
request knows why not (`Removing`); an answer that is about to be used was given in this
tick (`Asking`); and a decision in memory has no more time left than the loss of the
access, if there was one, allows (`Remembered`, `Counted`).

`StorageProofs` proves, for any number of calls at a time, subprojects, datasets and
objects, pages of any size, requests that fail or not, and all settings:

| Theorem | States |
|---|---|
| `Invariance` | `Spec => []IInv` |
| `OthersKept` | no deletion takes an object of another |
| `CopiesComplete` | a copy that succeeded is complete (Google, Azure) |
| `NothingRemains` | a deletion that succeeded, of which nothing failed, leaves nothing (all but IBM) |

`OthersKeepObjects` and the others are about the end of a call; the invariant is about
its middle. `Aimed`: what a call has found and sent is under the place it is for, and a
container is dropped only where the deletion of all its datasets was asked for, which
needs `Housed`. `Minded`: each of a call's objects that has been there all the time
comes on a later page (`Ahead`), or is `Doomed` by a request under way, or `Copied`. For
listings with a cursor this rests on the order of the items, for those that begin again,
as on AWS, on the page being taken from what is there. The lemma `PlansAre` states what
all methods of the five clouds have in common, and everything after it is about plans,
not clouds.

Each proof module has a section per part of its invariant, with a lemma for every action
or group of actions that the part is exposed to; steps elsewhere are dealt with by one
lemma that says what they leave alone. TLC explored each `IInv` on the instances of the
runs before it was proved.

Checked by TLC only: liveness (`MutexFreed`, `WriteLockEnds`, `CopySettles`,
`LockReturned`) and everything that needs ENABLED, which the prover does
not support. All invariants and action properties that a passing run checks are stated by
theorems. `RolledBack` and
`CopyExcludesWriters` are violated by the code. No module uses a RECURSIVE operator.

## 6. Not modelled, and the plan

`PROJECT.json` lists every component with its status. The operations that only read
(get, exists, sizes, checkCTag, permission, list of subprojects, folders in `ls`) and
the status service change no state. Compliance, DES and user association are single
remote calls; they appear as a choice to refuse or fail. Schema managers, the Cosmos
sidecar, deployment files and file metadata keep no state. The wiring of the
server and its configuration, the lookup of secrets, the formats of tokens,
signatures and requests are left out. The Cosmos migrator is a script that is
run once beside the service.

What could follow:

1. The caches of sdms-v4, and the migrator with its pages, continuation and restart.
2. Two requests at a time in `Subproject`, composed with `Tenant`.
3. `Journal`'s queued transaction shown to implement an atomic one where it does
   (Datastore), and the atomic calls of `Dataset` shown to be `Journal`'s.
4. Theorems: the refinement of item 3.
