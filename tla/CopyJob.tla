------------------------------- MODULE CopyJob -------------------------------
(***************************************************************************)
(* Copying a dataset: the cp request of services/utility/handler.ts and    *)
(* the Bull worker of cloud/shared/queue.ts.                               *)
(*                                                                         *)
(* cp registers the destination, hands a job to the queue and leaves it    *)
(* the locks; the worker copies the objects, records the outcome and       *)
(* unlocks.  Bull runs a job that fails again, from its beginning.  Other  *)
(* clients use source and destination meanwhile.                           *)
(***************************************************************************)
EXTENDS Naturals, FiniteSets

CONSTANTS
  Proc,         \* cp requests that run at the same time; each has its job
  Client,       \* other clients of the two datasets
  Attempts,     \* RETRY_MAX_ATTEMPTS
  Sharing,      \* do clients open the source for read, too?
  Settings,     \* what else may happen: the settings explored
  LongCopy,     \* may a copy outlast the mutex of the locker (6 s)?
  Patient,      \* do the attempts of a job outlast a mutex that is held?
  Nil

\* the two datasets, and what the worker takes for the source: queue.ts
\* builds that key with the name of the destination
Dataset == {"source", "destination"}

\* lock ids: those a cp obtains, and those a client obtains
WriteId == {"W"} \X (Proc \cup Client)
ReadId  == {"R"} \X (Proc \cup Client)
Id      == WriteId \cup ReadId

CpOwner(p)  == <<"cp", p>>
JobOwner(p) == <<"job", p>>
Owner       == {"cp", "job"} \X Proc
Leaked      == <<"leaked">>

Setting ==
  [requests : SUBSET Proc,     \* the cp requests that are made
   withLock : SUBSET BOOLEAN,  \* what they say of the lock parameter
   deleting : BOOLEAN,         \* do clients delete the destination?
   expiring : SUBSET Dataset,  \* whose locks may expire?
   copyFails : BOOLEAN,        \* may the storage fail while the worker copies?
   \* other calls to the journal, DES or the queue that may fail; "busy": may the
   \* locker give up on a mutex that calls of others hold?
   faults : SUBSET {"save", "add", "get", "complete", "abort", "busy"}]

ASSUME CopyAssumption ==
  /\ Attempts \in Nat \ {0}
  /\ Settings \subseteq Setting
  /\ Proc \cap Client = {}
  /\ Nil \notin Proc \cup Client \cup Owner \cup {Leaked}
  /\ {Sharing, LongCopy, Patient} \subseteq BOOLEAN

VARIABLES
  lock,     \* ids that hold the lock of each dataset
  mutex,    \* owner of the mutex of the destination
  to,       \* the record of the destination, Nil when there is none
  objects,  \* the objects at the location each cp has chosen
  cp,       \* the next await of each cp
  option,   \* its lock parameter
  saw,      \* did it see the destination write locked?
  job,      \* the next await of each job
  tries,    \* attempts it has left
  reader,   \* the read lock id it was given, or Nil
  mine,     \* the record of the destination it has read
  open,     \* datasets that clients have opened for write
  past,     \* history: what has taken locks from a copy, or its destination
  setting   \* the setting of this behaviour

locks == <<lock, mutex>>
cpv   == <<cp, option, saw>>
jobv  == <<job, tries, reader, mine>>
vars  == <<locks, to, objects, cpv, jobv, open, past, setting>>

\* a job has dropped its locks; the destination was deleted; a lock of a copy
\* under way has expired, or a copy without a lock has unlocked the source
Event == {"dropped", "deleted"} \cup Dataset

Status == {"InProgress", "Completed", "Aborted"}

\* gcsurl: the location chosen by a cp; sbit: the lock DatasetDAO reads along
Record == [status : Status, gcsurl : Proc]
Read   == [status : Status, gcsurl : Proc, sbit : SUBSET Id]

\* nothing is not a record or a lock id
ASSUME NilAssumption == Nil \notin Record \cup Read \cup Id

CpLabel  == {"idle", "find", "create", "source", "readLock", "legal", "save",
             "add", "keep", "drop", "dropLock"}
JobLabel == {"none", "waiting", "get", "copy", "complete", "release",
             "unlockSource", "unlockDest", "dropLocks", "free", "abort"}

\* the labels at which a cp has the mutex
Busy == {"source", "readLock", "legal", "save", "add", "keep", "drop"}

TypeOK ==
  /\ lock \in [Dataset -> SUBSET Id]
  /\ mutex \in Owner \cup {Nil, Leaked}
  /\ to \in Record \cup {Nil}
  /\ objects \in [Proc -> {"none", "part", "all"}]
  /\ cp \in [Proc -> CpLabel]
  /\ option \in [Proc -> BOOLEAN]
  /\ saw \in [Proc -> BOOLEAN]
  /\ job \in [Proc -> JobLabel]
  /\ tries \in [Proc -> 0 .. Attempts]
  /\ reader \in [Proc -> ReadId \cup {Nil}]
  /\ mine \in [Proc -> Read \cup {Nil}]
  /\ open \in SUBSET (Client \X Dataset)
  /\ past \in SUBSET Event
  /\ setting \in Settings

Init ==
  /\ lock = [d \in Dataset |-> {}]
  /\ mutex = Nil /\ to = Nil
  /\ objects = [p \in Proc |-> "none"]
  /\ cp = [p \in Proc |-> "idle"]
  /\ option = [p \in Proc |-> FALSE]
  /\ saw = [p \in Proc |-> FALSE]
  /\ job = [p \in Proc |-> "none"]
  /\ tries = [p \in Proc |-> 0]
  /\ reader = [p \in Proc |-> Nil]
  /\ mine = [p \in Proc |-> Nil]
  /\ open = {} /\ past = {}
  /\ setting \in Settings

WriteLocked(d) == lock[d] \cap WriteId # {}

\* the effect of Locker.unlock with an id, or without one
Unlocked(d, id) == IF id = Nil THEN {} ELSE lock[d] \ {id}

\* Locker.unlock answers 404 to an id that does not hold the lock
Refuses(d, id) == id # Nil /\ lock[d] # {} /\ id \notin lock[d]

-----------------------------------------------------------------------------
(* The cp request.                                                         *)

Goto(p, l) == cp' = [cp EXCEPT ![p] = l]

\* the source exists and may be read; is the destination locked?
Cp(p) ==
  /\ p \in setting.requests
  /\ cp[p] = "idle" /\ job[p] = "none"
  /\ to # Nil => to.gcsurl # p
  /\ \A d \in Dataset : <<"W", p>> \notin lock[d] /\ <<"R", p>> \notin lock[d]
  /\ \E o \in setting.withLock : option' = [option EXCEPT ![p] = o]
  /\ saw' = [saw EXCEPT ![p] = WriteLocked("destination")]
  /\ objects' = [objects EXCEPT ![p] = "none"]
  /\ Goto(p, "find")
  /\ UNCHANGED <<locks, to, jobv, open, past, setting>>

\* a dataset or a write lock that is there already is the answer
Find(p) ==
  /\ cp[p] = "find"
  /\ Goto(p, IF to = Nil /\ ~saw[p] THEN "create" ELSE "idle")
  /\ UNCHANGED <<locks, to, objects, option, saw, jobv, open, past, setting>>

\* createWriteLock; a refusal leaks the mutex
CreateWriteLock(p) ==
  /\ cp[p] = "create"
  /\ \/ /\ mutex = Nil /\ lock["destination"] = {}
        /\ lock' = [lock EXCEPT !["destination"] = {<<"W", p>>}]
        /\ mutex' = CpOwner(p)
        /\ Goto(p, "source")
     \/ /\ mutex = Nil /\ lock["destination"] # {}
        /\ mutex' = Leaked
        /\ Goto(p, "idle")
        /\ UNCHANGED lock
     \/ /\ mutex # Nil
        /\ Goto(p, "idle")
        /\ UNCHANGED locks
  /\ UNCHANGED <<to, objects, option, saw, jobv, open, past, setting>>

\* no copy of a dataset that is open for write
Source(p) ==
  /\ cp[p] = "source"
  /\ Goto(p, IF WriteLocked("source") THEN "drop"
             ELSE IF option[p] THEN "readLock" ELSE "legal")
  /\ UNCHANGED <<locks, to, objects, option, saw, jobv, open, past, setting>>

\* acquireReadLock, which needs the mutex of the source for a moment
ReadLock(p) ==
  /\ cp[p] = "readLock"
  /\ \/ /\ ~WriteLocked("source")
        /\ lock' = [lock EXCEPT !["source"] = @ \cup {<<"R", p>>}]
        /\ reader' = [reader EXCEPT ![p] = <<"R", p>>]
        /\ Goto(p, "legal")
     \/ /\ WriteLocked("source") \/ "busy" \in setting.faults
        /\ Goto(p, "drop")
        /\ UNCHANGED <<lock, reader>>
  /\ UNCHANGED <<mutex, to, objects, option, saw, job, tries, mine, open, past, setting>>

Legal(p) ==
  /\ cp[p] = "legal"
  /\ Goto(p, "save") \/ Goto(p, "drop")
  /\ UNCHANGED <<locks, to, objects, option, saw, jobv, open, past, setting>>

\* DatasetDAO.register, and the storage record of the copy
Save(p) ==
  /\ cp[p] = "save"
  /\ \/ /\ to' = [status |-> "InProgress", gcsurl |-> p]
        /\ Goto(p, "add") \/ ("save" \in setting.faults /\ Goto(p, "drop"))
     \/ /\ "save" \in setting.faults
        /\ Goto(p, "drop") /\ UNCHANGED to
  /\ UNCHANGED <<locks, objects, option, saw, jobv, open, past, setting>>

Add(p) ==
  /\ cp[p] = "add"
  /\ \/ /\ job' = [job EXCEPT ![p] = "waiting"]
        /\ tries' = [tries EXCEPT ![p] = Attempts]
        /\ Goto(p, "keep")
     \/ /\ "add" \in setting.faults
        /\ Goto(p, "drop")
        /\ UNCHANGED <<job, tries>>
  /\ UNCHANGED <<locks, to, objects, option, saw, reader, mine, open, past, setting>>

Release(o) == mutex' = IF mutex = o THEN Nil ELSE mutex

\* a slip: without the flag that keeps the lock
Keep_DropsLock(p) ==
  /\ cp[p] = "keep"
  /\ Release(CpOwner(p))
  /\ lock' = [lock EXCEPT !["destination"] = {}]
  /\ Goto(p, "idle")
  /\ UNCHANGED <<to, objects, option, saw, jobv, open, past, setting>>

\* The mutex goes, the locks stay for the worker.  releaseMutex rejects nothing, so
\* the catch block never has a job to remove from the queue.
Keep(p) ==
  /\ cp[p] = "keep"
  /\ Release(CpOwner(p))
  /\ Goto(p, "idle")
  /\ UNCHANGED <<lock, to, objects, option, saw, jobv, open, past, setting>>

Drop(p) ==
  /\ cp[p] = "drop"
  /\ Release(CpOwner(p))
  /\ Goto(p, "dropLock")
  /\ UNCHANGED <<lock, to, objects, option, saw, jobv, open, past, setting>>

\* the read lock of the source and the record, if any, are left behind
DropLock(p) ==
  /\ cp[p] = "dropLock"
  /\ lock' = [lock EXCEPT !["destination"] = {}]
  /\ reader' = [reader EXCEPT ![p] = Nil]
  /\ Goto(p, "idle")
  /\ UNCHANGED <<mutex, to, objects, option, saw, job, tries, mine, open, past, setting>>

-----------------------------------------------------------------------------
(* The worker.                                                             *)

Do(p, l) == job' = [job EXCEPT ![p] = l]

\* a failed attempt: Bull runs the job again until its attempts are used up
Fail(p) ==
  /\ tries' = [tries EXCEPT ![p] = @ - 1]
  /\ mine' = [mine EXCEPT ![p] = Nil]
  /\ IF tries[p] > 1
     THEN Do(p, "waiting") /\ UNCHANGED reader
     ELSE Do(p, "none") /\ reader' = [reader EXCEPT ![p] = Nil]

\* acquireMutex throws after its own retries (2 s): no second call is made.
\* Ten attempts of 2 s outlast one holder of a mutex that expires after 6 s.
JobMutex(p) ==
  /\ job[p] = "waiting"
  /\ \/ /\ mutex = Nil
        /\ mutex' = JobOwner(p)
        /\ Do(p, "get")
        /\ UNCHANGED <<tries, reader, mine>>
     \/ /\ mutex # Nil
        /\ Patient => tries[p] > 1
        /\ Fail(p)
        /\ UNCHANGED mutex
  /\ UNCHANGED <<lock, to, objects, cpv, open, past, setting>>

JobGet(p) ==
  /\ job[p] = "get"
  /\ \/ /\ to = Nil \/ "get" \in setting.faults
        /\ Do(p, "dropLocks") /\ UNCHANGED mine
     \/ /\ to # Nil
        /\ mine' = [mine EXCEPT ![p] = [status |-> to.status, gcsurl |-> to.gcsurl,
                                        sbit |-> lock["destination"]]]
        /\ Do(p, "copy")
  /\ UNCHANGED <<locks, to, objects, cpv, tries, reader, open, past, setting>>

\* a slip: storage.copy is not awaited
Copied_NotAwaited(p) ==
  /\ job[p] = "copy"
  /\ objects' = [objects EXCEPT ![p] = "part"]
  /\ Do(p, "complete")
  /\ UNCHANGED <<locks, to, cpv, tries, reader, mine, open, past, setting>>

\* storage.copy, to the location the cp has chosen
Copied(p) ==
  /\ job[p] = "copy"
  /\ \/ objects' = [objects EXCEPT ![p] = "all"] /\ Do(p, "complete")
     \/ /\ setting.copyFails
        /\ objects' = [objects EXCEPT ![p] = IF @ = "all" THEN @ ELSE "part"]
        /\ Do(p, "dropLocks")
  /\ UNCHANGED <<locks, to, cpv, tries, reader, mine, open, past, setting>>

Marked(p, s) == [status |-> s, gcsurl |-> mine[p].gcsurl]

\* DatasetDAO.update with the record read before the copy
Complete(p) ==
  /\ job[p] = "complete"
  /\ mine' = [mine EXCEPT ![p].status = "Completed"]
  /\ \/ to' = Marked(p, "Completed") /\ Do(p, "release")
     \/ "complete" \in setting.faults /\ Do(p, "dropLocks") /\ UNCHANGED to
  /\ UNCHANGED <<locks, objects, cpv, tries, reader, open, past, setting>>

JobRelease(p) ==
  /\ job[p] = "release"
  /\ Release(JobOwner(p))
  /\ Do(p, "unlockSource")
  /\ UNCHANGED <<lock, to, objects, cpv, tries, reader, mine, open, past, setting>>

\* Without a read lock id this is the global unlock of the source.  It needs the
\* mutex of the source, too, and fails the job when others hold it.
UnlockSource(p) ==
  /\ job[p] = "unlockSource"
  /\ \/ /\ ~Refuses("source", reader[p])
        /\ lock' = [lock EXCEPT !["source"] = Unlocked("source", reader[p])]
        /\ past' = past \cup {e \in {"source"} : reader[p] = Nil}
        /\ Do(p, "unlockDest")
     \/ /\ Refuses("source", reader[p]) \/ "busy" \in setting.faults
        /\ Do(p, "dropLocks") /\ UNCHANGED <<lock, past>>
  /\ UNCHANGED <<mutex, to, objects, cpv, tries, reader, mine, open, setting>>

\* a slip: the last unlock is missing
UnlockDest_Missing(p) ==
  /\ job[p] = "unlockDest"
  /\ Do(p, "none")
  /\ reader' = [reader EXCEPT ![p] = Nil]
  /\ mine' = [mine EXCEPT ![p] = Nil]
  /\ UNCHANGED <<locks, to, objects, cpv, tries, open, past, setting>>

\* with the id that held the lock when the record was read
UnlockDest(p) ==
  LET lost == mine[p].sbit # {} /\ lock["destination"] # {}
              /\ mine[p].sbit \cap lock["destination"] = {}
  IN /\ job[p] = "unlockDest"
     /\ \/ /\ mutex = Nil /\ ~lost
           /\ lock' = [lock EXCEPT !["destination"] = {}]
           /\ Do(p, "none")
           /\ reader' = [reader EXCEPT ![p] = Nil]
           /\ mine' = [mine EXCEPT ![p] = Nil]
        \/ /\ mutex # Nil \/ lost \/ "busy" \in setting.faults
           /\ Do(p, "dropLocks") /\ UNCHANGED <<lock, reader, mine>>
     /\ UNCHANGED <<mutex, to, objects, cpv, tries, open, past, setting>>

\* the catch block: Locker.del of the destination, and of a key that is the
\* source's only when both datasets have the same name
DropLocks(p) ==
  /\ job[p] = "dropLocks"
  /\ \/ lock' = [lock EXCEPT !["destination"] = {}]
     \/ lock' = [d \in Dataset |-> {}]
  /\ past' = past \cup {"dropped"}
  /\ Do(p, "free")
  /\ UNCHANGED <<mutex, to, objects, cpv, tries, reader, mine, open, setting>>

JobFree(p) ==
  /\ job[p] = "free"
  /\ Release(JobOwner(p))
  /\ IF mine[p] = Nil THEN Fail(p)
                      ELSE Do(p, "abort") /\ UNCHANGED <<tries, reader, mine>>
  /\ UNCHANGED <<lock, to, objects, cpv, open, past, setting>>

\* a slip: the status is set, but not written back
JobAbort_NotSaved(p) ==
  /\ job[p] = "abort"
  /\ Fail(p)
  /\ UNCHANGED <<locks, to, objects, cpv, open, past, setting>>

\* the record read before the copy is written back as Aborted
JobAbort(p) ==
  /\ job[p] = "abort"
  /\ to' = Marked(p, "Aborted") \/ ("abort" \in setting.faults /\ UNCHANGED to)
  /\ Fail(p)
  /\ UNCHANGED <<locks, objects, cpv, open, past, setting>>

-----------------------------------------------------------------------------
(* Other clients, and the clock.                                           *)

\* Locker.acquireWriteLock
OpenWrite(c, d) ==
  /\ lock[d] = {}
  /\ d = "destination" => mutex = Nil /\ to # Nil
  /\ lock' = [lock EXCEPT ![d] = {<<"W", c>>}]
  /\ open' = open \cup {<<c, d>>}
  /\ UNCHANGED <<mutex, to, objects, cpv, jobv, past, setting>>

CloseWrite(c, d) ==
  /\ <<c, d>> \in open
  /\ d = "destination" => mutex = Nil
  /\ lock' = [lock EXCEPT ![d] = @ \ {<<"W", c>>}]
  /\ open' = open \ {<<c, d>>}
  /\ UNCHANGED <<mutex, to, objects, cpv, jobv, past, setting>>

ShareSource(c) ==
  /\ Sharing
  /\ \/ /\ ~WriteLocked("source")
        /\ lock' = [lock EXCEPT !["source"] = @ \cup {<<"R", c>>}]
     \/ /\ <<"R", c>> \in lock["source"]
        /\ lock' = [lock EXCEPT !["source"] = @ \ {<<"R", c>>}]
  /\ UNCHANGED <<mutex, to, objects, cpv, jobv, open, past, setting>>

\* DatasetHandler.delete, which does not look at the lock
DeleteDest(c) ==
  /\ setting.deleting
  /\ to # Nil
  /\ to' = Nil
  /\ IF mutex = Nil
     THEN lock' = [lock EXCEPT !["destination"] = {}]
     ELSE UNCHANGED lock
  /\ open' = open \ (Client \X {"destination"})
  /\ past' = past \cup {"deleted"}
  /\ UNCHANGED <<mutex, objects, cpv, jobv, setting>>

ExpireMutex ==
  /\ \/ mutex = Leaked
     \/ LongCopy /\ \E p \in Proc : mutex = JobOwner(p) /\ job[p] = "copy"
  /\ mutex' = Nil
  /\ UNCHANGED <<lock, to, objects, cpv, jobv, open, past, setting>>

\* from its lock to its outcome, a copy is under way
Holding(p) == cp[p] \in Busy \cup {"dropLock"} \/ job[p] # "none"

\* A lock has a fixed TTL (a read lock an hour, a write lock a day) that nothing
\* renews, and a job may wait in the queue for longer: the queue starts 100 jobs
\* in ten minutes.  A client whose lock has gone knows that its session is over.
ExpireLock(d, id) ==
  /\ d \in setting.expiring /\ id \in lock[d]
  /\ lock' = [lock EXCEPT ![d] = @ \ {id}]
  /\ open' = {s \in open : s # <<id[2], d>>}
  /\ past' = past \cup {e \in {d} : \E p \in Proc : id[2] = p /\ Holding(p)}
  /\ UNCHANGED <<mutex, to, objects, cpv, jobv, setting>>

CpStep(p) == \/ Find(p) \/ CreateWriteLock(p) \/ Source(p) \/ ReadLock(p)
             \/ Legal(p) \/ Save(p) \/ Add(p) \/ Keep(p) \/ Drop(p)
             \/ DropLock(p)

JobStep(p) == \/ JobMutex(p) \/ JobGet(p) \/ Copied(p) \/ Complete(p)
              \/ JobRelease(p) \/ UnlockSource(p) \/ UnlockDest(p)
              \/ DropLocks(p) \/ JobFree(p) \/ JobAbort(p)

ClientStep(c) == \/ \E d \in Dataset : OpenWrite(c, d) \/ CloseWrite(c, d)
                 \/ ShareSource(c) \/ DeleteDest(c)

Next == \/ \E p \in Proc : Cp(p) \/ CpStep(p) \/ JobStep(p)
        \/ \E c \in Client : ClientStep(c)
        \/ ExpireMutex \/ \E d \in Dataset, id \in Id : ExpireLock(d, id)

Spec == Init /\ [][Next]_vars

\* requests and jobs go on, and a mutex without an owner expires; Bull keeps
\* its jobs in Redis.  Clients owe nothing.
Fairness ==
  /\ \A p \in Proc : WF_vars(CpStep(p)) /\ SF_vars(JobStep(p))
  /\ WF_vars(ExpireMutex)

LiveSpec == Spec /\ Fairness

-----------------------------------------------------------------------------
(* Properties.                                                             *)

\* "Lock source and destination while copying" (openapi.osdu.yaml:1083):
\* while a job copies, no client has one of the two open for write.
CopyExcludesWriters ==
  \A p \in Proc : job[p] = "copy" /\ option[p] =>
    \A c \in Client, d \in Dataset : <<c, d>> \notin open

\* ... which is so until a job has dropped its locks, somebody has deleted the
\* destination, the lock has expired under the copy or a copy that was not asked to
\* lock has unlocked the source: the locks that cp took are still there when the job
\* runs (utility handler.ts:420-436, 500), although its mutex expires and its first
\* attempts may not get it.
KeptLocksExcludeWriters ==
  \A p \in Proc, d \in Dataset :
    job[p] = "copy" /\ option[p] /\ past \subseteq {"source"} \ {d} =>
      \A c \in Client : <<c, d>> \notin open

\* nothing has taken the destination or its lock from a copy
Calm == past \subseteq {"source"}

OneRequest == \A p, q \in setting.requests : p = q

\* A dataset reported as Completed has all its objects (queue.ts:143-148): with
\* one request whatever happens, with several as long as each keeps its lock.
CompletedIsComplete ==
  /\ TypeOK
  /\ OneRequest \/ Calm =>
       (to # Nil => (to.status = "Completed" => objects[to.gcsurl] = "all"))

\* Two copies do not write the same destination at the same time, although a copy
\* outlasts the mutex its job holds (queue.ts:103-112, 143), as long as each keeps
\* the lock of the destination: the second cp finds the first one's lock or record
\* (utility handler.ts:378-418).
OneCopy ==
  Calm => \A p, q \in Proc : p # q =>
    ~(job[p] \in {"copy", "complete"} /\ job[q] \in {"copy", "complete"})

\* A copy does not stay InProgress: the worker records how it ended
\* (queue.ts:145-148, 176-181).
CopySettles ==
  (to # Nil /\ to.status = "InProgress" /\ setting.faults \subseteq {"complete", "busy"})
    ~> (to = Nil \/ to.status # "InProgress")

\* The lock a cp leaves to the worker does not stay on the destination.
LockReturned ==
  \A p \in Proc : <<"W", p>> \in lock["destination"]
                  ~> <<"W", p>> \notin lock["destination"]

-----------------------------------------------------------------------------
(* What these rest on.                                                     *)

\* where a request and its job stand, and what they have by then
Standing(p) ==
  /\ p \notin setting.requests => cp[p] = "idle" /\ job[p] = "none"
  /\ cp[p] \in Busy <=> mutex = CpOwner(p)
  /\ job[p] # "none" => cp[p] = "idle" \/ (cp[p] = "keep" /\ job[p] = "waiting")
  /\ mutex = JobOwner(p) => job[p] \in {"get", "copy", "complete", "release",
                                        "dropLocks", "free"}
  /\ job[p] \in {"none", "waiting", "get"} => mine[p] = Nil
  /\ job[p] \in {"copy", "complete", "release", "unlockSource", "unlockDest",
                 "abort"} => mine[p] # Nil
  /\ job[p] # "none" => tries[p] > 0
  /\ option[p] \in setting.withLock \/ (cp[p] = "idle" /\ job[p] = "none")
  /\ reader[p] \in {Nil, <<"R", p>>}
  /\ job[p] = "none" /\ cp[p] \in {"idle", "find", "create", "source", "readLock", "keep"}
       => reader[p] = Nil
  /\ option[p] /\ (job[p] # "none" \/ cp[p] \in {"legal", "save", "add"})
       => reader[p] = <<"R", p>>
  /\ mine[p] # Nil => mine[p].gcsurl \in setting.requests

\* a lock is one writer's or any number of readers'
LockShape == \A d \in Dataset : lock[d] \subseteq ReadId \/ \E w \in WriteId : lock[d] = {w}

Based == /\ TypeOK /\ LockShape
         /\ to # Nil => to.gcsurl \in setting.requests
         /\ \A p \in Proc : Standing(p)

\* what a copy says of the objects
Finished ==
  /\ to # Nil => (to.status = "Completed" => objects[to.gcsurl] = "all")
  /\ \A p \in Proc : job[p] = "complete" => objects[p] = "all"
  /\ \A p \in Proc : mine[p] # Nil => mine[p].gcsurl = p

\* a copy has the lock of its destination, and that of its source unless it expired
Firm(p) ==
  /\ lock["destination"] = {<<"W", p>>}
  /\ mine[p] # Nil => mine[p].sbit = {<<"W", p>>}
  /\ reader[p] # Nil /\ job[p] \notin {"unlockDest", "dropLocks"}
       => reader[p] \in lock["source"] \/ "source" \in past

InHandOf(p) ==
  /\ cp[p] \in {"add", "keep"} \/ job[p] # "none" => to # Nil /\ to.gcsurl = p
  /\ mine[p] # Nil => mine[p].gcsurl = p
  /\ job[p] \notin {"free", "abort"}
  /\ Holding(p) => Firm(p)

InHand == \A p \in Proc : InHandOf(p)

\* a client that has a dataset open for write has its lock
Openings ==
  \A c \in Client, d \in Dataset : <<c, d>> \in open => <<"W", c>> \in lock[d] \/ d \in past

IInv == /\ Based
        /\ OneRequest \/ Calm => Finished
        /\ Calm => InHand /\ Openings
=============================================================================
