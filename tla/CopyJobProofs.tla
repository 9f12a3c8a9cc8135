---------------------------- MODULE CopyJobProofs ----------------------------
(***************************************************************************)
(* Theorems about CopyJob, for any number of cp requests for one           *)
(* destination, of other clients and of attempts, whichever calls fail and *)
(* whether a copy outlasts its mutex or not.                               *)
(***************************************************************************)
EXTENDS CopyJob, TLAPS

-----------------------------------------------------------------------------
(* Types, and where each request and its job stand.                        *)

LEMMA Owners ==
  /\ \A p, q \in Proc : CpOwner(p) # JobOwner(q)
  /\ \A p, q \in Proc : CpOwner(p) = CpOwner(q) => p = q
  /\ \A p, q \in Proc : JobOwner(p) = JobOwner(q) => p = q
  /\ \A p \in Proc : CpOwner(p) \in Owner /\ JobOwner(p) \in Owner
  /\ \A p \in Proc : CpOwner(p) # Leaked /\ JobOwner(p) # Leaked
  /\ Nil \notin Owner /\ Nil # Leaked
  BY CopyAssumption DEF CpOwner, JobOwner, Owner, Leaked

LEMMA Ids ==
  /\ \A p \in Proc \cup Client : <<"W", p>> \in WriteId /\ <<"R", p>> \in ReadId
  /\ \A p, q \in Proc \cup Client : <<"W", p>> = <<"W", q>> => p = q
  /\ \A p, q \in Proc \cup Client : <<"R", p>> = <<"R", q>> => p = q
  /\ WriteId \cap ReadId = {} /\ Nil \notin WriteId \cup ReadId
  BY NilAssumption DEF WriteId, ReadId, Id

\* a step of p leaves what others have
OthersStay(p) ==
  \A q \in Proc \ {p} :
    /\ cp'[q] = cp[q] /\ option'[q] = option[q] /\ saw'[q] = saw[q]
    /\ job'[q] = job[q] /\ tries'[q] = tries[q]
    /\ reader'[q] = reader[q] /\ mine'[q] = mine[q]

\* ... and takes the mutex when it is free, leaks it or gives its own back
MutexMoves(p) ==
  \/ mutex' = mutex
  \/ mutex = Nil /\ mutex' \in {CpOwner(p), JobOwner(p), Leaked}
  \/ mutex \in {CpOwner(p), JobOwner(p)} /\ mutex' = Nil

LEMMA OthersStand ==
  ASSUME Based, NEW p \in Proc, OthersStay(p), MutexMoves(p), setting' = setting,
         NEW q \in Proc, q # p
  PROVE  Standing(q)'
  BY Owners DEF Based, Standing, OthersStay, MutexMoves

LEMMA StepBased ==
  ASSUME Based, NEW p \in Proc, OthersStay(p), MutexMoves(p), setting' = setting,
         TypeOK', LockShape', to' # Nil => to'.gcsurl \in setting.requests, Standing(p)'
  PROVE  Based'
  BY OthersStand DEF Based

LEMMA ShapeStays ==
  ASSUME Based, \A d \in Dataset : lock'[d] \subseteq lock[d] PROVE LockShape'
  <1>1. ASSUME NEW d \in Dataset
        PROVE  lock'[d] \subseteq ReadId \/ \E w \in WriteId : lock'[d] = {w}
    <2>1. lock'[d] = {} \/ lock[d] \subseteq ReadId \/ lock'[d] = lock[d]
      BY DEF Based, LockShape
    <2>2. QED
      BY <2>1 DEF Based, LockShape
  <1>2. QED
    BY <1>1 DEF LockShape

LEMMA CpBased ==
  ASSUME Based, NEW p \in Proc, Cp(p) PROVE Based'
  <1>1. OthersStay(p) /\ MutexMoves(p) /\ setting' = setting
    BY DEF Cp, Goto, Release, OthersStay, MutexMoves, locks, jobv, cpv, Based, TypeOK
  <1>2. TypeOK'
    <2>1. setting \in Setting
      BY CopyAssumption DEF Based, TypeOK
    <2>2. PICK o \in setting.withLock : option' = [option EXCEPT ![p] = o]
      BY DEF Cp
    <2>3. o \in BOOLEAN /\ WriteLocked("destination") \in BOOLEAN
      BY <2>1, <2>2 DEF Setting, WriteLocked
    <2>4. QED
      BY <2>2, <2>3 DEF Cp, Goto, locks, jobv, Based, TypeOK, CpLabel
  <1>3. LockShape'
    BY Ids DEF Cp, locks, Based, TypeOK, LockShape, Dataset, WriteLocked, Id
  <1>4. to' # Nil => to'.gcsurl \in setting.requests
    BY DEF Cp, Based, Standing
  <1>5. Standing(p)'
    BY Owners, Ids, CopyAssumption
    DEF Cp, Goto, Release, locks, jobv, cpv, Based, TypeOK, Standing, Busy
  <1>6. QED
    BY <1>1, <1>2, <1>3, <1>4, <1>5, StepBased

LEMMA FindBased ==
  ASSUME Based, NEW p \in Proc, Find(p) PROVE Based'
  <1>1. OthersStay(p) /\ MutexMoves(p) /\ setting' = setting
    BY DEF Find, Goto, Release, OthersStay, MutexMoves, locks, jobv, cpv, Based, TypeOK
  <1>2. TypeOK'
    BY Owners, Ids
    DEF Find, Goto, Release, locks, jobv, cpv, Based, TypeOK, CpLabel, JobLabel, Dataset,
        Record, Status, Id, Setting
  <1>3. LockShape'
    BY Ids DEF Find, locks, Based, TypeOK, LockShape, Dataset, WriteLocked, Id
  <1>4. to' # Nil => to'.gcsurl \in setting.requests
    BY DEF Find, Based, Standing
  <1>5. Standing(p)'
    BY Owners, Ids, CopyAssumption
    DEF Find, Goto, Release, locks, jobv, cpv, Based, TypeOK, Standing, Busy
  <1>6. QED
    BY <1>1, <1>2, <1>3, <1>4, <1>5, StepBased

LEMMA CreateWriteLockBased ==
  ASSUME Based, NEW p \in Proc, CreateWriteLock(p) PROVE Based'
  <1>1. OthersStay(p) /\ MutexMoves(p) /\ setting' = setting
    BY DEF CreateWriteLock, Goto, Release, OthersStay, MutexMoves, locks, jobv, cpv,
              Based, TypeOK
  <1>2. TypeOK'
    <2>1. {<<"W", p>>} \in SUBSET Id
      BY Ids DEF Id
    <2>2. lock' \in [Dataset -> SUBSET Id]
      BY <2>1 DEF CreateWriteLock, locks, Based, TypeOK, Dataset
    <2>3. mutex' \in Owner \cup {Nil, Leaked}
      BY Owners DEF CreateWriteLock, locks, Based, TypeOK
    <2>4. cp' \in [Proc -> CpLabel]
      BY DEF CreateWriteLock, Goto, CpLabel, Based, TypeOK
    <2>5. QED
      BY <2>2, <2>3, <2>4 DEF CreateWriteLock, jobv, Based, TypeOK
  <1>3. LockShape'
    BY Ids DEF CreateWriteLock, locks, Based, TypeOK, LockShape, Dataset, WriteLocked, Id
  <1>4. to' # Nil => to'.gcsurl \in setting.requests
    BY DEF CreateWriteLock, Based, Standing
  <1>5. Standing(p)'
    BY Owners, Ids, CopyAssumption
    DEF CreateWriteLock, Goto, Release, locks, jobv, cpv, Based, TypeOK, Standing, Busy
  <1>6. QED
    BY <1>1, <1>2, <1>3, <1>4, <1>5, StepBased

LEMMA SourceBased ==
  ASSUME Based, NEW p \in Proc, Source(p) PROVE Based'
  <1>1. OthersStay(p) /\ MutexMoves(p) /\ setting' = setting
    BY DEF Source, Goto, Release, OthersStay, MutexMoves, locks, jobv, cpv, Based, TypeOK
  <1>2. TypeOK'
    BY Owners, Ids
    DEF Source, Goto, Release, locks, jobv, cpv, Based, TypeOK, CpLabel, JobLabel, Dataset,
        Record, Status, Id, Setting
  <1>3. LockShape'
    BY Ids DEF Source, locks, Based, TypeOK, LockShape, Dataset, WriteLocked, Id
  <1>4. to' # Nil => to'.gcsurl \in setting.requests
    BY DEF Source, Based, Standing
  <1>5. Standing(p)'
    BY Owners, Ids, CopyAssumption
    DEF Source, Goto, Release, locks, jobv, cpv, Based, TypeOK, Standing, Busy
  <1>6. QED
    BY <1>1, <1>2, <1>3, <1>4, <1>5, StepBased

LEMMA ReadLockBased ==
  ASSUME Based, NEW p \in Proc, ReadLock(p) PROVE Based'
  <1>1. OthersStay(p) /\ MutexMoves(p) /\ setting' = setting
    BY DEF ReadLock, Goto, Release, OthersStay, MutexMoves, locks, jobv, cpv, Based, TypeOK
  <1>2. TypeOK'
    <2>1. <<"R", p>> \in ReadId /\ <<"R", p>> \in Id
      BY Ids DEF Id
    <2>2. lock' \in [Dataset -> SUBSET Id]
      BY <2>1 DEF ReadLock, Based, TypeOK, Dataset
    <2>3. reader' \in [Proc -> ReadId \cup {Nil}]
      BY <2>1 DEF ReadLock, Based, TypeOK
    <2>4. QED
      BY <2>2, <2>3 DEF ReadLock, Goto, CpLabel, Based, TypeOK
  <1>3. LockShape'
    <2>1. CASE /\ lock' = [lock EXCEPT !["source"] = @ \cup {<<"R", p>>}]
               /\ ~WriteLocked("source")
      <3>1. lock["source"] \subseteq ReadId
        BY <2>1 DEF Based, LockShape, WriteLocked, Dataset
      <3>2. <<"R", p>> \in ReadId /\ lock \in [Dataset -> SUBSET Id]
        BY Ids DEF Based, TypeOK
      <3>3. lock'["source"] \subseteq ReadId /\ lock'["destination"] = lock["destination"]
        BY <2>1, <3>1, <3>2 DEF Dataset
      <3>4. QED
        BY <3>3 DEF Based, LockShape, Dataset
    <2>2. CASE UNCHANGED lock
      BY <2>2 DEF Based, LockShape
    <2>3. QED
      BY <2>1, <2>2 DEF ReadLock
  <1>4. to' # Nil => to'.gcsurl \in setting.requests
    BY DEF ReadLock, Based, Standing
  <1>5. Standing(p)'
    BY Owners, Ids, CopyAssumption
    DEF ReadLock, Goto, Release, locks, jobv, cpv, Based, TypeOK, Standing, Busy
  <1>6. QED
    BY <1>1, <1>2, <1>3, <1>4, <1>5, StepBased

LEMMA LegalBased ==
  ASSUME Based, NEW p \in Proc, Legal(p) PROVE Based'
  <1>1. OthersStay(p) /\ MutexMoves(p) /\ setting' = setting
    BY DEF Legal, Goto, Release, OthersStay, MutexMoves, locks, jobv, cpv, Based, TypeOK
  <1>2. TypeOK'
    BY Owners, Ids
    DEF Legal, Goto, Release, locks, jobv, cpv, Based, TypeOK, CpLabel, JobLabel, Dataset,
        Record, Status, Id, Setting
  <1>3. LockShape'
    BY Ids DEF Legal, locks, Based, TypeOK, LockShape, Dataset, WriteLocked, Id
  <1>4. to' # Nil => to'.gcsurl \in setting.requests
    BY DEF Legal, Based, Standing
  <1>5. Standing(p)'
    BY Owners, Ids, CopyAssumption
    DEF Legal, Goto, Release, locks, jobv, cpv, Based, TypeOK, Standing, Busy
  <1>6. QED
    BY <1>1, <1>2, <1>3, <1>4, <1>5, StepBased

LEMMA SaveBased ==
  ASSUME Based, NEW p \in Proc, Save(p) PROVE Based'
  <1>1. OthersStay(p) /\ MutexMoves(p) /\ setting' = setting
    BY DEF Save, Goto, Release, OthersStay, MutexMoves, locks, jobv, cpv, Based, TypeOK
  <1>2. TypeOK'
    BY Owners, Ids
    DEF Save, Goto, Release, locks, jobv, cpv, Based, TypeOK, CpLabel, JobLabel, Dataset,
        Record, Status, Id, Setting
  <1>3. LockShape'
    BY Ids DEF Save, locks, Based, TypeOK, LockShape, Dataset, WriteLocked, Id
  <1>4. to' # Nil => to'.gcsurl \in setting.requests
    BY DEF Save, Based, Standing
  <1>5. Standing(p)'
    BY Owners, Ids, CopyAssumption
    DEF Save, Goto, Release, locks, jobv, cpv, Based, TypeOK, Standing, Busy
  <1>6. QED
    BY <1>1, <1>2, <1>3, <1>4, <1>5, StepBased

LEMMA AddBased ==
  ASSUME Based, NEW p \in Proc, Add(p) PROVE Based'
  <1>1. OthersStay(p) /\ MutexMoves(p) /\ setting' = setting
    BY DEF Add, Goto, Release, OthersStay, MutexMoves, locks, jobv, cpv, Based, TypeOK
  <1>2. TypeOK'
    BY CopyAssumption DEF Add, Goto, locks, Based, TypeOK, CpLabel, JobLabel
  <1>3. LockShape'
    BY Ids DEF Add, locks, Based, TypeOK, LockShape, Dataset, WriteLocked, Id
  <1>4. to' # Nil => to'.gcsurl \in setting.requests
    BY DEF Add, Based, Standing
  <1>5. Standing(p)'
    BY Owners, Ids, CopyAssumption
    DEF Add, Goto, Release, locks, jobv, cpv, Based, TypeOK, Standing, Busy
  <1>6. QED
    BY <1>1, <1>2, <1>3, <1>4, <1>5, StepBased

LEMMA KeepBased ==
  ASSUME Based, NEW p \in Proc, Keep(p) PROVE Based'
  <1>1. OthersStay(p) /\ MutexMoves(p) /\ setting' = setting
    BY DEF Keep, Goto, Release, OthersStay, MutexMoves, locks, jobv, cpv, Based, TypeOK
  <1>2. TypeOK'
    BY Owners, Ids
    DEF Keep, Goto, Release, locks, jobv, cpv, Based, TypeOK, CpLabel, JobLabel, Dataset,
        Record, Status, Id, Setting
  <1>3. LockShape'
    BY Ids DEF Keep, locks, Based, TypeOK, LockShape, Dataset, WriteLocked, Id
  <1>4. to' # Nil => to'.gcsurl \in setting.requests
    BY DEF Keep, Based, Standing
  <1>5. Standing(p)'
    BY Owners, Ids, CopyAssumption
    DEF Keep, Goto, Release, locks, jobv, cpv, Based, TypeOK, Standing, Busy
  <1>6. QED
    BY <1>1, <1>2, <1>3, <1>4, <1>5, StepBased

LEMMA DropBased ==
  ASSUME Based, NEW p \in Proc, Drop(p) PROVE Based'
  <1>1. OthersStay(p) /\ MutexMoves(p) /\ setting' = setting
    BY DEF Drop, Goto, Release, OthersStay, MutexMoves, locks, jobv, cpv, Based, TypeOK
  <1>2. TypeOK'
    BY Owners, Ids
    DEF Drop, Goto, Release, locks, jobv, cpv, Based, TypeOK, CpLabel, JobLabel, Dataset,
        Record, Status, Id, Setting
  <1>3. LockShape'
    BY Ids DEF Drop, locks, Based, TypeOK, LockShape, Dataset, WriteLocked, Id
  <1>4. to' # Nil => to'.gcsurl \in setting.requests
    BY DEF Drop, Based, Standing
  <1>5. Standing(p)'
    BY Owners, Ids, CopyAssumption
    DEF Drop, Goto, Release, locks, jobv, cpv, Based, TypeOK, Standing, Busy
  <1>6. QED
    BY <1>1, <1>2, <1>3, <1>4, <1>5, StepBased

LEMMA DropLockBased ==
  ASSUME Based, NEW p \in Proc, DropLock(p) PROVE Based'
  <1>1. OthersStay(p) /\ MutexMoves(p) /\ setting' = setting
    BY DEF DropLock, Goto, Release, OthersStay, MutexMoves, locks, jobv, cpv, Based, TypeOK
  <1>2. TypeOK'
    BY Owners, Ids
    DEF DropLock, Goto, Release, locks, jobv, cpv, Based, TypeOK, CpLabel, JobLabel,
        Dataset, Record, Status, Id, Setting
  <1>3. LockShape'
    BY Ids DEF DropLock, locks, Based, TypeOK, LockShape, Dataset, WriteLocked, Id
  <1>4. to' # Nil => to'.gcsurl \in setting.requests
    BY DEF DropLock, Based, Standing
  <1>5. Standing(p)'
    BY Owners, Ids, CopyAssumption
    DEF DropLock, Goto, Release, locks, jobv, cpv, Based, TypeOK, Standing, Busy
  <1>6. QED
    BY <1>1, <1>2, <1>3, <1>4, <1>5, StepBased

LEMMA JobMutexBased ==
  ASSUME Based, NEW p \in Proc, JobMutex(p) PROVE Based'
  <1>1. OthersStay(p) /\ MutexMoves(p) /\ setting' = setting
    <2>1. OthersStay(p)
      BY DEF JobMutex, Do, Fail, OthersStay, cpv, Based, TypeOK
    <2>2. MutexMoves(p) /\ setting' = setting
      BY DEF JobMutex, MutexMoves
    <2>3. QED
      BY <2>1, <2>2
  <1>2. TypeOK'
    <2>1. tries[p] > 0 /\ tries[p] \in 0 .. Attempts /\ tries[p] - 1 \in 0 .. Attempts
      BY CopyAssumption DEF JobMutex, Based, TypeOK, Standing
    <2>2. /\ job' \in [Proc -> JobLabel] /\ tries' \in [Proc -> 0 .. Attempts]
          /\ mine' \in [Proc -> Read \cup {Nil}] /\ reader' \in [Proc -> ReadId \cup {Nil}]
      BY <2>1 DEF JobMutex, Do, Fail, Based, TypeOK, JobLabel
    <2>3. mutex' \in Owner \cup {Nil, Leaked}
      BY Owners DEF JobMutex, Release, Based, TypeOK
    <2>4. QED
      BY <2>2, <2>3 DEF JobMutex, cpv, Based, TypeOK
  <1>3. LockShape'
    BY DEF JobMutex, locks, Based, LockShape
  <1>4. to' # Nil => to'.gcsurl \in setting.requests
    BY DEF JobMutex, Based, Standing, Marked
  <1>5. Standing(p)'
    <2>1. /\ job[p] = "waiting" /\ mine[p] = Nil /\ tries[p] \in 0 .. Attempts /\ tries[p] > 0
          /\ cp[p] # "idle" => mutex = CpOwner(p)
      BY DEF JobMutex, Based, TypeOK, Standing, Busy
    <2>2. CASE mutex = Nil /\ mutex' = JobOwner(p) /\ Do(p, "get")
               /\ UNCHANGED <<tries, reader, mine>>
      BY <2>1, <2>2, Owners DEF JobMutex, Do, cpv, Based, TypeOK, Standing, Busy
    <2>3. CASE mutex # Nil /\ Fail(p) /\ UNCHANGED mutex
      <3>1. CASE tries[p] > 1
        BY <2>1, <2>3, <3>1, Owners, CopyAssumption
        DEF JobMutex, Fail, Do, cpv, Based, TypeOK, Standing, Busy
      <3>2. CASE ~(tries[p] > 1)
        BY <2>1, <2>3, <3>2, Owners, CopyAssumption
        DEF JobMutex, Fail, Do, cpv, Based, TypeOK, Standing, Busy
      <3>3. QED
        BY <3>1, <3>2
    <2>4. QED
      BY <2>2, <2>3 DEF JobMutex
  <1>6. QED
    BY <1>1, <1>2, <1>3, <1>4, <1>5, StepBased

LEMMA JobGetBased ==
  ASSUME Based, NEW p \in Proc, JobGet(p) PROVE Based'
  <1>1. OthersStay(p) /\ MutexMoves(p) /\ setting' = setting
    BY DEF JobGet, Do, Fail, Release, OthersStay, MutexMoves, locks, cpv, Based, TypeOK
  <1>2. TypeOK'
    <2>1. to # Nil => [status |-> to.status, gcsurl |-> to.gcsurl,
                       sbit |-> lock["destination"]] \in Read
      BY DEF Based, TypeOK, Record, Read, Dataset
    <2>2. mine' \in [Proc -> Read \cup {Nil}]
      BY <2>1 DEF JobGet, Based, TypeOK
    <2>3. QED
      BY <2>2 DEF JobGet, Do, locks, cpv, Based, TypeOK, JobLabel
  <1>3. LockShape'
    BY DEF JobGet, locks, Based, LockShape
  <1>4. to' # Nil => to'.gcsurl \in setting.requests
    BY DEF JobGet, Based, Standing, Marked
  <1>5. Standing(p)'
    <2>1. /\ job[p] = "get" /\ mine[p] = Nil
          /\ to # Nil => to.gcsurl \in setting.requests
      BY DEF JobGet, Based, Standing
    <2>2. CASE UNCHANGED mine /\ Do(p, "dropLocks")
      BY <2>1, <2>2 DEF JobGet, Do, locks, cpv, Based, TypeOK, Standing
    <2>3. CASE /\ to # Nil /\ Do(p, "copy")
               /\ mine' = [mine EXCEPT ![p] = [status |-> to.status, gcsurl |-> to.gcsurl,
                                              sbit |-> lock["destination"]]]
      <3>1. /\ [status |-> to.status, gcsurl |-> to.gcsurl,
                sbit |-> lock["destination"]] \in Read
        BY <2>3 DEF Based, TypeOK, Record, Read, Dataset
      <3>2. mine'[p] # Nil /\ mine'[p].gcsurl = to.gcsurl /\ job'[p] = "copy"
        BY <2>3, <3>1, NilAssumption DEF Do, Based, TypeOK
      <3>3. QED
        BY <2>1, <2>3, <3>2 DEF JobGet, locks, cpv, Based, Standing
    <2>4. QED
      BY <2>2, <2>3 DEF JobGet
  <1>6. QED
    BY <1>1, <1>2, <1>3, <1>4, <1>5, StepBased

LEMMA CopiedBased ==
  ASSUME Based, NEW p \in Proc, Copied(p) PROVE Based'
  <1>1. OthersStay(p) /\ MutexMoves(p) /\ setting' = setting
    BY DEF Copied, Do, Fail, Release, OthersStay, MutexMoves, locks, cpv, Based, TypeOK
  <1>2. TypeOK'
    BY Owners, CopyAssumption
    DEF Copied, Do, Fail, Release, locks, cpv, Based, TypeOK, Standing, JobLabel
  <1>3. LockShape'
    BY DEF Copied, locks, Based, LockShape
  <1>4. to' # Nil => to'.gcsurl \in setting.requests
    BY DEF Copied, Based, Standing, Marked
  <1>5. Standing(p)'
    BY Owners, CopyAssumption
    DEF Copied, Do, Fail, Release, locks, cpv, Based, TypeOK, Standing
  <1>6. QED
    BY <1>1, <1>2, <1>3, <1>4, <1>5, StepBased

LEMMA CompleteBased ==
  ASSUME Based, NEW p \in Proc, Complete(p) PROVE Based'
  <1>1. OthersStay(p) /\ MutexMoves(p) /\ setting' = setting
    BY DEF Complete, Do, Fail, Release, OthersStay, MutexMoves, locks, cpv, Based, TypeOK
  <1>2. TypeOK'
    <2>1. mine[p] \in Read /\ mine[p] # Nil /\ job[p] = "complete"
      BY DEF Complete, Based, TypeOK, Standing
    <2>2. /\ [mine[p] EXCEPT !.status = "Completed"] \in Read
          /\ [mine[p] EXCEPT !.status = "Completed"].gcsurl = mine[p].gcsurl
      BY <2>1 DEF Read, Status
    <2>3. Marked(p, "Completed") \in Record
      BY <2>1 DEF Marked, Record, Read, Status
    <2>4. mine' \in [Proc -> Read \cup {Nil}] /\ to' \in Record \cup {Nil}
      BY <2>2, <2>3 DEF Complete, Based, TypeOK
    <2>5. QED
      BY <2>4 DEF Complete, Do, locks, cpv, Based, TypeOK, JobLabel
  <1>3. LockShape'
    BY DEF Complete, locks, Based, LockShape
  <1>4. to' # Nil => to'.gcsurl \in setting.requests
    BY DEF Complete, Based, Standing, Marked
  <1>5. Standing(p)'
    <2>1. mine[p] \in Read /\ mine[p] # Nil /\ job[p] = "complete"
      BY DEF Complete, Based, TypeOK, Standing
    <2>2. /\ [mine[p] EXCEPT !.status = "Completed"] \in Read
          /\ [mine[p] EXCEPT !.status = "Completed"].gcsurl = mine[p].gcsurl
      BY <2>1 DEF Read, Status
    <2>3. mine'[p] # Nil /\ mine'[p].gcsurl = mine[p].gcsurl
      BY <2>2, NilAssumption DEF Complete, Based, TypeOK
    <2>4. QED
      BY <2>1, <2>3 DEF Complete, Do, locks, cpv, Based, TypeOK, Standing
  <1>6. QED
    BY <1>1, <1>2, <1>3, <1>4, <1>5, StepBased

LEMMA JobReleaseBased ==
  ASSUME Based, NEW p \in Proc, JobRelease(p) PROVE Based'
  <1>1. OthersStay(p) /\ MutexMoves(p) /\ setting' = setting
    BY DEF JobRelease, Do, Fail, Release, OthersStay, MutexMoves, locks, cpv, Based, TypeOK
  <1>2. TypeOK'
    BY Owners, CopyAssumption
    DEF JobRelease, Do, Fail, Release, locks, cpv, Based, TypeOK, Standing, JobLabel
  <1>3. LockShape'
    BY DEF JobRelease, locks, Based, LockShape
  <1>4. to' # Nil => to'.gcsurl \in setting.requests
    BY DEF JobRelease, Based, Standing, Marked
  <1>5. Standing(p)'
    BY Owners, CopyAssumption
    DEF JobRelease, Do, Fail, Release, locks, cpv, Based, TypeOK, Standing
  <1>6. QED
    BY <1>1, <1>2, <1>3, <1>4, <1>5, StepBased

LEMMA UnlockSourceBased ==
  ASSUME Based, NEW p \in Proc, UnlockSource(p) PROVE Based'
  <1>1. OthersStay(p) /\ MutexMoves(p) /\ setting' = setting
    BY DEF UnlockSource, Do, Fail, Release, OthersStay, MutexMoves, locks, cpv, Based, TypeOK
  <1>2. TypeOK'
    <2>1. lock' \in [Dataset -> SUBSET Id]
      BY DEF UnlockSource, Unlocked, Based, TypeOK, Dataset
    <2>2. QED
      BY <2>1 DEF UnlockSource, Do, cpv, Based, TypeOK, JobLabel, Event, Dataset
  <1>3. LockShape'
    <2>1. \A d \in Dataset : lock'[d] \subseteq lock[d]
      BY DEF UnlockSource, Unlocked, Based, TypeOK, Dataset
    <2>2. QED
      BY <2>1, ShapeStays
  <1>4. to' # Nil => to'.gcsurl \in setting.requests
    BY DEF UnlockSource, Based, Standing, Marked
  <1>5. Standing(p)'
    BY Owners, CopyAssumption
    DEF UnlockSource, Do, Fail, Release, locks, cpv, Based, TypeOK, Standing
  <1>6. QED
    BY <1>1, <1>2, <1>3, <1>4, <1>5, StepBased

LEMMA UnlockDestBased ==
  ASSUME Based, NEW p \in Proc, UnlockDest(p) PROVE Based'
  <1>1. OthersStay(p) /\ MutexMoves(p) /\ setting' = setting
    BY DEF UnlockDest, Do, Fail, Release, OthersStay, MutexMoves, locks, cpv, Based, TypeOK
  <1>2. TypeOK'
    BY Owners, CopyAssumption
    DEF UnlockDest, Do, Fail, Release, locks, cpv, Based, TypeOK, Standing, JobLabel
  <1>3. LockShape'
    <2>1. \A d \in Dataset : lock'[d] \subseteq lock[d]
      BY DEF UnlockDest, Unlocked, Based, TypeOK, Dataset
    <2>2. QED
      BY <2>1, ShapeStays
  <1>4. to' # Nil => to'.gcsurl \in setting.requests
    BY DEF UnlockDest, Based, Standing, Marked
  <1>5. Standing(p)'
    BY Owners, CopyAssumption
    DEF UnlockDest, Do, Fail, Release, locks, cpv, Based, TypeOK, Standing
  <1>6. QED
    BY <1>1, <1>2, <1>3, <1>4, <1>5, StepBased

LEMMA DropLocksBased ==
  ASSUME Based, NEW p \in Proc, DropLocks(p) PROVE Based'
  <1>1. OthersStay(p) /\ MutexMoves(p) /\ setting' = setting
    BY DEF DropLocks, Do, Fail, Release, OthersStay, MutexMoves, locks, cpv, Based, TypeOK
  <1>2. TypeOK'
    BY Owners, CopyAssumption
    DEF DropLocks, Do, Fail, Release, locks, cpv, Based, TypeOK, Standing, JobLabel, Event
  <1>3. LockShape'
    <2>1. \A d \in Dataset : lock'[d] \subseteq lock[d]
      BY DEF DropLocks, Unlocked, Based, TypeOK, Dataset
    <2>2. QED
      BY <2>1, ShapeStays
  <1>4. to' # Nil => to'.gcsurl \in setting.requests
    BY DEF DropLocks, Based, Standing, Marked
  <1>5. Standing(p)'
    BY Owners, CopyAssumption
    DEF DropLocks, Do, Fail, Release, locks, cpv, Based, TypeOK, Standing
  <1>6. QED
    BY <1>1, <1>2, <1>3, <1>4, <1>5, StepBased

LEMMA JobFreeBased ==
  ASSUME Based, NEW p \in Proc, JobFree(p) PROVE Based'
  <1>1. OthersStay(p) /\ MutexMoves(p) /\ setting' = setting
    <2>1. OthersStay(p)
      BY DEF JobFree, Do, Fail, OthersStay, cpv, Based, TypeOK
    <2>2. MutexMoves(p) /\ setting' = setting
      BY DEF JobFree, Release, MutexMoves
    <2>3. QED
      BY <2>1, <2>2
  <1>2. TypeOK'
    <2>1. tries[p] > 0 /\ tries[p] \in 0 .. Attempts /\ tries[p] - 1 \in 0 .. Attempts
      BY CopyAssumption DEF JobFree, Based, TypeOK, Standing
    <2>2. /\ job' \in [Proc -> JobLabel] /\ tries' \in [Proc -> 0 .. Attempts]
          /\ mine' \in [Proc -> Read \cup {Nil}] /\ reader' \in [Proc -> ReadId \cup {Nil}]
      BY <2>1 DEF JobFree, Do, Fail, Based, TypeOK, JobLabel
    <2>3. mutex' \in Owner \cup {Nil, Leaked}
      BY Owners DEF JobFree, Release, Based, TypeOK
    <2>4. QED
      BY <2>2, <2>3 DEF JobFree, cpv, Based, TypeOK
  <1>3. LockShape'
    BY DEF JobFree, locks, Based, LockShape
  <1>4. to' # Nil => to'.gcsurl \in setting.requests
    BY DEF JobFree, Based, Standing, Marked
  <1>5. Standing(p)'
    BY Owners, CopyAssumption
    DEF JobFree, Do, Fail, Release, locks, cpv, Based, TypeOK, Standing
  <1>6. QED
    BY <1>1, <1>2, <1>3, <1>4, <1>5, StepBased

LEMMA JobAbortBased ==
  ASSUME Based, NEW p \in Proc, JobAbort(p) PROVE Based'
  <1>1. OthersStay(p) /\ MutexMoves(p) /\ setting' = setting
    BY DEF JobAbort, Do, Fail, Release, OthersStay, MutexMoves, locks, cpv, Based, TypeOK
  <1>2. TypeOK'
    <2>1. /\ tries[p] \in 0 .. Attempts /\ tries[p] > 0 /\ mine[p] \in Read /\ mine[p] # Nil
      BY DEF JobAbort, Based, TypeOK, Standing
    <2>2. to' \in Record \cup {Nil}
      BY <2>1 DEF JobAbort, Marked, Based, TypeOK, Record, Read, Status
    <2>3. tries' \in [Proc -> 0 .. Attempts]
      BY <2>1, CopyAssumption DEF JobAbort, Fail, Based, TypeOK
    <2>4. QED
      BY <2>2, <2>3 DEF JobAbort, Fail, Do, locks, cpv, Based, TypeOK, JobLabel
  <1>3. LockShape'
    BY DEF JobAbort, locks, Based, LockShape
  <1>4. to' # Nil => to'.gcsurl \in setting.requests
    BY DEF JobAbort, Based, Standing, Marked
  <1>5. Standing(p)'
    BY Owners, CopyAssumption
    DEF JobAbort, Do, Fail, Release, locks, cpv, Based, TypeOK, Standing
  <1>6. QED
    BY <1>1, <1>2, <1>3, <1>4, <1>5, StepBased

\* A step of no request.
LEMMA ElsewhereBased ==
  ASSUME Based, UNCHANGED <<cpv, jobv, setting, objects>>, TypeOK', LockShape',
         to' = to \/ to' = Nil,
         mutex' = mutex \/ (mutex' = Nil /\ \A p \in Proc : mutex # CpOwner(p))
  PROVE  Based'
  <1>1. ASSUME NEW p \in Proc PROVE Standing(p)'
    BY <1>1, Owners DEF Based, Standing, cpv, jobv
  <1>2. QED
    BY <1>1 DEF Based

LEMMA ClientBased ==
  ASSUME Based, NEW c \in Client, ClientStep(c) PROVE Based'
  <1>1. <<"W", c>> \in WriteId /\ <<"R", c>> \in ReadId /\ <<"R", c>> \in Id
        /\ lock \in [Dataset -> SUBSET Id]
    BY Ids DEF Id, Based, TypeOK
  <1>2. ASSUME NEW d \in Dataset, OpenWrite(c, d) PROVE Based'
    <2>1. lock' \in [Dataset -> SUBSET Id]
      BY <1>1, <1>2 DEF OpenWrite, Id
    <2>2. LockShape'
      BY <1>1, <1>2 DEF OpenWrite, Based, LockShape
    <2>3. open' \in SUBSET (Client \X Dataset)
      BY <1>2 DEF OpenWrite, Based, TypeOK
    <2>4. TypeOK'
      BY <1>2, <2>1, <2>3 DEF OpenWrite, cpv, jobv, Based, TypeOK
    <2>5. QED
      BY <1>2, <2>2, <2>4, ElsewhereBased DEF OpenWrite
  <1>3. ASSUME NEW d \in Dataset, CloseWrite(c, d) PROVE Based'
    <2>1. \A e \in Dataset : lock'[e] \subseteq lock[e]
      BY <1>1, <1>3 DEF CloseWrite
    <2>2. TypeOK'
      BY <1>1, <1>3 DEF CloseWrite, cpv, jobv, Based, TypeOK
    <2>3. QED
      BY <1>3, <2>1, <2>2, ShapeStays, ElsewhereBased DEF CloseWrite
  <1>4. CASE ShareSource(c)
    <2>1. lock' \in [Dataset -> SUBSET Id]
      BY <1>1, <1>4 DEF ShareSource, Dataset
    <2>2. LockShape'
      <3>1. CASE /\ ~WriteLocked("source")
                 /\ lock' = [lock EXCEPT !["source"] = @ \cup {<<"R", c>>}]
        <4>1. lock["source"] \subseteq ReadId
          BY <3>1 DEF Based, LockShape, WriteLocked, Dataset
        <4>2. lock'["source"] \subseteq ReadId /\ lock'["destination"] = lock["destination"]
          BY <1>1, <3>1, <4>1 DEF Dataset
        <4>3. QED
          BY <4>2 DEF Based, LockShape, Dataset
      <3>2. CASE lock' = [lock EXCEPT !["source"] = @ \ {<<"R", c>>}]
        <4>1. \A e \in Dataset : lock'[e] \subseteq lock[e]
          BY <1>1, <3>2 DEF Dataset
        <4>2. QED
          BY <4>1, ShapeStays
      <3>3. QED
        BY <1>4, <3>1, <3>2 DEF ShareSource
    <2>3. TypeOK'
      BY <1>4, <2>1 DEF ShareSource, cpv, jobv, Based, TypeOK
    <2>4. QED
      BY <1>4, <2>2, <2>3, ElsewhereBased DEF ShareSource
  <1>5. CASE DeleteDest(c)
    <2>1. lock' \in [Dataset -> SUBSET Id] /\ \A e \in Dataset : lock'[e] \subseteq lock[e]
      BY <1>1, <1>5 DEF DeleteDest, Dataset
    <2>2. TypeOK'
      BY <1>5, <2>1 DEF DeleteDest, cpv, jobv, Based, TypeOK, Event
    <2>3. QED
      BY <1>5, <2>1, <2>2, ShapeStays, ElsewhereBased DEF DeleteDest
  <1>6. QED
    BY <1>2, <1>3, <1>4, <1>5 DEF ClientStep

LEMMA ClockBased ==
  ASSUME Based, ExpireMutex \/ \E d \in Dataset, id \in Id : ExpireLock(d, id) PROVE Based'
  <1>1. CASE ExpireMutex
    <2>1. TypeOK' /\ LockShape'
      BY <1>1 DEF ExpireMutex, cpv, jobv, Based, TypeOK, LockShape
    <2>2. \A p \in Proc : mutex # CpOwner(p)
      BY <1>1, Owners DEF ExpireMutex
    <2>3. QED
      BY <1>1, <2>1, <2>2, ElsewhereBased DEF ExpireMutex
  <1>2. ASSUME NEW d \in Dataset, NEW id \in Id, ExpireLock(d, id) PROVE Based'
    <2>1. lock' \in [Dataset -> SUBSET Id] /\ \A e \in Dataset : lock'[e] \subseteq lock[e]
      BY <1>2 DEF ExpireLock, Based, TypeOK
    <2>2. past' \in SUBSET Event
      BY <1>2 DEF ExpireLock, Based, TypeOK, Event
    <2>3. TypeOK'
      BY <1>2, <2>1, <2>2 DEF ExpireLock, cpv, jobv, Based, TypeOK
    <2>4. QED
      BY <1>2, <2>1, <2>3, ShapeStays, ElsewhereBased DEF ExpireLock
  <1>3. QED
    BY <1>1, <1>2

LEMMA InitBased == Init => Based
  <1> SUFFICES ASSUME Init PROVE Based
    OBVIOUS
  <1>1. TypeOK
    BY CopyAssumption DEF Init, TypeOK, CpLabel, JobLabel, Dataset
  <1>2. LockShape
    BY DEF Init, LockShape
  <1>3. ASSUME NEW p \in Proc PROVE Standing(p)
    BY Owners DEF Init, Standing, Busy
  <1>4. QED
    BY <1>1, <1>2, <1>3 DEF Based, Init

LEMMA NextBased == Based /\ [Next]_vars => Based'
  <1> SUFFICES ASSUME Based, [Next]_vars PROVE Based'
    OBVIOUS
  <1>1. CASE UNCHANGED vars
    <2>1. TypeOK' /\ LockShape'
      BY <1>1 DEF vars, locks, cpv, jobv, Based, TypeOK, LockShape
    <2>2. QED
      BY <1>1, <2>1, ElsewhereBased DEF vars, locks
  <1>2. ASSUME NEW p \in Proc, Cp(p) \/ CpStep(p) PROVE Based'
    BY <1>2, CpBased, FindBased, CreateWriteLockBased, SourceBased, ReadLockBased,
       LegalBased, SaveBased, AddBased, KeepBased, DropBased, DropLockBased
    DEF CpStep
  <1>3. ASSUME NEW p \in Proc, JobStep(p) PROVE Based'
    BY <1>3, JobMutexBased, JobGetBased, CopiedBased, CompleteBased, JobReleaseBased,
       UnlockSourceBased, UnlockDestBased, DropLocksBased, JobFreeBased, JobAbortBased
    DEF JobStep
  <1>4. ASSUME NEW c \in Client, ClientStep(c) PROVE Based'
    BY <1>4, ClientBased
  <1>5. CASE ExpireMutex \/ \E d \in Dataset, id \in Id : ExpireLock(d, id)
    BY <1>5, ClockBased
  <1>6. QED
    BY <1>1, <1>2, <1>3, <1>4, <1>5 DEF Next

\* Every variable has its type, a lock is one writer's or any number of
\* readers', and a request or a job at a label has what that label needs:
\* with any number of requests, whatever fails.
THEOREM BaseInvariance == Spec => []Based
  BY InitBased, NextBased, PTL DEF Spec

-----------------------------------------------------------------------------
(* One copy at a time.                                                     *)

\* The setting does not change, and what has happened stays.
LEMMA SettingStays ==
  ASSUME [Next]_vars PROVE setting' = setting /\ past \subseteq past'
  <1>1. ASSUME NEW p \in Proc, Cp(p) \/ CpStep(p)
        PROVE  setting' = setting /\ past \subseteq past'
    BY <1>1 DEF CpStep, Cp, Find, CreateWriteLock, Source, ReadLock, Legal, Save, Add,
                Keep, Drop, DropLock
  <1>2. ASSUME NEW p \in Proc, JobStep(p) PROVE setting' = setting /\ past \subseteq past'
    BY <1>2 DEF JobStep, JobMutex, JobGet, Copied, Complete, JobRelease, UnlockSource,
                UnlockDest, DropLocks, JobFree, JobAbort
  <1>3. ASSUME NEW c \in Client, ClientStep(c)
        PROVE  setting' = setting /\ past \subseteq past'
    BY <1>3 DEF ClientStep, OpenWrite, CloseWrite, ShareSource, DeleteDest
  <1>4. ASSUME ExpireMutex \/ \E d \in Dataset, id \in Id : ExpireLock(d, id)
        PROVE  setting' = setting /\ past \subseteq past'
    BY <1>4 DEF ExpireMutex, ExpireLock
  <1>5. QED
    BY <1>1, <1>2, <1>3, <1>4 DEF Next, vars

LEMMA CalmBefore == ASSUME [Next]_vars, Calm' PROVE Calm
  BY SettingStays DEF Calm

\* A request that has nothing in hand owes nothing.
LEMMA EmptyHanded ==
  ASSUME Based', NEW p \in Proc, ~Holding(p)' PROVE InHandOf(p)'
  <1>1. job'[p] = "none" /\ cp'[p] \notin Busy /\ mine'[p] = Nil
    BY DEF Based, Standing, Holding
  <1>2. QED
    BY <1>1 DEF InHandOf, Holding, Busy

\* The lock of the destination has one owner.
LEMMA HolderAlone ==
  ASSUME InHand, NEW p \in Proc, Holding(p), NEW q \in Proc, Holding(q) PROVE p = q
  <1>1. Firm(p) /\ Firm(q)
    BY DEF InHand, InHandOf
  <1>2. lock["destination"] = {<<"W", p>>}
    BY <1>1 DEF Firm
  <1>3. lock["destination"] = {<<"W", q>>}
    BY <1>1 DEF Firm
  <1>4. <<"W", p>> = <<"W", q>>
    BY <1>2, <1>3
  <1>5. QED
    BY <1>4, Ids

\* A step of the request or the job that holds the destination.
LEMMA HolderStep ==
  ASSUME Based', InHand, NEW p \in Proc, Holding(p), OthersStay(p), InHandOf(p)'
  PROVE  InHand'
  <1>1. ASSUME NEW q \in Proc, q # p PROVE ~Holding(q)'
    BY <1>1, HolderAlone DEF Holding, OthersStay
  <1>2. QED
    BY <1>1, EmptyHanded DEF InHand

\* The steps of a cp that has the mutex, or has just given it back.
LEMMA BusyInHand ==
  ASSUME Based, Based', InHand, NEW p \in Proc,
         \/ Source(p) \/ ReadLock(p) \/ Legal(p) \/ Save(p) \/ Add(p) \/ Keep(p)
         \/ Drop(p) \/ DropLock(p)
  PROVE  InHand'
  <1>1. OthersStay(p)
    BY DEF Source, ReadLock, Legal, Save, Add, Keep, Drop, DropLock, Goto, OthersStay,
           locks, jobv, Based, TypeOK
  <1>2. cp[p] \in Busy \cup {"dropLock"} /\ past' = past
    BY DEF Source, ReadLock, Legal, Save, Add, Keep, Drop, DropLock, Busy
  <1>3. Holding(p)
    BY <1>2 DEF Holding
  <1>4. Firm(p) /\ InHandOf(p)
    BY <1>3 DEF InHand, InHandOf
  <1>5. job[p] # "none" => cp[p] = "keep" /\ job[p] = "waiting"
    BY <1>2 DEF Based, Standing, Busy
  <1>6. mine[p] = Nil
    BY <1>5 DEF Based, Standing
  <1> DEFINE new == [status |-> "InProgress", gcsurl |-> p]
  <1>7. new # Nil /\ new.gcsurl = p
    <2>1. new \in Record
      BY DEF Record, Status
    <2>2. QED
      BY <2>1, NilAssumption
  <1>8. CASE DropLock(p)
    <2>1. cp'[p] = "idle" /\ job'[p] = "none"
      BY <1>5, <1>8 DEF DropLock, Goto, Based, TypeOK
    <2>2. ~Holding(p)'
      BY <2>1 DEF Holding, Busy
    <2>3. QED
      BY <1>1, <1>3, <2>2, EmptyHanded, HolderStep
  <1>9. CASE ~DropLock(p)
    <2>1. lock'["destination"] = lock["destination"] /\ mine' = mine
          /\ lock["source"] \subseteq lock'["source"]
          /\ reader'[p] \in {reader[p]} \cup lock'["source"]
      BY <1>9
      DEF Source, ReadLock, Legal, Save, Add, Keep, Drop, locks, jobv, Based, TypeOK, Dataset
    <2>2. Firm(p)'
      BY <1>2, <1>4, <1>5, <1>6, <2>1 DEF Firm
    <2>3. cp'[p] \in {"add", "keep"} \/ job'[p] # "none" => to' # Nil /\ to'.gcsurl = p
      <3>1. CASE Save(p)
        BY <1>5, <1>7, <3>1 DEF Save, Goto, jobv, Based, TypeOK
      <3>2. CASE ~Save(p)
        BY <1>4, <1>5, <1>9, <3>2
        DEF Source, ReadLock, Legal, Add, Keep, Drop, Goto, jobv, Based, TypeOK, InHandOf
      <3>3. QED
        BY <3>1, <3>2
    <2>4. job'[p] \in {"none", "waiting"}
      BY <1>5, <1>9 DEF Source, ReadLock, Legal, Save, Add, Keep, Drop, jobv, Based, TypeOK
    <2>5. InHandOf(p)'
      BY <1>6, <2>1, <2>2, <2>3, <2>4 DEF InHandOf
    <2>6. QED
      BY <1>1, <1>3, <2>5, HolderStep
  <1>10. QED
    BY <1>8, <1>9

\* The steps of a request that has not the destination yet.
LEMMA AskingInHand ==
  ASSUME Based, Based', InHand, NEW p \in Proc, Cp(p) \/ Find(p) PROVE InHand'
  <1>1. OthersStay(p) /\ lock' = lock /\ to' = to /\ job' = job
        /\ reader' = reader /\ mine' = mine /\ past' = past
    BY DEF Cp, Find, Goto, OthersStay, locks, jobv, Based, TypeOK
  <1>2. job[p] = "none" /\ cp'[p] \in {"idle", "find", "create"}
    BY DEF Cp, Find, Goto, Based, TypeOK, Standing
  <1>3. ~Holding(p)'
    BY <1>1, <1>2 DEF Holding, Busy
  <1>4. ASSUME NEW q \in Proc \ {p} PROVE InHandOf(q)'
    BY <1>1, <1>4 DEF InHand, InHandOf, Holding, Firm, OthersStay
  <1>5. QED
    BY <1>3, <1>4, EmptyHanded DEF InHand

\* It gets the destination only when nobody has it.
LEMMA CreateWriteLockInHand ==
  ASSUME Based, Based', InHand, NEW p \in Proc, CreateWriteLock(p) PROVE InHand'
  <1>1. OthersStay(p) /\ to' = to /\ job' = job
        /\ reader' = reader /\ mine' = mine /\ past' = past
    BY DEF CreateWriteLock, Goto, OthersStay, jobv, Based, TypeOK
  <1>2. job[p] = "none" /\ mine[p] = Nil /\ reader[p] = Nil
    BY DEF CreateWriteLock, Based, TypeOK, Standing
  <1>3. CASE cp'[p] = "source"
    <2>1. lock["destination"] = {} /\ lock'["destination"] = {<<"W", p>>}
      BY <1>3 DEF CreateWriteLock, Goto, Based, TypeOK, Dataset
    <2>2. \A q \in Proc \ {p} : ~Holding(q)'
      BY <1>1, <2>1 DEF InHand, InHandOf, Firm, Holding, OthersStay
    <2>3. InHandOf(p)'
      BY <1>1, <1>2, <1>3, <2>1 DEF InHandOf, Firm
    <2>4. QED
      BY <2>2, <2>3, EmptyHanded DEF InHand
  <1>4. CASE cp'[p] # "source"
    <2>1. cp'[p] = "idle" /\ lock' = lock
      BY <1>4 DEF CreateWriteLock, Goto, locks, Based, TypeOK
    <2>2. ~Holding(p)'
      BY <1>1, <1>2, <2>1 DEF Holding, Busy
    <2>3. ASSUME NEW q \in Proc \ {p} PROVE InHandOf(q)'
      BY <1>1, <2>1, <2>3 DEF InHand, InHandOf, Holding, Firm, OthersStay
    <2>4. QED
      BY <2>2, <2>3, EmptyHanded DEF InHand
  <1>5. QED
    BY <1>3, <1>4

\* What a step of a job owes.
LEMMA JobInHand ==
  ASSUME Based', InHand, NEW p \in Proc, job[p] # "none", OthersStay(p),
         to' # Nil, to'.gcsurl = p, mine'[p] # Nil => mine'[p].gcsurl = p,
         Firm(p)', job'[p] \notin {"free", "abort"}
  PROVE  InHand'
  <1>1. Holding(p) /\ InHandOf(p)'
    BY DEF Holding, InHandOf
  <1>2. QED
    BY <1>1, HolderStep

\* What a job starts a step with.
LEMMA JobHas ==
  ASSUME Based, InHand, NEW p \in Proc, job[p] # "none"
  PROVE  /\ Holding(p) /\ to # Nil /\ to.gcsurl = p
         /\ mine[p] # Nil => mine[p].gcsurl = p
         /\ Firm(p)
         /\ cp[p] = "idle" \/ (cp[p] = "keep" /\ job[p] = "waiting")
         /\ reader[p] \in {Nil, <<"R", p>>}
         /\ job[p] \notin {"free", "abort"}
  BY DEF Based, Standing, InHand, InHandOf, Holding

LEMMA JobMutexInHand ==
  ASSUME Based, Based', InHand, NEW p \in Proc, JobMutex(p) PROVE InHand'
  <1>1. OthersStay(p) /\ lock' = lock /\ to' = to /\ past' = past /\ job[p] = "waiting"
    BY DEF JobMutex, Do, Fail, OthersStay, locks, cpv, Based, TypeOK
  <1>2. mine[p] = Nil /\ mine'[p] = Nil /\ reader'[p] \in {reader[p], Nil}
    BY DEF JobMutex, Fail, Based, TypeOK, Standing
  <1>3. job'[p] \in {"waiting", "get", "none"}
    BY DEF JobMutex, Do, Fail, Based, TypeOK
  <1>4. Firm(p)'
    BY <1>1, <1>2, JobHas DEF Firm
  <1>5. QED
    BY <1>1, <1>2, <1>3, <1>4, JobHas, JobInHand

LEMMA JobGetInHand ==
  ASSUME Based, Based', InHand, NEW p \in Proc, JobGet(p) PROVE InHand'
  <1>1. OthersStay(p) /\ lock' = lock /\ to' = to /\ job[p] = "get" /\ mine[p] = Nil
        /\ reader' = reader /\ past' = past
    BY DEF JobGet, Do, OthersStay, locks, cpv, Based, TypeOK, Standing
  <1>2. \/ job'[p] = "dropLocks" /\ mine'[p] = Nil
        \/ job'[p] = "copy" /\ mine'[p].gcsurl = p /\ mine'[p].sbit = lock["destination"]
    BY <1>1, JobHas DEF JobGet, Do, Based, TypeOK
  <1>3. Firm(p)'
    BY <1>1, <1>2, JobHas DEF Firm
  <1>4. QED
    BY <1>1, <1>2, <1>3, JobHas, JobInHand

LEMMA CopiedInHand ==
  ASSUME Based, Based', InHand, NEW p \in Proc, Copied(p) PROVE InHand'
  <1>1. OthersStay(p) /\ lock' = lock /\ to' = to /\ job[p] = "copy"
        /\ reader' = reader /\ mine' = mine /\ past' = past
        /\ job'[p] \in {"complete", "dropLocks"}
    BY DEF Copied, Do, OthersStay, locks, cpv, Based, TypeOK
  <1>2. Firm(p)'
    BY <1>1, JobHas DEF Firm
  <1>3. QED
    BY <1>1, <1>2, JobHas, JobInHand

LEMMA CompleteInHand ==
  ASSUME Based, Based', InHand, NEW p \in Proc, Complete(p) PROVE InHand'
  <1>1. OthersStay(p) /\ lock' = lock /\ job[p] = "complete" /\ reader' = reader
        /\ past' = past /\ job'[p] \in {"release", "dropLocks"}
    BY DEF Complete, Do, OthersStay, locks, cpv, Based, TypeOK
  <1>2. mine[p] # Nil /\ mine[p] \in Read /\ mine[p].gcsurl = p
    BY <1>1, JobHas DEF Based, Standing, TypeOK
  <1>3. mine'[p].gcsurl = p /\ mine'[p].sbit = mine[p].sbit
    BY <1>2 DEF Complete, Based, TypeOK, Read
  <1>4. to' # Nil /\ to'.gcsurl = p
    <2>1. Marked(p, "Completed") \in Record /\ Marked(p, "Completed").gcsurl = p
      BY <1>2 DEF Marked, Record, Status
    <2>2. to' = to \/ to' = Marked(p, "Completed")
      BY DEF Complete
    <2>3. QED
      BY <1>1, <2>1, <2>2, NilAssumption, JobHas
  <1>5. Firm(p)'
    BY <1>1, <1>2, <1>3, JobHas DEF Firm
  <1>6. QED
    BY <1>1, <1>3, <1>4, <1>5, JobHas, JobInHand

LEMMA JobReleaseInHand ==
  ASSUME Based, Based', InHand, NEW p \in Proc, JobRelease(p) PROVE InHand'
  <1>1. OthersStay(p) /\ lock' = lock /\ to' = to /\ job[p] = "release" /\ past' = past
        /\ job'[p] = "unlockSource" /\ reader' = reader /\ mine' = mine
    BY DEF JobRelease, Do, OthersStay, cpv, Based, TypeOK
  <1>2. Firm(p)'
    BY <1>1, JobHas DEF Firm
  <1>3. QED
    BY <1>1, <1>2, JobHas, JobInHand

LEMMA UnlockSourceInHand ==
  ASSUME Based, Based', InHand, NEW p \in Proc, UnlockSource(p) PROVE InHand'
  <1>1. OthersStay(p) /\ lock'["destination"] = lock["destination"] /\ to' = to
        /\ job[p] = "unlockSource" /\ job'[p] \in {"unlockDest", "dropLocks"}
        /\ reader' = reader /\ mine' = mine
    BY DEF UnlockSource, Do, OthersStay, cpv, Based, TypeOK, Dataset
  <1>2. Firm(p)'
    BY <1>1, JobHas DEF Firm
  <1>3. QED
    BY <1>1, <1>2, JobHas, JobInHand

LEMMA UnlockDestInHand ==
  ASSUME Based, Based', InHand, NEW p \in Proc, UnlockDest(p) PROVE InHand'
  <1>1. OthersStay(p) /\ to' = to /\ cp' = cp /\ job[p] = "unlockDest" /\ past' = past
    BY DEF UnlockDest, Do, OthersStay, cpv, Based, TypeOK
  <1>2. CASE job'[p] = "none"
    <2>1. ~Holding(p)'
      BY <1>1, <1>2, JobHas DEF Holding, Busy
    <2>2. QED
      BY <1>1, <2>1, EmptyHanded, HolderStep, JobHas
  <1>3. CASE job'[p] # "none"
    <2>1. job'[p] = "dropLocks" /\ lock' = lock /\ reader' = reader /\ mine' = mine
      BY <1>3 DEF UnlockDest, Do, Based, TypeOK
    <2>2. Firm(p)'
      BY <1>1, <2>1, JobHas DEF Firm
    <2>3. QED
      BY <1>1, <2>1, <2>2, JobHas, JobInHand
  <1>4. QED
    BY <1>2, <1>3

\* A job that is to undo its work has dropped its locks before.
LEMMA JobStepInHand ==
  ASSUME Based, Based', Calm', InHand, NEW p \in Proc, JobStep(p) PROVE InHand'
  <1>1. ~DropLocks(p)
    BY DEF DropLocks, Calm
  <1>2. ~JobFree(p) /\ ~JobAbort(p)
    BY JobHas DEF JobFree, JobAbort
  <1>3. QED
    BY <1>1, <1>2, JobMutexInHand, JobGetInHand, CopiedInHand, CompleteInHand,
       JobReleaseInHand, UnlockSourceInHand, UnlockDestInHand
    DEF JobStep

\* A step that is no request's or job's, and takes no lock from a copy.
LEMMA AsideInHand ==
  ASSUME InHand, UNCHANGED <<cpv, jobv, to>>,
         \A p \in Proc : Holding(p) /\ Firm(p) => Firm(p)'
  PROVE  InHand'
  BY DEF InHand, InHandOf, Holding, cpv, jobv

LEMMA ClientInHand ==
  ASSUME Based, Calm', InHand, NEW c \in Client, ClientStep(c) PROVE InHand'
  <1>1. lock \in [Dataset -> SUBSET Id] /\ \A p \in Proc : c # p
    BY CopyAssumption DEF Based, TypeOK
  <1>2. \A p \in Proc : /\ <<"W", c>> # <<"W", p>> /\ <<"R", c>> # <<"R", p>>
                        /\ <<"W", c>> # <<"R", p>>
    BY <1>1
  <1>3. \A p \in Proc : reader[p] \in {Nil, <<"R", p>>}
    BY DEF Based, Standing
  <1>4. ~DeleteDest(c)
    BY DEF DeleteDest, Calm
  <1>5. ASSUME NEW d \in Dataset, OpenWrite(c, d) PROVE InHand'
    <2>1. ASSUME NEW p \in Proc, Firm(p) PROVE Firm(p)'
      BY <1>1, <1>5, <2>1 DEF OpenWrite, Firm, jobv, Dataset
    <2>2. QED
      BY <1>5, <2>1, AsideInHand DEF OpenWrite
  <1>6. ASSUME NEW d \in Dataset, CloseWrite(c, d) PROVE InHand'
    <2>1. lock'[d] = lock[d] \ {<<"W", c>>} /\ \A e \in Dataset \ {d} : lock'[e] = lock[e]
      BY <1>1, <1>6 DEF CloseWrite
    <2>2. ASSUME NEW p \in Proc, Firm(p) PROVE Firm(p)'
      <3>1. lock'["destination"] = {<<"W", p>>}
        BY <1>2, <2>1, <2>2 DEF Firm, Dataset
      <3>2. reader[p] # Nil /\ reader[p] \in lock["source"] => reader[p] \in lock'["source"]
        BY <1>2, <1>3, <2>1 DEF Dataset
      <3>3. QED
        BY <1>6, <2>2, <3>1, <3>2 DEF CloseWrite, Firm, jobv
    <2>3. QED
      BY <1>6, <2>2, AsideInHand DEF CloseWrite
  <1>7. CASE ShareSource(c)
    <2>1. lock'["destination"] = lock["destination"]
          /\ lock["source"] \ {<<"R", c>>} \subseteq lock'["source"]
      BY <1>1, <1>7 DEF ShareSource, Dataset
    <2>2. ASSUME NEW p \in Proc, Firm(p) PROVE Firm(p)'
      <3>1. reader[p] # Nil /\ reader[p] \in lock["source"] => reader[p] \in lock'["source"]
        BY <1>2, <1>3, <2>1
      <3>2. QED
        BY <1>7, <2>1, <2>2, <3>1 DEF ShareSource, Firm, jobv
    <2>3. QED
      BY <1>7, <2>2, AsideInHand DEF ShareSource
  <1>8. QED
    BY <1>4, <1>5, <1>6, <1>7 DEF ClientStep

\* A lock that expires under a copy is one that is not calm any more, or it is the
\* lock of the source.
LEMMA ExpireLockInHand ==
  ASSUME Based, Calm', InHand, NEW d \in Dataset, NEW id \in Id, ExpireLock(d, id)
  PROVE  InHand'
  <1>1. /\ UNCHANGED <<cpv, jobv, to>> /\ past \subseteq past'
        /\ \A e \in Dataset \ {d} : lock'[e] = lock[e]
        /\ id \in lock[d] /\ lock'[d] = lock[d] \ {id}
    BY DEF ExpireLock, Based, TypeOK
  <1>2. ASSUME NEW p \in Proc, Holding(p), Firm(p) PROVE Firm(p)'
    <2>1. id[2] = p => d \in past'
      BY <1>2 DEF ExpireLock
    <2>2. d # "destination"
      <3>1. ASSUME d = "destination" PROVE id = <<"W", p>>
        BY <1>1, <1>2, <3>1 DEF Firm
      <3>2. QED
        BY <2>1, <3>1 DEF Calm
    <2>3. reader[p] \in {Nil, <<"R", p>>}
      BY DEF Based, Standing
    <2>4. reader[p] # Nil /\ reader[p] = id => "source" \in past'
      BY <2>1, <2>2, <2>3 DEF Dataset
    <2>5. QED
      BY <1>1, <1>2, <2>2, <2>4 DEF Firm, Dataset, jobv
  <1>3. QED
    BY <1>1, <1>2, AsideInHand

LEMMA ExpireMutexInHand == ASSUME InHand, ExpireMutex PROVE InHand'
  <1>1. ASSUME NEW p \in Proc, Firm(p) PROVE Firm(p)'
    BY <1>1 DEF ExpireMutex, Firm, jobv
  <1>2. QED
    BY <1>1, AsideInHand DEF ExpireMutex

LEMMA InitInHand == Init => InHand
  <1> SUFFICES ASSUME Init PROVE InHand
    OBVIOUS
  <1>1. ASSUME NEW p \in Proc PROVE InHandOf(p)
    BY DEF Init, InHandOf, Holding, Busy
  <1>2. QED
    BY <1>1 DEF InHand

LEMMA NextInHand ==
  ASSUME Based, Based', Calm', InHand, [Next]_vars PROVE InHand'
  <1>1. CASE UNCHANGED vars
    <2>1. \A p \in Proc : Firm(p) => Firm(p)'
      BY <1>1 DEF vars, locks, jobv, Firm
    <2>2. QED
      BY <1>1, <2>1, AsideInHand DEF vars, locks
  <1>2. ASSUME NEW p \in Proc, Cp(p) \/ CpStep(p) PROVE InHand'
    BY <1>2, AskingInHand, CreateWriteLockInHand, BusyInHand DEF CpStep
  <1>3. ASSUME NEW p \in Proc, JobStep(p) PROVE InHand'
    BY <1>3, JobStepInHand
  <1>4. ASSUME NEW c \in Client, ClientStep(c) PROVE InHand'
    BY <1>4, ClientInHand
  <1>5. ASSUME NEW d \in Dataset, NEW id \in Id, ExpireLock(d, id) PROVE InHand'
    BY <1>5, ExpireLockInHand
  <1>6. QED
    BY <1>1, <1>2, <1>3, <1>4, <1>5, ExpireMutexInHand DEF Next

-----------------------------------------------------------------------------
(* A completed copy has its objects.                                       *)

\* What a job read was written for its own cp.
LEMMA OwnRecord ==
  ASSUME Based', (OneRequest \/ InHand)', NEW p \in Proc, mine'[p] # Nil
  PROVE  mine'[p].gcsurl = p
  <1>1. CASE InHand'
    BY <1>1 DEF InHand, InHandOf
  <1>2. CASE OneRequest'
    BY <1>2 DEF Based, Standing, OneRequest
  <1>3. QED
    BY <1>1, <1>2

\* A step that calls nothing completed, and takes no object away.
LEMMA StillFinished ==
  ASSUME Finished, Based', (OneRequest \/ InHand)', objects' = objects,
         to' = Nil \/ to' = to \/ to'.status # "Completed",
         \A p \in Proc : job'[p] = "complete" => job[p] = "complete"
  PROVE  Finished'
  <1>1. \A p \in Proc : mine'[p] # Nil => mine'[p].gcsurl = p
    BY OwnRecord
  <1>2. QED
    BY <1>1 DEF Finished

LEMMA CpFinished ==
  ASSUME Based, Finished, Based', (OneRequest \/ InHand)', NEW p \in Proc,
         Cp(p) \/ CpStep(p)
  PROVE  Finished'
  <1>1. CASE Cp(p)
    <2>1. objects' = [objects EXCEPT ![p] = "none"] /\ to' = to /\ job' = job
          /\ job[p] = "none" /\ (to # Nil => to.gcsurl # p)
      BY <1>1 DEF Cp, jobv
    <2>2. to # Nil => to.gcsurl \in Proc
      BY DEF Based, TypeOK, Record
    <2>3. \A q \in Proc \ {p} : objects'[q] = objects[q]
      BY <2>1 DEF Based, TypeOK
    <2>4. \A q \in Proc : mine'[q] # Nil => mine'[q].gcsurl = q
      BY OwnRecord
    <2>5. QED
      BY <2>1, <2>2, <2>3, <2>4 DEF Finished
  <1>2. CASE Save(p)
    <2>1. objects' = objects /\ job' = job
          /\ to' \in {to, [status |-> "InProgress", gcsurl |-> p]}
      BY <1>2 DEF Save, jobv
    <2>2. QED
      BY <2>1, StillFinished
  <1>3. CASE CpStep(p) /\ ~Save(p)
    <2>1. objects' = objects /\ to' = to
          /\ \A q \in Proc : job'[q] = "complete" => job[q] = "complete"
      BY <1>3 DEF CpStep, Find, CreateWriteLock, Source, ReadLock, Legal, Add, Keep, Drop,
                  DropLock, jobv, Based, TypeOK
    <2>2. QED
      BY <2>1, StillFinished
  <1>4. QED
    BY <1>1, <1>2, <1>3

LEMMA JobFinished ==
  ASSUME Based, Finished, Based', (OneRequest \/ InHand)', NEW p \in Proc, JobStep(p)
  PROVE  Finished'
  <1> USE DEF Do, Fail
  <1>1. CASE Copied(p)
    <2>1. to' = to /\ mine' = mine /\ job' \in [Proc -> JobLabel]
      BY <1>1 DEF Copied, Based, TypeOK
    <2>2. \A q \in Proc \ {p} : objects'[q] = objects[q] /\ job'[q] = job[q]
      BY <1>1 DEF Copied, Based, TypeOK
    <2>3. (objects[p] = "all" => objects'[p] = "all")
          /\ (job'[p] = "complete" => objects'[p] = "all")
      BY <1>1 DEF Copied, Based, TypeOK
    <2>4. to # Nil => to.gcsurl \in Proc
      BY DEF Based, TypeOK, Record
    <2>5. QED
      BY <2>1, <2>2, <2>3, <2>4 DEF Finished
  <1>2. CASE Complete(p)
    <2>1. objects' = objects /\ job[p] = "complete" /\ mine[p].gcsurl = p
          /\ \A q \in Proc : job'[q] = "complete" => job[q] = "complete"
      BY <1>2 DEF Complete, Based, TypeOK, Standing, Finished
    <2>2. to' = to \/ to'.gcsurl = p
      BY <1>2, <2>1 DEF Complete, Marked
    <2>3. \A q \in Proc : mine'[q] # Nil => mine'[q].gcsurl = q
      BY OwnRecord
    <2>4. QED
      BY <2>1, <2>2, <2>3 DEF Finished
  <1>3. CASE JobAbort(p)
    <2>1. objects' = objects /\ (to' = to \/ to'.status = "Aborted")
          /\ \A q \in Proc : job'[q] = "complete" => job[q] = "complete"
      BY <1>3 DEF JobAbort, Marked, Based, TypeOK
    <2>2. QED
      BY <2>1, StillFinished
  <1>4. CASE JobStep(p) /\ ~Copied(p) /\ ~Complete(p) /\ ~JobAbort(p)
    <2>1. objects' = objects /\ to' = to
          /\ \A q \in Proc : job'[q] = "complete" => job[q] = "complete"
      BY <1>4 DEF JobStep, JobMutex, JobGet, JobRelease, UnlockSource, UnlockDest,
                  DropLocks, JobFree, Based, TypeOK
    <2>2. QED
      BY <2>1, StillFinished
  <1>5. QED
    BY <1>1, <1>2, <1>3, <1>4

LEMMA NextFinished ==
  Based /\ Based' /\ (OneRequest \/ InHand)' /\ Finished /\ [Next]_vars => Finished'
  <1> SUFFICES ASSUME Based, Based', (OneRequest \/ InHand)', Finished, [Next]_vars
               PROVE  Finished'
    OBVIOUS
  <1>1. ASSUME NEW p \in Proc, Cp(p) \/ CpStep(p) PROVE Finished'
    BY <1>1, CpFinished
  <1>2. ASSUME NEW p \in Proc, JobStep(p) PROVE Finished'
    BY <1>2, JobFinished
  <1>3. ASSUME NEW c \in Client, ClientStep(c) PROVE Finished'
    <2>1. UNCHANGED <<objects, job>> /\ (to' = to \/ to' = Nil)
      BY <1>3 DEF ClientStep, OpenWrite, CloseWrite, ShareSource, DeleteDest, jobv
    <2>2. QED
      BY <2>1, StillFinished
  <1>4. ASSUME \/ UNCHANGED vars \/ ExpireMutex
               \/ \E d \in Dataset, id \in Id : ExpireLock(d, id)
        PROVE  Finished'
    <2>1. UNCHANGED <<objects, job, to>>
      BY <1>4 DEF ExpireMutex, ExpireLock, jobv, vars
    <2>2. QED
      BY <2>1, StillFinished
  <1>5. QED
    BY <1>1, <1>2, <1>3, <1>4 DEF Next

LEMMA InitFinished == Init => Finished
  BY DEF Init, Finished

-----------------------------------------------------------------------------
(* Copies that have their locks have both datasets to themselves.          *)

LEMMA CpOpenings ==
  ASSUME Based, InHand, Openings, NEW p \in Proc, Cp(p) \/ CpStep(p) PROVE Openings'
  <1>1. open' = open /\ past' = past
    BY DEF Cp, CpStep, Find, CreateWriteLock, Source, ReadLock, Legal, Save, Add, Keep,
           Drop, DropLock
  <1>2. CASE CreateWriteLock(p)
    BY <1>1, <1>2 DEF CreateWriteLock, locks, Openings, Based, TypeOK, Dataset
  <1>3. CASE ReadLock(p)
    <2>1. \A d \in Dataset : lock[d] \subseteq lock'[d]
      BY <1>3 DEF ReadLock, Based, TypeOK, Dataset
    <2>2. QED
      BY <1>1, <2>1 DEF Openings
  <1>4. CASE DropLock(p)
    <2>1. lock["destination"] = {<<"W", p>>}
      BY <1>4 DEF DropLock, InHand, InHandOf, Holding, Firm
    <2>2. \A c \in Client : <<c, "destination">> \notin open \/ "destination" \in past
      BY <2>1, CopyAssumption DEF Openings, Dataset
    <2>3. lock'["source"] = lock["source"]
      BY <1>4 DEF DropLock, Based, TypeOK, Dataset
    <2>4. QED
      BY <1>1, <2>2, <2>3 DEF Openings, Dataset
  <1>5. CASE ~(CreateWriteLock(p) \/ ReadLock(p) \/ DropLock(p))
    <2>1. lock' = lock
      BY <1>5 DEF Cp, CpStep, Find, Source, Legal, Save, Add, Keep, Drop, locks
    <2>2. QED
      BY <1>1, <2>1 DEF Openings
  <1>6. QED
    BY <1>2, <1>3, <1>4, <1>5

LEMMA JobOpenings ==
  ASSUME Based, Calm', InHand, Openings, NEW p \in Proc, JobStep(p) PROVE Openings'
  <1>1. open' = open
    BY DEF JobStep, JobMutex, JobGet, Copied, Complete, JobRelease, UnlockSource,
           UnlockDest, DropLocks, JobFree, JobAbort
  <1>2. CASE UnlockSource(p)
    <2>1. job[p] = "unlockSource" /\ past \subseteq past'
          /\ lock'["destination"] = lock["destination"]
      BY <1>2 DEF UnlockSource, Based, TypeOK, Dataset
    <2>2. lock["source"] \ {<<"R", p>>} \subseteq lock'["source"] \/ "source" \in past'
      <3>1. reader[p] = Nil \/ reader[p] = <<"R", p>>
        BY DEF Based, Standing
      <3>2. CASE reader[p] # Nil
        BY <1>2, <3>1, <3>2 DEF UnlockSource, Unlocked, Based, TypeOK, Dataset
      <3>3. CASE reader[p] = Nil
        BY <1>2, <3>3 DEF UnlockSource, Based, TypeOK, Dataset
      <3>4. QED
        BY <3>2, <3>3
    <2>3. QED
      BY <1>1, <2>1, <2>2 DEF Openings, Dataset
  <1>3. CASE UnlockDest(p)
    <2>1. job[p] = "unlockDest" /\ past' = past
      BY <1>3 DEF UnlockDest
    <2>2. lock["destination"] = {<<"W", p>>}
      BY <2>1, JobHas DEF Firm
    <2>3. \A c \in Client : <<c, "destination">> \notin open \/ "destination" \in past
      BY <2>2, CopyAssumption DEF Openings, Dataset
    <2>4. lock'["source"] = lock["source"]
      BY <1>3 DEF UnlockDest, Based, TypeOK, Dataset
    <2>5. QED
      BY <1>1, <2>1, <2>3, <2>4 DEF Openings, Dataset
  <1>4. CASE ~(UnlockSource(p) \/ UnlockDest(p))
    <2>1. ~DropLocks(p)
      BY DEF DropLocks, Calm
    <2>2. lock' = lock /\ past' = past
      BY <1>4, <2>1 DEF JobStep, JobMutex, JobGet, Copied, Complete, JobRelease, JobFree,
                        JobAbort, locks
    <2>3. QED
      BY <1>1, <2>2 DEF Openings
  <1>5. QED
    BY <1>2, <1>3, <1>4

LEMMA ClientOpenings ==
  ASSUME Based, Calm', Openings, NEW c \in Client, ClientStep(c) PROVE Openings'
  <1>1. lock \in [Dataset -> SUBSET Id]
    BY DEF Based, TypeOK
  <1>2. ASSUME NEW d \in Dataset, OpenWrite(c, d) PROVE Openings'
    BY <1>1, <1>2 DEF OpenWrite, Openings
  <1>3. ASSUME NEW d \in Dataset, CloseWrite(c, d) PROVE Openings'
    BY <1>1, <1>3 DEF CloseWrite, Openings
  <1>4. CASE ShareSource(c)
    <2>1. open' = open /\ lock'["destination"] = lock["destination"] /\ past' = past
          /\ lock["source"] \ {<<"R", c>>} \subseteq lock'["source"]
      BY <1>1, <1>4 DEF ShareSource, Dataset
    <2>2. QED
      BY <2>1 DEF Openings, Dataset
  <1>5. ~DeleteDest(c)
    BY DEF DeleteDest, Calm
  <1>6. QED
    BY <1>2, <1>3, <1>4, <1>5 DEF ClientStep

LEMMA ExpireOpenings ==
  ASSUME Based, Openings, NEW d \in Dataset, NEW id \in Id, ExpireLock(d, id)
  PROVE  Openings'
  <1>1. /\ \A e \in Dataset \ {d} : lock'[e] = lock[e]
        /\ lock'[d] = lock[d] \ {id} /\ past \subseteq past'
        /\ open' = {s \in open : s # <<id[2], d>>}
    BY DEF ExpireLock, Based, TypeOK
  <1>2. ASSUME NEW c \in Client, NEW e \in Dataset, <<c, e>> \in open'
        PROVE  <<"W", c>> \in lock'[e] \/ e \in past'
    <2>1. <<c, e>> \in open /\ ~(e = d /\ c = id[2])
      BY <1>1, <1>2
    <2>2. <<"W", c>> \in lock[e] \/ e \in past
      BY <2>1 DEF Openings
    <2>3. e = d => <<"W", c>> # id
      BY <2>1
    <2>4. QED
      BY <1>1, <2>2, <2>3
  <1>3. QED
    BY <1>2 DEF Openings

LEMMA NextOpenings ==
  ASSUME Based, Calm', InHand, Openings, [Next]_vars PROVE Openings'
  <1>1. ASSUME NEW p \in Proc, Cp(p) \/ CpStep(p) PROVE Openings'
    BY <1>1, CpOpenings
  <1>2. ASSUME NEW p \in Proc, JobStep(p) PROVE Openings'
    BY <1>2, JobOpenings
  <1>3. ASSUME NEW c \in Client, ClientStep(c) PROVE Openings'
    BY <1>3, ClientOpenings
  <1>4. ASSUME UNCHANGED vars \/ ExpireMutex PROVE Openings'
    BY <1>4 DEF vars, locks, ExpireMutex, Openings
  <1>5. ASSUME NEW d \in Dataset, NEW id \in Id, ExpireLock(d, id) PROVE Openings'
    BY <1>5, ExpireOpenings
  <1>6. QED
    BY <1>1, <1>2, <1>3, <1>4, <1>5 DEF Next

-----------------------------------------------------------------------------
(* The theorems.                                                           *)

\* What the rest follow from: requests and jobs stand where their labels say,
\* and as long as nothing takes the destination or its lock from a copy, the copy
\* is the only one and no client has its lock.
THEOREM Invariance == Spec => []IInv
  <1>1. Init => IInv
    BY InitBased, InitInHand, InitFinished DEF IInv, Init, Openings
  <1>2. IInv /\ [Next]_vars => IInv'
    <2> SUFFICES ASSUME IInv, [Next]_vars PROVE IInv'
      OBVIOUS
    <2>1. Based /\ Based'
      BY NextBased DEF IInv
    <2>2. (Calm' => Calm) /\ (OneRequest' <=> OneRequest)
      BY CalmBefore, SettingStays DEF OneRequest
    <2>3. Calm' => InHand' /\ Openings'
      BY <2>1, <2>2, NextInHand, NextOpenings DEF IInv
    <2>4. OneRequest' \/ Calm' => Finished'
      BY <2>1, <2>2, <2>3, NextFinished DEF IInv
    <2>5. QED
      BY <2>1, <2>3, <2>4 DEF IInv
  <1>3. QED
    BY <1>1, <1>2, PTL DEF Spec

\* Two copies do not write the destination at the same time: any number of cp
\* requests, also when copies outlast their mutex, as long as no job has dropped
\* its locks, nobody deleted the destination and no copy's lock of it expired.
THEOREM CopiesTakeTurns == Spec => []OneCopy
  <1>1. IInv => OneCopy
    <2> SUFFICES ASSUME InHand, NEW p \in Proc, NEW q \in Proc,
                        job[p] \in {"copy", "complete"}, job[q] \in {"copy", "complete"}
                 PROVE  p = q
      BY DEF IInv, OneCopy
    <2>1. Holding(p) /\ Holding(q)
      BY DEF Holding
    <2>2. QED
      BY <2>1, HolderAlone
  <1>2. QED
    BY <1>1, Invariance, PTL

\* A destination reported as Completed has all its objects: with one request
\* whatever fails, expires and is deleted, and with any number of them as above.
THEOREM CopiesAreComplete == Spec => []CompletedIsComplete
  <1>1. IInv => CompletedIsComplete
    BY DEF IInv, Based, Finished, CompletedIsComplete
  <1>2. QED
    BY <1>1, Invariance, PTL

\* A copy that was asked to lock and whose locks nothing has taken since has both
\* datasets to itself, even when it outlasts its mutex.
THEOREM LockedCopyAlone == Spec => []KeptLocksExcludeWriters
  <1>1. IInv => KeptLocksExcludeWriters
    <2> SUFFICES ASSUME IInv, NEW p \in Proc, NEW d \in Dataset, job[p] = "copy",
                        option[p], past \subseteq {"source"} \ {d},
                        NEW c \in Client, <<c, d>> \in open
                 PROVE  FALSE
      BY DEF KeptLocksExcludeWriters
    <2>1. Based /\ InHand /\ Openings
      BY DEF IInv, Calm
    <2>2. Firm(p)
      BY <2>1, JobHas
    <2>3. <<"W", c>> \in lock[d]
      BY <2>1 DEF Openings
    <2>4. d = "source" /\ "source" \notin past
      BY <2>2, <2>3, CopyAssumption DEF Firm, Dataset
    <2>5. reader[p] = <<"R", p>>
      BY <2>1 DEF Based, Standing
    <2>6. <<"R", p>> \in lock["source"]
      BY <2>2, <2>4, <2>5, Ids DEF Firm
    <2>7. lock["source"] \subseteq ReadId \/ \E w \in WriteId : lock["source"] = {w}
      BY <2>1 DEF Based, LockShape, Dataset
    <2>8. <<"W", c>> \in lock["source"] /\ <<"W", c>> \in WriteId /\ <<"R", p>> \in ReadId
      BY <2>3, <2>4, Ids
    <2>9. QED
      BY <2>6, <2>7, <2>8, Ids
  <1>2. QED
    BY <1>1, Invariance, PTL
=============================================================================
