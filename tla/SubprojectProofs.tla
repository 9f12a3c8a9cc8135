-------------------------- MODULE SubprojectProofs --------------------------
(***************************************************************************)
(* Theorems about Subproject, for any number of datasets, access lists,    *)
(* legal tags, buckets, uuids and failures.  Those that relate several     *)
(* parts of a subproject are about one request at a time, next to the      *)
(* calls that earlier ones left behind.                                    *)
(***************************************************************************)
EXTENDS Subproject, TLAPS

-----------------------------------------------------------------------------
(* Types, and where each request stands.                                   *)

Stored == /\ sub \in Record \cup {Nil}
          /\ datasets \in [Dataset -> Entity \cup {Nil}]
          /\ groups \in SUBSET Group
          /\ buckets \in SUBSET Bucket
          /\ cache \in [Inst -> Record \cup {Nil}]
          /\ tasks \in SUBSET Task
          /\ deleter \in Inst \cup {Nil}
          /\ failures \in 0..MaxFailures
          /\ Kept

\* A request that ends stands nowhere.
LEMMA EndBased ==
  ASSUME Based, NEW p \in Proc, End(p), Stored'
  PROVE  Based'
  <1>1. TypeOK'
    BY DEF Based, TypeOK, End, Goto, Stored, Label, NoEntities
  <1>2. Asked'
    BY <1>1 DEF Based, TypeOK, Asked, End, Goto, Working
  <1>3. QED
    BY <1>1, <1>2 DEF Based, Stored

\* A request that goes on keeps its call, and takes what its next label needs.
LEMMA GoBased ==
  ASSUME Based, NEW p \in Proc, NEW l, Goto(p, l), pc[p] # "idle",
         UNCHANGED <<req, at>>, l \in LabelsOf(req[p].op),
         got' \in [Proc -> Record \cup {Nil}],
         todo' \in [Proc -> [Dataset -> Entity \cup {Nil}]],
         listed' \in [Proc -> SUBSET Dataset],
         \A q \in Proc \ {p} :
           got'[q] = got[q] /\ todo'[q] = todo[q] /\ listed'[q] = listed[q],
         l \in {"idle", "exist", "lookup"} => got'[p] = Nil,
         l \in {"groups", "bucket"} =>
           got'[p] \in Record /\ got'[p].bucket = Nil /\ req[p].op = "create",
         l = "bucket" => \A r \in Role : got'[p].acls[r] \in Group,
         l \in Working => got'[p] \in Complete,
         l \in {"page", "update"} => req[p].recursive /\ got'[p].ltag # req[p].ltag,
         l # "update" => todo'[p] = NoEntities,
         l \in {"page", "update", "save", "fill"} \/ listed'[p] = {},
         Stored'
  PROVE  Based'
  <1>1. l \in Label
    <2>1. req[p].op \in {"create", "get", "delete", "patch", "register"}
      BY DEF Based, Asked, Request
    <2>2. QED
      BY <2>1 DEF LabelsOf, Label
  <1>2. TypeOK'
    BY <1>1 DEF Based, TypeOK, Goto, Stored
  <1>3. Asked'
    BY <1>2 DEF Based, TypeOK, Asked, Goto
  <1>4. QED
    BY <1>2, <1>3 DEF Based, Stored

\* What the services hold when a step leaves them alone.
LEMMA StoredStays ==
  ASSUME Based, UNCHANGED <<remote, cache, tasks>>, failures' \in 0..MaxFailures
  PROVE  Stored'
  BY DEF Based, TypeOK, Stored, remote, Kept

LEMMA Fails ==
  ASSUME Based, Failure PROVE failures' \in 0..MaxFailures /\ failures' > 0
  BY SubprojectAssumption DEF Based, TypeOK, Failure

LEMMA CompleteIsRecord ==
  ASSUME NEW r \in Complete
  PROVE  r \in Record /\ r.ltag \in Ltag /\ r.bucket \in Bucket
         /\ r.acls \in [Role -> Group] /\ r # Nil
  <1>1. r \in Record /\ r.ltag \in Ltag /\ r.bucket \in Bucket
        /\ r.acls \in [Role -> Group]
    BY DEF Complete, Record
  <1>2. QED
    BY <1>1, NilAssumption

LEMMA ResultComplete ==
  ASSUME Based, NEW p \in Proc, pc[p] \in {"save", "fill"}
  PROVE  /\ Result(p) \in Complete
         /\ Result(p).bucket = got[p].bucket
         /\ \A r \in Role : Result(p).acls[r] \in {Own, got[p].acls[r]}
         /\ req[p].op \in {"create", "patch"}
  <1>1. /\ req[p] \in Request /\ WellFormed(req[p]) /\ got[p] \in Complete
        /\ pc[p] \in LabelsOf(req[p].op)
    BY DEF Based, Asked, Working
  <1>2. req[p].op \in {"create", "patch"}
    BY <1>1 DEF LabelsOf, Request
  <1>3. req[p].ltag \in Ltag /\ \A r \in Role : req[p].acls[r] \in {Own, Nil}
    BY <1>1, <1>2 DEF Request, WellFormed
  <1>4. CASE req[p].op = "create"
    BY <1>1, <1>2, <1>4 DEF Result, Complete
  <1>5. CASE req[p].op # "create"
    <2> DEFINE acls == [r \in Role |-> IF req[p].acls[r] # Nil
                                      THEN req[p].acls[r] ELSE got[p].acls[r]]
               tagged == [got[p] EXCEPT !.ltag = req[p].ltag]
    <2>1. got[p].acls \in [Role -> Group] /\ Own \in Group
      BY <1>1 DEF Complete, Group
    <2>2. acls \in [Role -> Group] /\ \A r \in Role : acls[r] \in {Own, got[p].acls[r]}
      BY <1>3, <2>1
    <2>3. tagged \in Complete /\ tagged.acls = got[p].acls
          /\ tagged.bucket = got[p].bucket
      BY <1>1, <1>3 DEF Complete
    <2>4. Result(p) = [tagged EXCEPT !.acls = acls]
      BY <1>5, <2>3 DEF Result
    <2> HIDE DEF acls, tagged
    <2>5. QED
      BY <1>2, <2>2, <2>3, <2>4 DEF Complete
  <1>6. QED
    BY <1>2, <1>4, <1>5

LEMMA InitBased == Init => Based
  <1> SUFFICES ASSUME Init PROVE Based
    OBVIOUS
  <1> QED
    BY SubprojectAssumption
    DEF Init, Based, TypeOK, Asked, Kept, Label, NoEntities, Working

\* A request that is stopped, answered or refused changes nothing else.
LEMMA StoppedBased ==
  ASSUME Based, NEW p \in Proc, Stopped(p) PROVE Based'
  <1>1. End(p) /\ UNCHANGED <<remote, cache, tasks>>
    BY DEF Stopped
  <1>2. failures' \in 0..MaxFailures
    BY Fails DEF Stopped, Based, TypeOK
  <1>3. QED
    BY <1>1, <1>2, StoredStays, EndBased

LEMMA ReceiveBased ==
  ASSUME Based, NEW p \in Proc, Receive(p) PROVE Based'
  <1>1. PICK r \in Request, i \in Inst :
          /\ pc[p] = "idle" /\ WellFormed(r)
          /\ Goto(p, IF r.op = "create" THEN "exist" ELSE "lookup")
          /\ req' = [req EXCEPT ![p] = r] /\ at' = [at EXCEPT ![p] = i]
          /\ UNCHANGED <<remote, cache, tasks, got, pages, failures>>
    BY DEF Receive
  <1>2. Stored'
    BY <1>1, StoredStays DEF Based, TypeOK
  <1>3. TypeOK'
    BY <1>1, <1>2 DEF Based, TypeOK, Stored, Goto, Label, pages
  <1>4. r.op = "create" => "exist" \in LabelsOf(r.op)
    BY DEF LabelsOf
  <1>5. r.op # "create" => "lookup" \in LabelsOf(r.op)
    BY DEF LabelsOf, Request
  <1>6. ASSUME NEW q \in Proc, q # p
        PROVE  pc'[q] = pc[q] /\ req'[q] = req[q] /\ at'[q] = at[q]
               /\ got'[q] = got[q] /\ todo'[q] = todo[q] /\ listed'[q] = listed[q]
    BY <1>1, <1>6 DEF Based, TypeOK, Goto, pages
  <1>7. /\ pc'[p] = (IF r.op = "create" THEN "exist" ELSE "lookup")
        /\ req'[p] = r /\ at'[p] = i /\ got'[p] = Nil /\ todo'[p] = NoEntities
        /\ listed'[p] = {}
        /\ WellFormed(r)
    BY <1>1 DEF Based, TypeOK, Asked, Goto, pages
  <1>8. Asked'
    BY <1>4, <1>5, <1>6, <1>7 DEF Based, Asked, Working
  <1>9. QED
    BY <1>2, <1>3, <1>8 DEF Based, Stored

LEMMA LookupBased ==
  ASSUME Based, NEW p \in Proc, Lookup(p) PROVE Based'
  <1>1. pc[p] = "lookup" /\ UNCHANGED <<remote, cache, tasks, failures>>
    BY DEF Lookup
  <1>2. Stored'
    BY <1>1, StoredStays DEF Based, TypeOK
  <1>3. /\ req[p] \in Request /\ at[p] \in Inst /\ pc[p] \in LabelsOf(req[p].op)
        /\ todo[p] = NoEntities
        /\ (pc[p] \notin {"page", "update", "save", "fill"} => listed[p] = {})
    BY <1>1 DEF Based, Asked
  <1>4. "body" \in LabelsOf(req[p].op) /\ "loaded" \in LabelsOf(req[p].op)
    BY <1>1, <1>3 DEF LabelsOf, Request
  <1>5. CASE End(p)
    BY <1>2, <1>5, EndBased
  <1>6. ASSUME NEW r \in {cache[at[p]], sub}, r # Nil, NEW l \in {"body", "loaded"},
               got' = [got EXCEPT ![p] = r], Goto(p, l), UNCHANGED <<req, at, pages>>
        PROVE  Based'
    <2>1. r \in Complete
      BY <1>3, <1>6 DEF Based, Kept
    <2>2. r \in Record
      BY <2>1, CompleteIsRecord
    <2>3. got' \in [Proc -> Record \cup {Nil}] /\ got'[p] = r
          /\ \A q \in Proc \ {p} : got'[q] = got[q]
      BY <1>6, <2>2 DEF Based, TypeOK
    <2>4. UNCHANGED <<todo, listed>>
      BY <1>6 DEF pages
    <2>5. QED
      BY <1>1, <1>2, <1>3, <1>4, <1>6, <2>1, <2>3, <2>4, GoBased DEF Based, TypeOK, Working
  <1>7. QED
    BY <1>5, <1>6 DEF Lookup

LEMMA LoadedBased ==
  ASSUME Based, NEW p \in Proc, Loaded(p) PROVE Based'
  <1>1. /\ pc[p] = "loaded" /\ at[p] \in Inst /\ got[p] \in Complete
        /\ req[p] \in Request /\ pc[p] \in LabelsOf(req[p].op) /\ todo[p] = NoEntities
        /\ (pc[p] \notin {"page", "update", "save", "fill"} => listed[p] = {})
    BY DEF Loaded, Based, Asked, Working
  <1>2. "body" \in LabelsOf(req[p].op)
    BY <1>1 DEF LabelsOf, Request
  <1>3. Stored'
    BY <1>1, CompleteIsRecord DEF Loaded, Remember, remote, Based, TypeOK, Kept, Stored
  <1>4. QED
    BY <1>1, <1>2, <1>3, GoBased DEF Loaded, Based, TypeOK, pages, Working

LEMMA ExistBased ==
  ASSUME Based, NEW p \in Proc, Exist(p) PROVE Based'
  <1>1. pc[p] = "exist" /\ UNCHANGED <<remote, cache, tasks, failures>>
    BY DEF Exist
  <1>2. Stored'
    BY <1>1, StoredStays DEF Based, TypeOK
  <1>3. /\ req[p] \in Request /\ WellFormed(req[p]) /\ pc[p] \in LabelsOf(req[p].op)
        /\ todo[p] = NoEntities
        /\ (pc[p] \notin {"page", "update", "save", "fill"} => listed[p] = {})
    BY <1>1 DEF Based, Asked
  <1>4. req[p].op = "create"
    BY <1>1, <1>3 DEF LabelsOf, Request
  <1>5. "groups" \in LabelsOf(req[p].op)
    BY <1>4 DEF LabelsOf
  <1> DEFINE r == [ltag |-> req[p].ltag, acls |-> req[p].acls, bucket |-> Nil]
  <1>6. r \in Record /\ r.bucket = Nil
    <2>1. req[p].ltag \in Ltag /\ req[p].acls \in [Role -> {Own, Nil}]
      BY <1>3, <1>4 DEF Request, WellFormed
    <2>2. req[p].acls \in [Role -> Group \cup {Nil}]
      BY <2>1 DEF Group
    <2>3. QED
      BY <2>1, <2>2 DEF Record
  <1>7. CASE End(p)
    BY <1>2, <1>7, EndBased
  <1>8. CASE got' = [got EXCEPT ![p] = r] /\ Goto(p, "groups") /\ UNCHANGED <<req, at, pages>>
    <2> HIDE DEF r
    <2>1. got' \in [Proc -> Record \cup {Nil}] /\ got'[p] = r
          /\ \A q \in Proc \ {p} : got'[q] = got[q]
      BY <1>8, <1>6 DEF Based, TypeOK
    <2>2. QED
      BY <1>1, <1>2, <1>3, <1>4, <1>5, <1>6, <1>8, <2>1, GoBased
      DEF Based, TypeOK, pages, Working
  <1>9. QED
    BY <1>7, <1>8 DEF Exist

LEMMA CreateGroupBased ==
  ASSUME Based, NEW p \in Proc, CreateGroup(p) PROVE Based'
  <1>1. /\ pc[p] = "groups" /\ got[p] \in Record /\ got[p].bucket = Nil /\ req[p].op = "create"
        /\ pc[p] \in LabelsOf(req[p].op) /\ todo[p] = NoEntities
        /\ (pc[p] \notin {"page", "update", "save", "fill"} => listed[p] = {})
    BY DEF CreateGroup, Based, Asked
  <1>2. "bucket" \in LabelsOf(req[p].op)
    BY <1>1 DEF LabelsOf
  <1>3. ASSUME NEW r \in Role, NEW u \in Uuid,
               groups' = groups \cup {<<r, u>>},
               got' = [got EXCEPT ![p].acls[r] = <<r, u>>], UNCHANGED pc
        PROVE  Based'
    <2>1. <<r, u>> \in Group
      BY DEF Group
    <2>2. LET g == [got[p] EXCEPT !.acls[r] = <<r, u>>] IN g \in Record /\ g.bucket = Nil
      BY <1>1, <2>1 DEF Record
    <2>3. got' \in [Proc -> Record \cup {Nil}]
          /\ got'[p] \in Record /\ got'[p].bucket = Nil
          /\ \A q \in Proc \ {p} : got'[q] = got[q]
      BY <1>3, <2>2 DEF Based, TypeOK
    <2>4. Goto(p, "groups")
      BY <1>1, <1>3 DEF Goto, Based, TypeOK
    <2>5. Stored'
      BY <1>3, <2>1 DEF CreateGroup, Based, TypeOK, Kept, Stored
    <2>6. QED
      BY <1>1, <2>3, <2>4, <2>5, GoBased DEF CreateGroup, Based, TypeOK, pages, Working
  <1>4. CASE /\ \A r \in Role : got[p].acls[r] # Nil
             /\ Goto(p, "bucket") /\ UNCHANGED <<groups, got>>
    <2>1. Stored'
      BY <1>4 DEF CreateGroup, Based, TypeOK, Kept, Stored
    <2>2. \A r \in Role : got[p].acls[r] \in Group
      BY <1>1, <1>4 DEF Record
    <2>3. QED
      BY <1>1, <1>2, <1>4, <2>1, <2>2, GoBased
      DEF CreateGroup, Based, TypeOK, pages, Working
  <1>5. QED
    BY <1>3, <1>4 DEF CreateGroup

LEMMA CreateBucketBased ==
  ASSUME Based, NEW p \in Proc, CreateBucket(p) PROVE Based'
  <1>1. /\ pc[p] = "bucket" /\ got[p] \in Record /\ req[p].op = "create"
        /\ pc[p] \in LabelsOf(req[p].op) /\ todo[p] = NoEntities
        /\ (pc[p] \notin {"page", "update", "save", "fill"} => listed[p] = {}) /\ got[p] # Nil
        /\ req[p] \in Request /\ WellFormed(req[p])
        /\ \A r \in Role : got[p].acls[r] \in Group
    BY NilAssumption DEF CreateBucket, Based, Asked
  <1>2. "save" \in LabelsOf(req[p].op)
    BY <1>1 DEF LabelsOf
  <1>3. PICK b \in Bucket : buckets' = buckets \cup {b}
                            /\ got' = [got EXCEPT ![p].bucket = b]
    BY DEF CreateBucket
  <1>4. [got[p] EXCEPT !.bucket = b] \in Complete
    BY <1>1, <1>3 DEF Record, Complete
  <1>5. got' \in [Proc -> Record \cup {Nil}] /\ got'[p] \in Complete
        /\ \A q \in Proc \ {p} : got'[q] = got[q]
    BY <1>3, <1>4, CompleteIsRecord DEF Based, TypeOK
  <1>6. Stored'
    BY <1>3 DEF CreateBucket, Based, TypeOK, Kept, Stored
  <1>7. QED
    BY <1>1, <1>2, <1>5, <1>6, GoBased DEF CreateBucket, Based, TypeOK, pages, Working

LEMMA SaveBased ==
  ASSUME Based, NEW p \in Proc, Save(p) PROVE Based'
  <1>1. /\ pc[p] = "save" /\ got[p] \in Complete /\ todo[p] = NoEntities
        /\ (pc[p] \notin {"page", "update", "save", "fill"} => listed[p] = {})
        /\ req[p] \in Request /\ pc[p] \in LabelsOf(req[p].op)
    BY DEF Save, Based, Asked, Working
  <1>2. "fill" \in LabelsOf(req[p].op)
    BY <1>1 DEF LabelsOf, Request
  <1>3. Result(p) \in Complete
    BY <1>1, ResultComplete
  <1>4. failures' \in 0..MaxFailures
    BY Fails DEF Save, Based, TypeOK
  <1>5. Stored'
    BY <1>3, <1>4, CompleteIsRecord DEF Save, Based, TypeOK, Kept, Stored
  <1>6. CASE End(p)
    BY <1>5, <1>6, EndBased
  <1>7. CASE Goto(p, "fill") /\ UNCHANGED <<req, at, got, pages, failures>>
    BY <1>1, <1>2, <1>5, <1>7, GoBased DEF Based, TypeOK, pages, Working
  <1>8. QED
    BY <1>6, <1>7 DEF Save

LEMMA FillBased ==
  ASSUME Based, NEW p \in Proc, Fill(p) PROVE Based'
  <1>1. Result(p) \in Complete
    BY ResultComplete DEF Fill
  <1>2. Stored'
    BY <1>1, CompleteIsRecord DEF Fill, Remember, remote, Based, TypeOK, Kept, Stored
  <1>3. QED
    BY <1>2, EndBased DEF Fill

LEMMA DeleteBased ==
  ASSUME Based, NEW p \in Proc, Delete(p) PROVE Based'
  <1>1. /\ pc[p] = "body" /\ got[p] \in Complete /\ todo[p] = NoEntities
        /\ (pc[p] \notin {"page", "update", "save", "fill"} => listed[p] = {})
        /\ at[p] \in Inst /\ req[p].op = "delete"
    BY DEF Delete, Based, Asked, Working
  <1>2. "removing" \in LabelsOf(req[p].op)
    BY <1>1 DEF LabelsOf
  <1>3. {Sent("record", p, at[p]), Sent("list", p, at[p])} \in SUBSET Task
    BY <1>1 DEF Sent, Task
  <1>4. Stored'
    BY <1>1, <1>3 DEF Delete, remote, Based, TypeOK, Kept, Stored, Sent
  <1>5. QED
    BY <1>1, <1>2, <1>4, GoBased DEF Delete, Based, TypeOK, pages, Working

LEMMA RemovedBased ==
  ASSUME Based, NEW p \in Proc, Removed(p) PROVE Based'
  <1>1. got[p] \in Complete
    BY DEF Removed, Based, Asked, Working
  <1>2. /\ {Sent("group", Nil, g) : g \in {got[p].acls[r] : r \in Role} \ {Own}}
             \in SUBSET Task
        /\ Sent("bucket", Nil, got[p].bucket) \in Task
    BY <1>1 DEF Complete, Sent, Task
  <1>3. Stored'
    BY <1>2 DEF Removed, remote, Based, TypeOK, Kept, Stored, Sent
  <1>4. QED
    BY <1>3, EndBased DEF Removed

LEMMA PatchBased ==
  ASSUME Based, NEW p \in Proc, Patch(p) PROVE Based'
  <1>1. /\ pc[p] = "body" /\ got[p] \in Complete /\ todo[p] = NoEntities
        /\ (pc[p] \notin {"page", "update", "save", "fill"} => listed[p] = {})
        /\ req[p].op = "patch"
    BY DEF Patch, Based, Asked, Working
  <1>2. "page" \in LabelsOf(req[p].op) /\ "save" \in LabelsOf(req[p].op)
    BY <1>1 DEF LabelsOf
  <1>3. Stored'
    BY StoredStays DEF Patch, Based, TypeOK
  <1>4. CASE req[p].recursive /\ got[p].ltag # req[p].ltag
    <2>1. Goto(p, "page")
      BY <1>4 DEF Patch
    <2>2. QED
      BY <1>1, <1>2, <1>3, <1>4, <2>1, GoBased DEF Patch, Based, TypeOK, pages, Working
  <1>5. CASE ~(req[p].recursive /\ got[p].ltag # req[p].ltag)
    <2>1. Goto(p, "save")
      BY <1>5 DEF Patch
    <2>2. QED
      BY <1>1, <1>2, <1>3, <2>1, GoBased DEF Patch, Based, TypeOK, pages, Working
  <1>6. QED
    BY <1>4, <1>5

LEMMA PageBased ==
  ASSUME Based, NEW p \in Proc, Page(p) PROVE Based'
  <1> DEFINE left == {d \in Dataset \ listed[p] : datasets[d] # Nil}
             copies(ds) == [d \in Dataset |->
                              IF d \in ds /\ datasets[d].ltag = got[p].ltag
                              THEN [datasets[d] EXCEPT !.ltag = req[p].ltag] ELSE Nil]
  <1>1. /\ pc[p] = "page" /\ got[p] \in Complete /\ todo[p] = NoEntities
        /\ (pc[p] \notin {"page", "update", "save", "fill"} => listed[p] = {})
        /\ req[p] \in Request /\ pc[p] \in LabelsOf(req[p].op) /\ WellFormed(req[p])
        /\ req[p].recursive /\ got[p].ltag # req[p].ltag
    BY DEF Page, Based, Asked, Working
  <1>2. req[p].op = "patch" /\ req[p].ltag \in Ltag
    BY <1>1 DEF WellFormed, Request
  <1>3. "save" \in LabelsOf(req[p].op) /\ "update" \in LabelsOf(req[p].op)
    BY <1>2 DEF LabelsOf
  <1>4. UNCHANGED <<remote, cache, tasks, req, at, got, failures>>
    BY DEF Page
  <1>5. Stored'
    BY <1>4, StoredStays DEF Based, TypeOK
  <1>6. CASE Goto(p, "save") /\ UNCHANGED pages
    BY <1>1, <1>3, <1>4, <1>5, <1>6, GoBased DEF Based, TypeOK, pages, Working
  <1>7. ASSUME NEW ds \in SUBSET left,
               todo' = [todo EXCEPT ![p] = copies(ds)],
               listed' = [listed EXCEPT ![p] = @ \cup ds], Goto(p, "update")
        PROVE  Based'
    <2>1. copies(ds) \in [Dataset -> Entity \cup {Nil}]
      <3>1. ASSUME NEW d \in ds
            PROVE  [datasets[d] EXCEPT !.ltag = req[p].ltag] \in Entity
        BY <1>2, <1>7 DEF Based, TypeOK, Entity
      <3>2. QED
        BY <3>1
    <2> HIDE DEF copies
    <2>2. /\ todo' \in [Proc -> [Dataset -> Entity \cup {Nil}]]
          /\ \A q \in Proc \ {p} : todo'[q] = todo[q]
      BY <1>7, <2>1 DEF Based, TypeOK
    <2>3. listed' \in [Proc -> SUBSET Dataset]
      BY <1>7 DEF Based, TypeOK
    <2>4. QED
      BY <1>1, <1>3, <1>4, <1>5, <1>7, <2>2, <2>3, GoBased DEF Based, TypeOK, Working
  <1>8. QED
    BY <1>6, <1>7 DEF Page

LEMMA UpdateBased ==
  ASSUME Based, NEW p \in Proc, Update(p) PROVE Based'
  <1>1. /\ pc[p] = "update" /\ got[p] \in Complete
        /\ req[p] \in Request /\ pc[p] \in LabelsOf(req[p].op)
        /\ req[p].recursive /\ got[p].ltag # req[p].ltag
    BY DEF Update, Based, Asked, Working
  <1>2. "page" \in LabelsOf(req[p].op)
    BY <1>1 DEF LabelsOf, Request
  <1>3. UNCHANGED <<sub, groups, buckets, deleter, cache, tasks, req, at, got, listed, failures>>
    BY DEF Update
  <1>4. CASE /\ \A d \in Dataset : todo[p][d] = Nil
             /\ Goto(p, "page") /\ UNCHANGED <<datasets, todo>>
    <2>1. todo[p] = NoEntities
      BY <1>4 DEF Based, TypeOK, NoEntities
    <2>2. Stored'
      BY <1>3, <1>4, StoredStays DEF Based, TypeOK, remote
    <2>3. QED
      BY <1>1, <1>2, <1>3, <1>4, <2>1, <2>2, GoBased DEF Based, TypeOK, Working
  <1>5. ASSUME NEW d \in Dataset, todo[p][d] # Nil,
               datasets' = [datasets EXCEPT ![d] = todo[p][d]],
               todo' = [todo EXCEPT ![p][d] = Nil], UNCHANGED pc
        PROVE  Based'
    <2>1. Stored'
      BY <1>3, <1>5 DEF Based, TypeOK, Kept, Stored
    <2>2. /\ todo' \in [Proc -> [Dataset -> Entity \cup {Nil}]]
          /\ \A q \in Proc \ {p} : todo'[q] = todo[q]
      BY <1>5 DEF Based, TypeOK
    <2>3. Goto(p, "update")
      BY <1>1, <1>5 DEF Goto, Based, TypeOK
    <2>4. QED
      BY <1>1, <1>3, <2>1, <2>2, <2>3, GoBased DEF Based, TypeOK, Working
  <1>6. QED
    BY <1>4, <1>5 DEF Update

LEMMA RegisterBased ==
  ASSUME Based, NEW p \in Proc, Register(p) PROVE Based'
  <1>1. got[p] \in Complete
    BY DEF Register, Based, Asked, Working
  <1>2. [ltag |-> got[p].ltag, bucket |-> got[p].bucket] \in Entity
    BY <1>1 DEF Complete, Entity
  <1>3. datasets' \in [Dataset -> Entity \cup {Nil}]
    BY <1>2 DEF Register, Based, TypeOK
  <1>4. Stored'
    BY <1>3 DEF Register, Based, TypeOK, Kept, Stored
  <1>5. QED
    BY <1>4, EndBased DEF Register

\* A step of no request.
LEMMA LocalStays ==
  ASSUME Based, UNCHANGED local, Stored' PROVE Based'
  <1>1. TypeOK'
    BY DEF Based, TypeOK, local, pages, Stored
  <1>2. Asked'
    BY DEF Based, Asked, local, pages
  <1>3. QED
    BY <1>1, <1>2 DEF Based, Stored

LEMMA ForgetBased ==
  ASSUME Based, NEW i \in Inst, Forget(i) PROVE Based'
  <1>1. Stored'
    BY DEF Forget, remote, Based, TypeOK, Kept, Stored
  <1>2. QED
    BY <1>1, LocalStays DEF Forget

\* What a call leaves is what was there, or less.
LEMMA EffectLeaves ==
  ASSUME Based, NEW t \in tasks, Effect(t)
  PROVE  /\ sub' \in {sub, Nil}
         /\ \A d \in Dataset : datasets'[d] \in {datasets[d], Nil}
         /\ \A i \in Inst : cache'[i] \in {cache[i], Nil}
         /\ datasets' \in [Dataset -> Entity \cup {Nil}]
         /\ cache' \in [Inst -> Record \cup {Nil}]
         /\ groups' \subseteq groups /\ buckets' \subseteq buckets
         /\ deleter' \in Inst \cup {Nil}
  <1>1. t \in Task /\ (t.kind = "record" => t.on \in Inst) /\ deleter \in Inst \cup {Nil}
    BY DEF Based, TypeOK, Kept
  <1>2. datasets' \in [Dataset -> Entity \cup {Nil}]
        /\ \A d \in Dataset : datasets'[d] \in {datasets[d], Nil}
    BY DEF Based, TypeOK, Effect
  <1>3. cache' \in [Inst -> Record \cup {Nil}]
        /\ \A i \in Inst : cache'[i] \in {cache[i], Nil}
    BY DEF Based, TypeOK, Effect
  <1>4. QED
    BY <1>1, <1>2, <1>3 DEF Effect

LEMMA FollowTyped ==
  ASSUME Based, NEW t \in tasks
  PROVE  /\ Follow(t) \in SUBSET Task
         /\ \A s \in Follow(t) :
              /\ s.by = t.by /\ s.kind \in {"uncache", "dataset"}
              /\ s.kind = "uncache" => s.on \in Inst
              /\ s.kind = "dataset" => s.on \in Dataset
  <1>1. t \in Task /\ (t.kind = "record" => t.on \in Inst)
    BY DEF Based, TypeOK, Kept
  <1>2. CASE t.kind = "record"
    BY <1>1, <1>2 DEF Follow, Sent, Task
  <1>3. CASE t.kind = "list"
    <2>1. Follow(t) = {Sent("dataset", t.by, d) : d \in {d \in Dataset : datasets[d] # Nil}}
      BY <1>3 DEF Follow
    <2>2. QED
      BY <1>1, <2>1 DEF Sent, Task
  <1>4. CASE t.kind \notin {"record", "list"}
    BY <1>4 DEF Follow
  <1>5. QED
    BY <1>2, <1>3, <1>4

LEMMA PerformBased ==
  ASSUME Based, NEW t \in tasks, Perform(t) PROVE Based'
  <1>1. UNCHANGED local /\ Effect(t) /\ tasks' = (tasks \ {t}) \cup Follow(t)
        /\ failures' = failures
    BY DEF Perform
  <1>2. tasks' \in SUBSET Task
    BY <1>1, FollowTyped DEF Based, TypeOK
  <1>3. Kept'
    BY <1>1, EffectLeaves, FollowTyped DEF Based, Kept
  <1>4. Stored'
    BY <1>1, <1>2, <1>3, EffectLeaves DEF Based, TypeOK, Stored
  <1>5. QED
    BY <1>1, <1>4, LocalStays

\* The calls that go on after a rejection.
LEMMA Abandoned ==
  ASSUME Based, NEW t \in tasks, Reject(t)
  PROVE  /\ tasks' \in SUBSET Task
         /\ \A s \in tasks' : \E u \in tasks \ {t} :
              s.kind = u.kind /\ s.on = u.on /\ s.by \in {u.by, Nil}
  <1>1. CASE tasks' = tasks \ {t}
    BY <1>1 DEF Based, TypeOK
  <1>2. CASE tasks' = {[s EXCEPT !.by = IF @ = t.by THEN Nil ELSE @] : s \in tasks \ {t}}
    <2> DEFINE orphan(s) == [s EXCEPT !.by = IF @ = t.by THEN Nil ELSE @]
    <2>1. ASSUME NEW s \in tasks
          PROVE  /\ orphan(s) \in Task /\ orphan(s).kind = s.kind
                 /\ orphan(s).on = s.on /\ orphan(s).by \in {s.by, Nil}
      BY DEF Based, TypeOK, Task
    <2>2. tasks' = {orphan(s) : s \in tasks \ {t}}
      BY <1>2
    <2> HIDE DEF orphan
    <2>3. QED
      BY <2>1, <2>2
  <1>3. QED
    BY <1>1, <1>2 DEF Reject

LEMMA RejectBased ==
  ASSUME Based, NEW t \in tasks, Reject(t) PROVE Based'
  <1>1. failures' \in 0..MaxFailures
    BY Fails DEF Reject
  <1>2. /\ sub' \in {sub, Nil}
        /\ \A i \in Inst : cache'[i] \in {cache[i], Nil}
        /\ datasets' \in [Dataset -> Entity \cup {Nil}]
        /\ cache' \in [Inst -> Record \cup {Nil}]
        /\ groups' \subseteq groups /\ buckets' \subseteq buckets
        /\ deleter' \in Inst \cup {Nil}
    BY EffectLeaves DEF Reject, remote, Based, TypeOK
  <1>3. Kept'
    <2>1. ASSUME NEW s \in tasks'
          PROVE  /\ s.kind \in {"record", "uncache", "list"} => s.on \in Inst
                 /\ s.kind = "dataset" => s.on \in Dataset
      BY Abandoned DEF Based, Kept
    <2>2. QED
      BY <1>2, <2>1 DEF Based, Kept
  <1>4. Stored'
    BY <1>1, <1>2, <1>3, Abandoned DEF Based, TypeOK, Stored
  <1>5. t.by \in Proc \cup {Nil}
    BY DEF Based, TypeOK, Task
  <1>6. CASE t.by = Nil
    BY <1>4, <1>6, LocalStays DEF Reject
  <1>7. CASE t.by # Nil
    BY <1>4, <1>5, <1>7, EndBased DEF Reject
  <1>8. QED
    BY <1>6, <1>7

LEMMA StutterBased ==
  ASSUME Based, UNCHANGED vars PROVE Based'
  <1>1. Stored'
    BY StoredStays DEF vars, Based, TypeOK
  <1>2. QED
    BY <1>1, LocalStays DEF vars

LEMMA NextBased == Based /\ [Next]_vars => Based'
  <1> SUFFICES ASSUME Based, [Next]_vars PROVE Based'
    OBVIOUS
  <1>1. CASE UNCHANGED vars
    BY <1>1, StutterBased
  <1>2. ASSUME NEW p \in Proc, Receive(p) PROVE Based'
    BY <1>2, ReceiveBased
  <1>3. ASSUME NEW p \in Proc, Step(p) PROVE Based'
    BY <1>3, StoppedBased, LookupBased, LoadedBased, ExistBased, CreateGroupBased,
       CreateBucketBased, SaveBased, FillBased, DeleteBased, RemovedBased, PatchBased,
       PageBased, UpdateBased, RegisterBased, EndBased, StoredStays
    DEF Step, Answer, Based, TypeOK
  <1>4. ASSUME NEW t \in tasks, Perform(t) \/ Reject(t) PROVE Based'
    BY <1>4, PerformBased, RejectBased
  <1>5. ASSUME NEW i \in Inst, Forget(i) PROVE Based'
    BY <1>5, ForgetBased
  <1>6. QED
    BY <1>1, <1>2, <1>3, <1>4, <1>5 DEF Next

\* Every variable has its type, a request at a label has what that label needs
\* and a record that is stored or remembered is finished: whatever runs at the
\* same time, at any number of instances.
THEOREM BaseInvariance == Spec => []Based
  BY InitBased, NextBased, PTL DEF Spec

-----------------------------------------------------------------------------
(* Pages of datasets.                                                      *)

\* The whole of what a recursive patch relies on.
Repaged == Paged /\ RecursivePatchComplete

\* What a deletion or a rejected call leaves is written or gone.
LEMMA LeavesRepaged ==
  ASSUME Based, Repaged, UNCHANGED <<pc, req, got, pages>>,
         \A d \in Dataset : datasets'[d] \in {datasets[d], Nil}
  PROVE  Repaged'
  <1>1. listed \in [Proc -> SUBSET Dataset]
    BY DEF Based, TypeOK
  <1>2. Paged'
    BY <1>1 DEF Repaged, Paged, pages
  <1>3. RecursivePatchComplete'
    BY DEF Repaged, RecursivePatchComplete
  <1>4. QED
    BY <1>2, <1>3 DEF Repaged

\* The only request is at no page and not about to save what it has retagged.
LEMMA ElsewhereRepaged ==
  ASSUME OneRequest, Based', NEW p \in Proc,
         pc'[p] \notin {"page", "update", "save"}
  PROVE  Repaged'
  <1>1. \A q \in Proc : q = p
    BY DEF OneRequest
  <1>2. todo'[p] = NoEntities
    BY DEF Based, Asked
  <1>3. Paged'
    BY <1>1, <1>2 DEF Paged, NoEntities
  <1>4. RecursivePatchComplete'
    BY <1>1 DEF RecursivePatchComplete
  <1>5. QED
    BY <1>3, <1>4 DEF Repaged

LEMMA PatchRepaged ==
  ASSUME OneRequest, Based, Based', NEW p \in Proc, Patch(p) PROVE Repaged'
  <1>1. \A q \in Proc : q = p
    BY DEF OneRequest
  <1>2. /\ pc[p] = "body" /\ listed'[p] = {} /\ todo'[p] = NoEntities
        /\ pc' = [pc EXCEPT ![p] = IF req[p].recursive /\ got[p].ltag # req[p].ltag
                                   THEN "page" ELSE "save"]
        /\ UNCHANGED <<got, req>>
    BY DEF Patch, Goto, Based, Asked, pages
  <1>3. Paged'
    BY <1>1, <1>2 DEF Paged, NoEntities
  <1>4. RecursivePatchComplete'
    BY <1>1, <1>2 DEF RecursivePatchComplete, Based, TypeOK
  <1>5. QED
    BY <1>3, <1>4 DEF Repaged

LEMMA PageRepaged ==
  ASSUME OneRequest, Based, Repaged, NEW p \in Proc, Page(p) PROVE Repaged'
  <1> DEFINE left == {d \in Dataset \ listed[p] : datasets[d] # Nil}
  <1>1. \A q \in Proc : q = p
    BY DEF OneRequest
  <1>2. /\ pc[p] = "page" /\ todo[p] = NoEntities /\ got[p].ltag # req[p].ltag
        /\ UNCHANGED <<datasets, got, req>>
    BY DEF Page, Based, Asked, remote
  <1>3. \A d \in listed[p] : datasets[d] # Nil => datasets[d].ltag # got[p].ltag
    BY <1>2 DEF Repaged, Paged, NoEntities, Based, TypeOK
  <1>4. CASE left = {} /\ Goto(p, "save") /\ UNCHANGED pages
    <2>1. \A d \in Dataset : datasets[d] # Nil => datasets[d].ltag # got[p].ltag
      BY <1>3, <1>4
    <2>2. pc'[p] = "save"
      BY <1>4 DEF Goto, Based, TypeOK
    <2>3. Paged'
      BY <1>1, <1>2, <1>4, <2>2 DEF Paged, NoEntities, pages
    <2>4. RecursivePatchComplete'
      BY <1>1, <1>2, <2>1 DEF RecursivePatchComplete
    <2>5. QED
      BY <2>3, <2>4 DEF Repaged
  <1>5. ASSUME NEW ds \in SUBSET left,
               todo' = [todo EXCEPT ![p] =
                 [d \in Dataset |->
                    IF d \in ds /\ datasets[d].ltag = got[p].ltag
                    THEN [datasets[d] EXCEPT !.ltag = req[p].ltag] ELSE Nil]],
               listed' = [listed EXCEPT ![p] = @ \cup ds], Goto(p, "update")
        PROVE  Repaged'
    <2>1. pc'[p] = "update" /\ listed'[p] = listed[p] \cup ds
      BY <1>5 DEF Goto, Based, TypeOK
    <2>2. ASSUME NEW d \in Dataset
          PROVE  /\ todo'[p][d] # Nil => todo'[p][d].ltag = req[p].ltag
                 /\ d \in ds /\ datasets[d].ltag = got[p].ltag => todo'[p][d] # Nil
      <3>1. todo'[p][d] = IF d \in ds /\ datasets[d].ltag = got[p].ltag
                          THEN [datasets[d] EXCEPT !.ltag = req[p].ltag] ELSE Nil
        BY <1>5 DEF Based, TypeOK
      <3>2. CASE d \in ds /\ datasets[d].ltag = got[p].ltag
        <4>1. datasets[d] \in Entity
          BY <1>5, <3>2 DEF Based, TypeOK
        <4>2. req[p].ltag \in Ltag
          <5>1. req[p] \in Request /\ WellFormed(req[p]) /\ req[p].recursive
            BY <1>2 DEF Based, Asked
          <5>2. QED
            BY <5>1 DEF WellFormed, Request
        <4>3. todo'[p][d] \in Entity /\ todo'[p][d].ltag = req[p].ltag
          BY <3>1, <3>2, <4>1, <4>2 DEF Entity
        <4>4. QED
          BY <4>3, NilAssumption
      <3>3. QED
        BY <3>1, <3>2
    <2>3. Paged'
      <3>1. ASSUME NEW d \in listed'[p], datasets[d] # Nil, datasets[d].ltag = got[p].ltag
            PROVE  todo'[p][d] # Nil
        <4>1. d \in ds /\ d \in Dataset
          BY <1>3, <1>5, <2>1, <3>1
        <4>2. QED
          BY <2>2, <3>1, <4>1
      <3>2. QED
        BY <1>1, <1>2, <2>2, <3>1 DEF Paged
    <2>4. RecursivePatchComplete'
      BY <1>1, <2>1 DEF RecursivePatchComplete
    <2>5. QED
      BY <2>3, <2>4 DEF Repaged
  <1>6. QED
    BY <1>4, <1>5 DEF Page

LEMMA UpdateRepaged ==
  ASSUME OneRequest, Based, Repaged, NEW p \in Proc, Update(p) PROVE Repaged'
  <1>1. \A q \in Proc : q = p
    BY DEF OneRequest
  <1>2. /\ pc[p] = "update" /\ got[p].ltag # req[p].ltag
        /\ UNCHANGED <<got, req, listed>>
    BY DEF Update, Based, Asked
  <1>3. \A d \in listed[p] :
          datasets[d] # Nil /\ datasets[d].ltag = got[p].ltag => todo[p][d] # Nil
    BY <1>2 DEF Repaged, Paged
  <1>4. \A d \in Dataset : todo[p][d] # Nil => todo[p][d].ltag = req[p].ltag
    BY DEF Repaged, Paged
  <1>5. CASE Goto(p, "page") /\ UNCHANGED <<datasets, todo>>
    <2>1. pc'[p] = "page"
      BY <1>5 DEF Goto, Based, TypeOK
    <2>2. QED
      BY <1>1, <1>2, <1>3, <1>4, <1>5, <2>1 DEF Repaged, Paged, RecursivePatchComplete
  <1>6. ASSUME NEW d \in Dataset, todo[p][d] # Nil,
               datasets' = [datasets EXCEPT ![d] = todo[p][d]],
               todo' = [todo EXCEPT ![p][d] = Nil], UNCHANGED pc
        PROVE  Repaged'
    <2>1. ASSUME NEW e \in Dataset, e # d
          PROVE  datasets'[e] = datasets[e] /\ todo'[p][e] = todo[p][e]
      BY <1>6, <2>1 DEF Based, TypeOK
    <2>2. datasets'[d].ltag = req[p].ltag /\ todo'[p][d] = Nil
      BY <1>4, <1>6 DEF Based, TypeOK
    <2>3. \A e \in Dataset : todo'[p][e] # Nil => todo'[p][e].ltag = req[p].ltag
      BY <1>4, <2>1, <2>2
    <2>4. \A e \in listed[p] :
            datasets'[e] # Nil /\ datasets'[e].ltag = got[p].ltag => todo'[p][e] # Nil
      BY <1>2, <1>3, <2>1, <2>2 DEF Based, TypeOK
    <2>5. QED
      BY <1>1, <1>2, <1>6, <2>3, <2>4 DEF Repaged, Paged, RecursivePatchComplete
  <1>7. QED
    BY <1>5, <1>6 DEF Update

LEMMA CreateBucketRepaged ==
  ASSUME OneRequest, Based, Based', NEW p \in Proc, CreateBucket(p) PROVE Repaged'
  <1>1. \A q \in Proc : q = p
    BY DEF OneRequest
  <1>2. pc'[p] = "save" /\ req' = req /\ todo'[p] = NoEntities
    BY DEF CreateBucket, Goto, Based, TypeOK, Asked
  <1>3. ~req[p].recursive
    <2>1. req[p] \in Request /\ WellFormed(req[p]) /\ req[p].op = "create"
      BY DEF CreateBucket, Based, Asked
    <2>2. QED
      BY <2>1 DEF WellFormed
  <1>4. QED
    BY <1>1, <1>2, <1>3 DEF Repaged, Paged, RecursivePatchComplete, NoEntities

\* The steps of a request other than those that may take it to a page or to
\* its record.
LEMMA StepElsewhere ==
  ASSUME Based, NEW p \in Proc, Receive(p) \/ Step(p),
         ~Patch(p), ~Page(p), ~Update(p), ~CreateBucket(p)
  PROVE  pc'[p] \notin {"page", "update", "save"}
  <1>1. CASE Receive(p) \/ Lookup(p) \/ Loaded(p) \/ Exist(p) \/ Save(p) \/ Delete(p)
    BY <1>1 DEF Receive, Lookup, Loaded, Exist, Save, Delete, Goto, End, Based, TypeOK
  <1>2. CASE CreateGroup(p)
    BY <1>2 DEF CreateGroup, Goto, Based, TypeOK
  <1>3. CASE Stopped(p) \/ Answer(p) \/ Fill(p) \/ Removed(p) \/ Register(p)
    BY <1>3 DEF Stopped, Answer, Fill, Removed, Register, Goto, End, Based, TypeOK
  <1>4. QED
    BY <1>1, <1>2, <1>3 DEF Step

LEMMA NextRepaged == OneRequest /\ Based /\ Based' /\ Repaged /\ [Next]_vars => Repaged'
  <1> SUFFICES ASSUME OneRequest, Based, Based', Repaged, [Next]_vars PROVE Repaged'
    OBVIOUS
  <1>1. CASE UNCHANGED vars
    BY <1>1, LeavesRepaged DEF vars, remote, local
  <1>2. ASSUME NEW p \in Proc, Receive(p) \/ Step(p) PROVE Repaged'
    BY <1>2, StepElsewhere, ElsewhereRepaged, PatchRepaged, PageRepaged, UpdateRepaged,
       CreateBucketRepaged
  <1>3. ASSUME NEW t \in tasks, Perform(t) PROVE Repaged'
    BY <1>3, EffectLeaves, LeavesRepaged DEF Perform, local
  <1>4. ASSUME NEW t \in tasks, Reject(t) PROVE Repaged'
    <2>1. \A d \in Dataset : datasets'[d] \in {datasets[d], Nil}
      BY <1>4, EffectLeaves DEF Reject, remote
    <2>2. CASE t.by = Nil
      BY <1>4, <2>1, <2>2, LeavesRepaged DEF Reject, local
    <2>3. CASE t.by # Nil
      <3>1. t.by \in Proc
        BY <2>3 DEF Based, TypeOK, Task
      <3>2. pc'[t.by] = "idle"
        BY <1>4, <2>3, <3>1 DEF Reject, End, Goto, Based, TypeOK
      <3>3. QED
        BY <3>1, <3>2, ElsewhereRepaged
    <2>4. QED
      BY <2>2, <2>3
  <1>5. ASSUME NEW i \in Inst, Forget(i) PROVE Repaged'
    BY <1>5, LeavesRepaged DEF Forget, remote, local
  <1>6. QED
    BY <1>1, <1>2, <1>3, <1>4, <1>5 DEF Next

LEMMA InitRepaged == Init => Repaged
  BY DEF Init, Repaged, Paged, RecursivePatchComplete, NoEntities

\* Of one request at a time, next to the deletions that earlier ones left
\* behind: a recursive patch comes to its record when no dataset is left with
\* the old legal tag, however the pages fell and whatever failed before.
THEOREM PatchCompletes == ASSUME OneRequest PROVE Spec => []RecursivePatchComplete
  <1>1. Spec => []Repaged
    BY OneRequest, InitRepaged, NextRepaged, BaseInvariance, PTL DEF Spec
  <1>2. Repaged => RecursivePatchComplete
    BY DEF Repaged
  <1>3. QED
    BY <1>1, <1>2, PTL

-----------------------------------------------------------------------------
(* Buckets and groups.                                                     *)

\* what a step leaves standing
KeepsBucket(b) == b \in buckets' /\ \A t \in tasks' : t.kind = "bucket" => t.on # b
KeepsGroup(g)  == g = Own \/ (g \in groups' /\ \A t \in tasks' : t.kind = "group" => t.on # g)
KeepsRecord(r) == KeepsBucket(r.bucket) /\ \A a \in Role : KeepsGroup(r.acls[a])

NothingDoomed == /\ \A b : Staying(b) => KeepsBucket(b)
                 /\ \A g : Granting(g) => KeepsGroup(g)

LEMMA RecordStays ==
  ASSUME NothingDoomed, NEW r, Standing(r) PROVE KeepsRecord(r)
  BY DEF NothingDoomed, Standing, KeepsRecord

\* What refers to something after a step referred to it before, or to what stays.
LEMMA RefersToStaying ==
  ASSUME Backed, NothingDoomed,
         sub' # Nil => sub' = sub \/ KeepsRecord(sub'),
         \A i \in Inst : cache'[i] # Nil => cache'[i] = cache[i] \/ KeepsRecord(cache'[i]),
         \A d \in Dataset : datasets'[d] # Nil =>
           datasets'[d] = datasets[d] \/ KeepsBucket(datasets'[d].bucket),
         \A p \in Proc :
           /\ pc'[p] \in Working =>
                (pc[p] \in Working /\ got'[p] = got[p]) \/ KeepsRecord(got'[p])
           /\ pc'[p] \in {"groups", "bucket"} =>
                \/ pc[p] \in {"groups", "bucket"} /\ got'[p] = got[p]
                \/ \A a \in Role : got'[p].acls[a] # Nil => KeepsGroup(got'[p].acls[a])
           /\ \A d \in Dataset : todo'[p][d] # Nil =>
                todo'[p][d] = todo[p][d] \/ KeepsBucket(todo'[p][d].bucket)
  PROVE  Backed'
  <1>1. sub' # Nil => KeepsRecord(sub')
    BY RecordStays DEF Backed
  <1>2. \A i \in Inst : cache'[i] # Nil => KeepsRecord(cache'[i])
    BY RecordStays DEF Backed
  <1>3. \A d \in Dataset : datasets'[d] # Nil => KeepsBucket(datasets'[d].bucket)
    BY DEF Backed, NothingDoomed
  <1>4. ASSUME NEW p \in Proc
        PROVE  /\ pc'[p] \in Working => KeepsRecord(got'[p])
               /\ pc'[p] \in {"groups", "bucket"} =>
                    \A a \in Role : got'[p].acls[a] # Nil => KeepsGroup(got'[p].acls[a])
               /\ \A d \in Dataset : todo'[p][d] # Nil => KeepsBucket(todo'[p][d].bucket)
    BY RecordStays DEF Backed, NothingDoomed
  <1>5. QED
    BY <1>1, <1>2, <1>3, <1>4
    DEF Backed, Standing, Staying, Granting, KeepsRecord, KeepsBucket, KeepsGroup

\* Nothing is doomed by a step that sends no call to delete, and carries out none.
LEMMA Harmless ==
  ASSUME buckets \subseteq buckets', groups \subseteq groups',
         \A t \in tasks' : t.kind \in {"group", "bucket"} => t \in tasks
  PROVE  NothingDoomed
  BY DEF NothingDoomed, Staying, Granting, KeepsBucket, KeepsGroup

LEMMA PerformDoomsNothing ==
  ASSUME Based, NEW t \in tasks, Perform(t) PROVE NothingDoomed
  <1>1. \A s \in tasks' : s.kind \in {"group", "bucket"} => s \in tasks
    BY FollowTyped DEF Perform
  <1>2. QED
    BY <1>1
    DEF Perform, Effect, NothingDoomed, Staying, Granting, KeepsBucket, KeepsGroup

LEMMA RejectDoomsNothing ==
  ASSUME Based, NEW t \in tasks, Reject(t) PROVE NothingDoomed
  <1>1. \A s \in tasks' : \E u \in tasks : s.kind = u.kind /\ s.on = u.on
    BY Abandoned
  <1>2. /\ buckets' = buckets \/ (t.kind = "bucket" /\ buckets' = buckets \ {t.on})
        /\ groups' = groups \/ (t.kind = "group" /\ groups' = groups \ {t.on})
    BY DEF Reject, Effect, remote
  <1>3. QED
    BY <1>1, <1>2 DEF NothingDoomed, Staying, Granting, KeepsBucket, KeepsGroup

\* The deletion that is about to clear the storage has removed everything else.
LEMMA Cleared ==
  ASSUME OneRequest, OneInstance, Based, Deleting, NEW p \in Proc, Removed(p)
  PROVE  /\ sub = Nil /\ \A i \in Inst : cache[i] = Nil
         /\ \A d \in Dataset : datasets[d] = Nil
  <1>1. pc[p] = "removing" /\ at[p] \in Inst /\ \A t \in tasks : t.by # p
    BY DEF Removed, Based, Asked
  <1>2. sub = Nil /\ cache[at[p]] = Nil /\ \A d \in Dataset : datasets[d] = Nil
    BY <1>1 DEF Deleting, Sent
  <1>3. QED
    BY <1>1, <1>2 DEF OneInstance

LEMMA RemovedBacked ==
  ASSUME OneRequest, OneInstance, Based, Backed, Deleting, NEW p \in Proc, Removed(p)
  PROVE  Backed'
  <1>1. \A q \in Proc : q = p
    BY DEF OneRequest
  <1>2. pc'[p] = "idle" /\ todo'[p] = NoEntities /\ UNCHANGED <<sub, cache, datasets>>
    BY DEF Removed, End, Goto, Based, TypeOK, remote
  <1>3. QED
    BY <1>1, <1>2, Cleared DEF Backed, Working, NoEntities

\* The end of a request.
LEMMA EndBacked ==
  ASSUME OneRequest, Based, Backed, NothingDoomed, NEW p \in Proc, End(p),
         sub' # Nil => sub' = sub \/ KeepsRecord(sub'),
         \A i \in Inst : cache'[i] # Nil => cache'[i] = cache[i] \/ KeepsRecord(cache'[i]),
         \A d \in Dataset : datasets'[d] # Nil =>
           datasets'[d] = datasets[d] \/ KeepsBucket(datasets'[d].bucket)
  PROVE  Backed'
  <1>1. \A q \in Proc : q = p
    BY DEF OneRequest
  <1>2. pc'[p] = "idle" /\ todo'[p] = NoEntities
    BY DEF End, Goto, Based, TypeOK
  <1>3. QED
    BY <1>1, <1>2, RefersToStaying DEF Working, NoEntities

\* A request goes on with the record it has, or with one that stays.
LEMMA GoBacked ==
  ASSUME OneRequest, Based, Backed, NothingDoomed, NEW p \in Proc,
         UNCHANGED <<sub, datasets, todo>>,
         \A i \in Inst : cache'[i] # Nil => cache'[i] = cache[i] \/ KeepsRecord(cache'[i]),
         \/ pc'[p] \notin Working \cup {"groups", "bucket"}
         \/ pc[p] \in Working /\ pc'[p] \in Working /\ got'[p] = got[p]
         \/ pc'[p] \in Working /\ KeepsRecord(got'[p])
         \/ /\ pc'[p] \in {"groups", "bucket"}
            /\ \A a \in Role : got'[p].acls[a] # Nil => KeepsGroup(got'[p].acls[a])
  PROVE  Backed'
  <1>1. \A q \in Proc : q = p
    BY DEF OneRequest
  <1>2. QED
    BY <1>1, RefersToStaying DEF Working

LEMMA StoppedBacked ==
  ASSUME OneRequest, Based, Backed, NEW p \in Proc,
         Stopped(p) \/ Answer(p) PROVE Backed'
  <1>1. End(p) /\ UNCHANGED <<remote, cache, tasks>>
    BY DEF Stopped, Answer
  <1>2. NothingDoomed
    BY <1>1, Harmless DEF remote
  <1>3. QED
    BY <1>1, <1>2, EndBacked DEF remote

LEMMA ReceiveBacked ==
  ASSUME OneRequest, Based, Backed, NEW p \in Proc, Receive(p) PROVE Backed'
  <1>1. pc'[p] \in {"exist", "lookup"} /\ UNCHANGED <<remote, cache, tasks, todo>>
    BY DEF Receive, Goto, Based, TypeOK, pages
  <1>2. NothingDoomed
    BY <1>1, Harmless DEF remote
  <1>3. QED
    BY <1>1, <1>2, GoBacked DEF Working, remote

LEMMA LookupBacked ==
  ASSUME OneRequest, Based, Backed, NEW p \in Proc, Lookup(p) PROVE Backed'
  <1>1. UNCHANGED <<remote, cache, tasks>> /\ pc[p] = "lookup" /\ at[p] \in Inst
    BY DEF Lookup, Based, Asked
  <1>2. NothingDoomed
    BY <1>1, Harmless DEF remote
  <1>3. CASE End(p)
    BY <1>1, <1>2, <1>3, EndBacked DEF remote
  <1>4. ASSUME NEW r, r # Nil, r = cache[at[p]] \/ r = sub,
               got' = [got EXCEPT ![p] = r],
               NEW l \in {"body", "loaded"}, Goto(p, l), UNCHANGED todo
        PROVE  Backed'
    <2>1. KeepsRecord(r)
      BY <1>1, <1>2, <1>4, RecordStays DEF Backed
    <2>2. got'[p] = r /\ pc'[p] = l
      BY <1>4 DEF Goto, Based, TypeOK
    <2>3. KeepsRecord(got'[p])
      BY <2>1, <2>2
    <2>4. QED
      BY <1>1, <1>2, <1>4, <2>2, <2>3, GoBacked DEF Working, remote
  <1>5. QED
    BY <1>3, <1>4 DEF Lookup, pages

LEMMA LoadedBacked ==
  ASSUME OneRequest, Based, Backed, NEW p \in Proc, Loaded(p) PROVE Backed'
  <1>1. NothingDoomed
    BY Harmless DEF Loaded, remote
  <1>2. pc[p] = "loaded" /\ pc'[p] = "body" /\ got' = got
    BY DEF Loaded, Goto, Based, TypeOK
  <1>3. KeepsRecord(got[p])
    BY <1>1, <1>2, RecordStays DEF Backed, Working
  <1>4. \A i \in Inst : cache'[i] = cache[i] \/ cache'[i] = got[p]
    BY DEF Loaded, Remember, Based, TypeOK
  <1>5. QED
    BY <1>1, <1>2, <1>3, <1>4, GoBacked DEF Loaded, remote, pages, Working

LEMMA ExistBacked ==
  ASSUME OneRequest, Based, Backed, NEW p \in Proc, Exist(p) PROVE Backed'
  <1>1. UNCHANGED <<remote, cache, tasks>> /\ pc[p] = "exist" /\ req[p] \in Request
    BY DEF Exist, Based, Asked
  <1>2. NothingDoomed
    BY <1>1, Harmless DEF remote
  <1>3. CASE End(p)
    BY <1>1, <1>2, <1>3, EndBacked DEF remote
  <1>4. CASE ~End(p)
    <2>1. /\ pc'[p] = "groups" /\ got'[p].acls = req[p].acls /\ UNCHANGED todo
      BY <1>4 DEF Exist, Goto, Based, TypeOK, pages
    <2>2. \A a \in Role : got'[p].acls[a] # Nil => got'[p].acls[a] = Own
      BY <1>1, <2>1 DEF Request
    <2>3. QED
      BY <1>1, <1>2, <2>1, <2>2, GoBacked DEF remote, KeepsGroup
  <1>5. QED
    BY <1>3, <1>4

LEMMA CreateGroupBacked ==
  ASSUME OneRequest, Based, Backed, NEW p \in Proc, CreateGroup(p) PROVE Backed'
  <1>1. /\ pc[p] = "groups" /\ got[p] \in Record
        /\ UNCHANGED <<sub, datasets, buckets, cache, tasks, todo>>
    BY DEF CreateGroup, Based, Asked, pages
  <1>2. \A a \in Role : got[p].acls[a] # Nil => Granting(got[p].acls[a])
    BY <1>1 DEF Backed
  <1>3. ASSUME NEW r \in Role, NEW u \in Uuid, Unused(<<r, u>>),
               groups' = groups \cup {<<r, u>>},
               got' = [got EXCEPT ![p].acls[r] = <<r, u>>], UNCHANGED pc
        PROVE  Backed'
    <2>1. NothingDoomed
      BY <1>1, <1>3, Harmless
    <2>2. KeepsGroup(<<r, u>>)
      BY <1>1, <1>3 DEF KeepsGroup, Unused
    <2>3. \A a \in Role : got'[p].acls[a] = (IF a = r THEN <<r, u>> ELSE got[p].acls[a])
      BY <1>1, <1>3 DEF Based, TypeOK, Record
    <2>4. \A a \in Role : got'[p].acls[a] # Nil => KeepsGroup(got'[p].acls[a])
      BY <1>2, <2>1, <2>2, <2>3 DEF NothingDoomed
    <2>5. QED
      BY <1>1, <1>3, <2>1, <2>4, GoBacked
  <1>4. CASE Goto(p, "bucket") /\ UNCHANGED <<groups, got>>
    <2>1. NothingDoomed
      BY <1>1, <1>4, Harmless
    <2>2. pc'[p] = "bucket"
      BY <1>4 DEF Goto, Based, TypeOK
    <2>3. QED
      BY <1>1, <1>2, <1>4, <2>1, <2>2, GoBacked DEF NothingDoomed
  <1>5. QED
    BY <1>3, <1>4 DEF CreateGroup

LEMMA CreateBucketBacked ==
  ASSUME OneRequest, Based, Backed, NEW p \in Proc, CreateBucket(p) PROVE Backed'
  <1>1. /\ pc[p] = "bucket" /\ got[p] \in Record /\ pc'[p] = "save"
        /\ UNCHANGED <<sub, datasets, groups, cache, tasks, todo>>
        /\ \A a \in Role : got[p].acls[a] \in Group
    BY DEF CreateBucket, Based, TypeOK, Asked, pages, Goto
  <1>2. PICK b \in Bucket : /\ Unused(b) /\ buckets' = buckets \cup {b}
                             /\ got' = [got EXCEPT ![p].bucket = b]
    BY DEF CreateBucket
  <1>3. NothingDoomed
    BY <1>1, <1>2, Harmless
  <1>4. KeepsBucket(b)
    BY <1>1, <1>2 DEF KeepsBucket, Unused
  <1>5. got'[p].bucket = b /\ got'[p].acls = got[p].acls
    BY <1>1, <1>2 DEF Based, TypeOK, Record
  <1>6. \A a \in Role : KeepsGroup(got[p].acls[a])
    <2>1. \A a \in Role : got[p].acls[a] # Nil
      BY <1>1, NilAssumption
    <2>2. QED
      BY <1>1, <1>3, <2>1 DEF Backed, NothingDoomed
  <1>7. KeepsRecord(got'[p])
    BY <1>4, <1>5, <1>6 DEF KeepsRecord
  <1>8. QED
    BY <1>1, <1>3, <1>7, GoBacked DEF Working

LEMMA ResultStays ==
  ASSUME Based, Backed, NothingDoomed, NEW p \in Proc, pc[p] \in {"save", "fill"}
  PROVE  KeepsRecord(Result(p))
  <1>1. KeepsRecord(got[p])
    BY RecordStays DEF Backed, Working
  <1>2. QED
    BY <1>1, ResultComplete DEF KeepsRecord, KeepsGroup

LEMMA SaveBacked ==
  ASSUME OneRequest, Based, Backed, NEW p \in Proc, Save(p) PROVE Backed'
  <1>1. \A q \in Proc : q = p
    BY DEF OneRequest
  <1>2. NothingDoomed
    BY Harmless DEF Save
  <1>3. pc[p] = "save" /\ KeepsRecord(sub')
        /\ UNCHANGED <<datasets, cache>>
    BY <1>2, ResultStays DEF Save
  <1>4. CASE End(p)
    BY <1>2, <1>3, <1>4, EndBacked
  <1>5. CASE Goto(p, "fill") /\ UNCHANGED <<got, pages>>
    <2>1. pc'[p] = "fill" /\ UNCHANGED todo
      BY <1>5 DEF Goto, Based, TypeOK, pages
    <2>2. QED
      BY <1>1, <1>2, <1>3, <1>5, <2>1, RefersToStaying DEF Working
  <1>6. QED
    BY <1>4, <1>5 DEF Save

LEMMA FillBacked ==
  ASSUME OneRequest, Based, Backed, NEW p \in Proc, Fill(p) PROVE Backed'
  <1>1. NothingDoomed
    BY Harmless DEF Fill, remote
  <1>2. KeepsRecord(Result(p))
    BY <1>1, ResultStays DEF Fill
  <1>3. \A i \in Inst : cache'[i] = cache[i] \/ cache'[i] = Result(p)
    BY DEF Fill, Remember, Based, TypeOK
  <1>4. QED
    BY <1>1, <1>2, <1>3, EndBacked DEF Fill, remote

LEMMA BodyBacked ==
  ASSUME OneRequest, Based, Backed, NEW p \in Proc, Delete(p) \/ Patch(p)
  PROVE  Backed'
  <1>1. /\ pc[p] = "body" /\ pc'[p] \in {"removing", "page", "save"} /\ got' = got
        /\ UNCHANGED <<remote, cache, pages>>
    BY DEF Delete, Patch, Goto, Based, TypeOK
  <1>2. \A t \in tasks' : t.kind \in {"group", "bucket"} => t \in tasks
    BY DEF Delete, Patch, Sent
  <1>3. NothingDoomed
    BY <1>1, <1>2, Harmless DEF remote
  <1>4. QED
    BY <1>1, <1>3, GoBacked DEF remote, pages, Working

LEMMA PageBacked ==
  ASSUME OneRequest, Based, Backed, NEW p \in Proc, Page(p) PROVE Backed'
  <1> DEFINE left == {d \in Dataset \ listed[p] : datasets[d] # Nil}
  <1>1. \A q \in Proc : q = p
    BY DEF OneRequest
  <1>2. /\ pc[p] = "page" /\ pc'[p] \in {"save", "update"} /\ got' = got
        /\ UNCHANGED <<remote, cache, tasks>>
    BY DEF Page, Goto, Based, TypeOK
  <1>3. NothingDoomed
    BY <1>2, Harmless DEF remote
  <1>4. CASE UNCHANGED pages
    BY <1>2, <1>3, <1>4, GoBacked DEF remote, pages, Working
  <1>5. ASSUME NEW ds \in SUBSET left,
               todo' = [todo EXCEPT ![p] =
                 [d \in Dataset |->
                    IF d \in ds /\ datasets[d].ltag = got[p].ltag
                    THEN [datasets[d] EXCEPT !.ltag = req[p].ltag] ELSE Nil]]
        PROVE  Backed'
    <2>1. ASSUME NEW d \in Dataset, todo'[p][d] # Nil
          PROVE  KeepsBucket(todo'[p][d].bucket)
      <3>1. d \in ds /\ todo'[p][d] = [datasets[d] EXCEPT !.ltag = req[p].ltag]
        BY <1>5, <2>1 DEF Based, TypeOK
      <3>2. datasets[d] # Nil /\ datasets[d] \in Entity
        BY <1>5, <3>1 DEF Based, TypeOK
      <3>3. todo'[p][d].bucket = datasets[d].bucket
        BY <3>1, <3>2 DEF Entity
      <3>4. QED
        BY <1>3, <3>2, <3>3 DEF Backed, NothingDoomed
    <2>2. QED
      BY <1>1, <1>2, <1>3, <2>1, RefersToStaying DEF remote, Working
  <1>6. QED
    BY <1>4, <1>5 DEF Page

LEMMA UpdateBacked ==
  ASSUME OneRequest, Based, Backed, NEW p \in Proc, Update(p) PROVE Backed'
  <1>1. \A q \in Proc : q = p
    BY DEF OneRequest
  <1>2. /\ pc[p] = "update" /\ pc'[p] \in {"update", "page"}
        /\ UNCHANGED <<sub, groups, buckets, cache, tasks, got>>
    BY DEF Update, Goto, Based, TypeOK
  <1>3. NothingDoomed
    BY <1>2, Harmless
  <1>4. CASE UNCHANGED <<datasets, todo>>
    BY <1>2, <1>3, <1>4, GoBacked DEF Working
  <1>5. ASSUME NEW d \in Dataset, todo[p][d] # Nil,
               datasets' = [datasets EXCEPT ![d] = todo[p][d]],
               todo' = [todo EXCEPT ![p][d] = Nil]
        PROVE  Backed'
    <2>1. KeepsBucket(todo[p][d].bucket)
      BY <1>3, <1>5 DEF Backed, NothingDoomed
    <2>2. \A e \in Dataset : datasets'[e] = datasets[e] \/ datasets'[e] = todo[p][d]
      BY <1>5 DEF Based, TypeOK
    <2>3. \A e \in Dataset : todo'[p][e] \in {todo[p][e], Nil}
      BY <1>5 DEF Based, TypeOK
    <2>4. QED
      BY <1>1, <1>2, <1>3, <2>1, <2>2, <2>3, RefersToStaying DEF Working
  <1>6. QED
    BY <1>4, <1>5 DEF Update

LEMMA RegisterBacked ==
  ASSUME OneRequest, Based, Backed, NEW p \in Proc, Register(p) PROVE Backed'
  <1>1. pc[p] = "body" /\ End(p) /\ UNCHANGED <<sub, groups, buckets, cache, tasks>>
    BY DEF Register
  <1>2. NothingDoomed
    BY <1>1, Harmless
  <1>3. KeepsBucket(got[p].bucket)
    BY <1>1, <1>2 DEF Backed, Standing, NothingDoomed, Working
  <1>4. \A d \in Dataset : datasets'[d] = datasets[d] \/
          datasets'[d] = [ltag |-> got[p].ltag, bucket |-> got[p].bucket]
    BY DEF Register, Based, TypeOK
  <1>5. QED
    BY <1>1, <1>2, <1>3, <1>4, EndBacked

\* A step of no request, that only removes.
LEMMA LeavesBacked ==
  ASSUME Backed, NothingDoomed, UNCHANGED local,
         sub' \in {sub, Nil}, \A i \in Inst : cache'[i] \in {cache[i], Nil},
         \A d \in Dataset : datasets'[d] \in {datasets[d], Nil}
  PROVE  Backed'
  BY RefersToStaying DEF local, pages

LEMMA RejectBacked ==
  ASSUME OneRequest, Based, Backed, NEW t \in tasks, Reject(t) PROVE Backed'
  <1>1. NothingDoomed
    BY RejectDoomsNothing
  <1>2. /\ sub' \in {sub, Nil} /\ \A i \in Inst : cache'[i] \in {cache[i], Nil}
        /\ \A d \in Dataset : datasets'[d] \in {datasets[d], Nil}
    BY EffectLeaves DEF Reject, remote
  <1>3. CASE t.by = Nil
    BY <1>1, <1>2, <1>3, LeavesBacked DEF Reject
  <1>4. CASE t.by # Nil
    <2>1. t.by \in Proc
      BY <1>4 DEF Based, TypeOK, Task
    <2>2. QED
      BY <1>1, <1>2, <1>4, <2>1, EndBacked DEF Reject
  <1>5. QED
    BY <1>3, <1>4

LEMMA NextBacked ==
  OneRequest /\ OneInstance /\ Based /\ Backed /\ Deleting /\ [Next]_vars => Backed'
  <1> SUFFICES ASSUME OneRequest, OneInstance, Based, Backed, Deleting, [Next]_vars
               PROVE  Backed'
    OBVIOUS
  <1>1. CASE UNCHANGED vars
    <2>1. NothingDoomed
      BY <1>1, Harmless DEF vars, remote
    <2>2. QED
      BY <1>1, <2>1, LeavesBacked DEF vars, remote
  <1>2. ASSUME NEW p \in Proc, Receive(p) PROVE Backed'
    BY <1>2, ReceiveBacked
  <1>3. ASSUME NEW p \in Proc, Step(p) PROVE Backed'
    BY <1>3, StoppedBacked, LookupBacked, LoadedBacked, ExistBacked, CreateGroupBacked,
       CreateBucketBacked, SaveBacked, FillBacked, BodyBacked, RemovedBacked, PageBacked,
       UpdateBacked, RegisterBacked
    DEF Step
  <1>4. ASSUME NEW t \in tasks, Perform(t) PROVE Backed'
    BY <1>4, PerformDoomsNothing, EffectLeaves, LeavesBacked DEF Perform
  <1>5. ASSUME NEW t \in tasks, Reject(t) PROVE Backed'
    BY <1>5, RejectBacked
  <1>6. ASSUME NEW i \in Inst, Forget(i) PROVE Backed'
    <2>1. NothingDoomed
      BY <1>6, Harmless DEF Forget, remote
    <2>2. \A j \in Inst : cache'[j] \in {cache[j], Nil}
      BY <1>6 DEF Forget, Based, TypeOK
    <2>3. QED
      BY <1>6, <2>1, <2>2, LeavesBacked DEF Forget, remote
  <1>7. QED
    BY <1>1, <1>2, <1>3, <1>4, <1>5, <1>6 DEF Next

-----------------------------------------------------------------------------
(* A deletion under way.                                                   *)

LEMMA StepRemoving ==
  ASSUME Based, NEW p \in Proc, Receive(p) \/ Step(p), ~Delete(p)
  PROVE  pc'[p] # "removing"
  <1>1. CASE Receive(p) \/ Lookup(p) \/ Loaded(p) \/ Exist(p) \/ Save(p)
    BY <1>1 DEF Receive, Lookup, Loaded, Exist, Save, Goto, End, Based, TypeOK
  <1>2. CASE CreateGroup(p) \/ CreateBucket(p) \/ Patch(p) \/ Page(p) \/ Update(p)
    BY <1>2 DEF CreateGroup, CreateBucket, Patch, Page, Update, Goto, Based, TypeOK
  <1>3. CASE Stopped(p) \/ Answer(p) \/ Fill(p) \/ Removed(p) \/ Register(p)
    BY <1>3 DEF Stopped, Answer, Fill, Removed, Register, Goto, End, Based, TypeOK
  <1>4. QED
    BY <1>1, <1>2, <1>3 DEF Step

LEMMA StepDeleting ==
  ASSUME OneRequest, Based, NEW p \in Proc, Receive(p) \/ Step(p) PROVE Deleting'
  <1>1. \A q \in Proc : q = p
    BY DEF OneRequest
  <1>2. CASE Delete(p)
    <2>1. UNCHANGED at /\ {Sent("record", p, at[p]), Sent("list", p, at[p])} \subseteq tasks'
      BY <1>2 DEF Delete
    <2>2. QED
      BY <1>1, <2>1 DEF Deleting, Sent
  <1>3. CASE ~Delete(p)
    BY <1>1, <1>3, StepRemoving DEF Deleting
  <1>4. QED
    BY <1>2, <1>3

\* What a call of another request leaves of the calls of p, and what one of p
\* does for its deletion.
LEMMA PerformDeleting ==
  ASSUME Based, Deleting, NEW t \in tasks, Perform(t) PROVE Deleting'
  <1> SUFFICES ASSUME NEW p \in Proc, pc[p] = "removing"
               PROVE  /\ \/ Sent("record", p, at[p]) \in tasks'
                         \/ sub' = Nil /\ \/ Sent("uncache", p, at[p]) \in tasks'
                                          \/ cache'[at[p]] = Nil
                      /\ \/ \E s \in tasks' : s.by = p /\ s.kind = "list"
                         \/ \A d \in Dataset : datasets'[d] # Nil =>
                              Sent("dataset", p, d) \in tasks'
    BY DEF Deleting, Perform, local
  <1>1. Effect(t) /\ tasks' = (tasks \ {t}) \cup Follow(t) /\ t \in Task /\ at[p] \in Inst
    BY DEF Perform, Based, TypeOK, Asked
  <1>2. \/ Sent("record", p, at[p]) \in tasks'
        \/ sub' = Nil /\ (Sent("uncache", p, at[p]) \in tasks' \/ cache'[at[p]] = Nil)
    <2>1. CASE Sent("record", p, at[p]) \in tasks
      <3>1. CASE t = Sent("record", p, at[p])
        <4>1. t.kind = "record" /\ t.by = p /\ t.on = at[p]
          BY <3>1 DEF Sent
        <4>2. Follow(t) = {Sent("uncache", t.by, t.on)} /\ sub' = Nil
          BY <1>1, <4>1 DEF Follow, Effect
        <4>3. QED
          BY <1>1, <4>1, <4>2
      <3>2. CASE t # Sent("record", p, at[p])
        BY <1>1, <2>1, <3>2
      <3>3. QED
        BY <3>1, <3>2
    <2>2. CASE sub = Nil /\ Sent("uncache", p, at[p]) \in tasks
      <3>1. sub' = Nil
        BY <1>1, <2>2 DEF Effect
      <3>2. CASE t = Sent("uncache", p, at[p])
        <4>1. t.kind = "uncache" /\ t.on = at[p]
          BY <3>2 DEF Sent
        <4>2. QED
          BY <1>1, <3>1, <4>1 DEF Effect, Based, TypeOK
      <3>3. CASE t # Sent("uncache", p, at[p])
        BY <1>1, <2>2, <3>1, <3>3
      <3>4. QED
        BY <3>2, <3>3
    <2>3. CASE sub = Nil /\ cache[at[p]] = Nil
      BY <1>1, <2>3, EffectLeaves DEF Effect
    <2>4. QED
      BY <2>1, <2>2, <2>3 DEF Deleting
  <1>3. \/ \E s \in tasks' : s.by = p /\ s.kind = "list"
        \/ \A d \in Dataset : datasets'[d] # Nil => Sent("dataset", p, d) \in tasks'
    <2>1. ASSUME NEW s \in tasks, s.by = p, s.kind = "list"
          PROVE  \/ \E u \in tasks' : u.by = p /\ u.kind = "list"
                 \/ \A d \in Dataset : datasets'[d] # Nil =>
                      Sent("dataset", p, d) \in tasks'
      <3>1. CASE s = t
        <4>1. Follow(t) = {Sent("dataset", p, d) : d \in {d \in Dataset : datasets[d] # Nil}}
              /\ datasets' = datasets
          BY <1>1, <2>1, <3>1 DEF Follow, Effect
        <4>2. QED
          BY <1>1, <4>1
      <3>2. CASE s # t
        BY <1>1, <2>1, <3>2
      <3>3. QED
        BY <3>1, <3>2
    <2>2. CASE \A d \in Dataset : datasets[d] # Nil => Sent("dataset", p, d) \in tasks
      <3>1. ASSUME NEW d \in Dataset, datasets'[d] # Nil
            PROVE  Sent("dataset", p, d) \in tasks'
        <4>1. datasets[d] # Nil /\ Sent("dataset", p, d) \in tasks
          BY <1>1, <2>2, <3>1, EffectLeaves
        <4>2. t # Sent("dataset", p, d)
          BY <1>1, <3>1 DEF Effect, Sent, Based, TypeOK
        <4>3. QED
          BY <1>1, <4>1, <4>2
      <3>2. QED
        BY <3>1
    <2>3. QED
      BY <2>1, <2>2 DEF Deleting
  <1>4. QED
    BY <1>2, <1>3

\* The only request ends with a call of its own; one of nobody's is no loss.
LEMMA RejectDeleting ==
  ASSUME OneRequest, Based, Deleting, NEW t \in tasks, Reject(t) PROVE Deleting'
  <1>1. t.by \in Proc \cup {Nil} /\ Nil \notin Proc
    BY SubprojectAssumption DEF Based, TypeOK, Task
  <1>2. CASE t.by # Nil
    <2>1. pc'[t.by] = "idle"
      BY <1>1, <1>2 DEF Reject, End, Goto, Based, TypeOK
    <2>2. QED
      BY <1>1, <1>2, <2>1 DEF OneRequest, Deleting
  <1>3. CASE t.by = Nil
    <2>1. tasks' = tasks \ {t} /\ UNCHANGED local
      BY <1>3 DEF Reject
    <2>2. \A s \in tasks : s.by \in Proc => s \in tasks'
      BY <1>1, <1>3, <2>1
    <2>3. /\ sub' \in {sub, Nil} /\ \A i \in Inst : cache'[i] \in {cache[i], Nil}
          /\ \A d \in Dataset : datasets'[d] \in {datasets[d], Nil}
      BY EffectLeaves DEF Reject, remote
    <2>4. \A p \in Proc : \A k, x : Sent(k, p, x) \in tasks => Sent(k, p, x) \in tasks'
      BY <2>2 DEF Sent
    <2>5. \A p \in Proc : pc[p] = "removing" => at[p] \in Inst
      BY DEF Based, Asked
    <2>6. QED
      BY <2>1, <2>2, <2>3, <2>4, <2>5 DEF Deleting, local
  <1>4. QED
    BY <1>2, <1>3

LEMMA NextDeleting == OneRequest /\ Based /\ Deleting /\ [Next]_vars => Deleting'
  <1> SUFFICES ASSUME OneRequest, Based, Deleting, [Next]_vars PROVE Deleting'
    OBVIOUS
  <1>1. CASE UNCHANGED vars
    BY <1>1 DEF vars, remote, local, Deleting
  <1>2. ASSUME NEW p \in Proc, Receive(p) \/ Step(p) PROVE Deleting'
    BY <1>2, StepDeleting
  <1>3. ASSUME NEW t \in tasks, Perform(t) \/ Reject(t) PROVE Deleting'
    BY <1>3, PerformDeleting, RejectDeleting
  <1>4. ASSUME NEW i \in Inst, Forget(i) PROVE Deleting'
    <2>1. \A p \in Proc : pc[p] = "removing" => at[p] \in Inst
      BY DEF Based, Asked
    <2>2. \A j \in Inst : cache'[j] \in {cache[j], Nil}
      BY <1>4 DEF Forget, Based, TypeOK
    <2>3. QED
      BY <1>4, <2>1, <2>2 DEF Forget, remote, local, Deleting
  <1>5. QED
    BY <1>1, <1>2, <1>3, <1>4 DEF Next

LEMMA InitStanding == Init => Backed /\ Deleting
  BY DEF Init, Backed, Deleting, NoEntities, Working

LEMMA StandingInvariance ==
  ASSUME OneRequest, OneInstance PROVE Spec => [](Backed /\ Deleting)
  BY OneRequest, OneInstance, InitStanding, NextBacked, NextDeleting, BaseInvariance,
     PTL DEF Spec

\* Of one request at a time at one instance, next to the calls that earlier
\* ones left behind: while a subproject is recorded its bucket and its groups
\* exist, whatever failed before.
THEOREM RecordIsBacked ==
  ASSUME OneRequest, OneInstance PROVE Spec => []RecordBacked
  <1>1. Based /\ Backed => RecordBacked
    BY DEF Based, Backed, Standing, Staying, Granting, RecordBacked
  <1>2. QED
    BY <1>1, StandingInvariance, BaseInvariance, PTL

\* Under the same conditions no dataset is recorded whose bucket is gone.
THEOREM DatasetsAreBacked ==
  ASSUME OneRequest, OneInstance PROVE Spec => []DatasetsBacked
  <1>1. Backed => DatasetsBacked
    BY DEF Backed, Staying, DatasetsBacked
  <1>2. QED
    BY <1>1, StandingInvariance, PTL

-----------------------------------------------------------------------------
(* Without failures.                                                       *)

\* what everybody knows of the record after a step
Told == \A i \in Inst : cache'[i] # Nil => sub' # Nil /\ cache'[i].bucket = sub'.bucket

\* what a request that is about to remove nothing knows
LEMMA Knows ==
  ASSUME OneRequest, Coherent, NEW p \in Proc, pc[p] # "removing"
  PROVE  /\ \A i \in Inst : cache[i] # Nil => sub # Nil /\ cache[i].bucket = sub.bucket
         /\ \A t \in tasks : t.kind \in {"group", "bucket"}
  <1>1. \A q \in Proc : q = p
    BY DEF OneRequest
  <1>2. QED
    BY <1>1 DEF Coherent, Known, Awaited

\* A request ends whose bucket is that of the record.
LEMMA EndCoherent ==
  ASSUME OneRequest, Based, Coherent, NEW p \in Proc, End(p), pc[p] # "removing",
         UNCHANGED <<sub, buckets, tasks>>, Told,
         got[p] = Nil \/ (sub # Nil /\ got[p].bucket = sub.bucket)
  PROVE  Coherent'
  <1>1. \A q \in Proc : q = p
    BY DEF OneRequest
  <1>2. pc'[p] = "idle"
    BY DEF End, Goto, Based, TypeOK
  <1>3. Owned'
    BY <1>1 DEF Coherent, Owned
  <1>4. Awaited'
    BY Knows DEF Awaited
  <1>5. Known'
    BY DEF Told, Known
  <1>6. Agreed(p)'
    BY <1>2 DEF Agreed, Working
  <1>7. QED
    BY <1>1, <1>3, <1>4, <1>5, <1>6 DEF Coherent

\* A request goes on, with its bucket or with a new one.
LEMMA GoCoherent ==
  ASSUME OneRequest, Based, Coherent, NEW p \in Proc, pc[p] # "removing",
         pc'[p] # "removing", UNCHANGED <<sub, tasks>>, Told,
         \A b \in buckets' \ buckets : got'[p] # Nil /\ got'[p].bucket = b,
         \/ got[p] = Nil \/ got[p].bucket = Nil
         \/ got'[p] # Nil /\ got'[p].bucket = got[p].bucket,
         Agreed(p)'
  PROVE  Coherent'
  <1>1. \A q \in Proc : q = p
    BY DEF OneRequest
  <1>2. Owned'
    <2>1. Nil \notin buckets /\ Nil \notin Bucket
      BY SubprojectAssumption DEF Based, TypeOK
    <2>2. QED
      BY <1>1, <2>1 DEF Coherent, Owned
  <1>3. Awaited'
    BY Knows DEF Awaited
  <1>4. Known'
    BY DEF Told, Known
  <1>5. QED
    BY <1>1, <1>2, <1>3, <1>4 DEF Coherent

\* At its work on a record that was there, a request has the bucket of the
\* record; at its record, a creation has the only one.
LEMMA Knowing ==
  ASSUME Based, Coherent, NEW p \in Proc, pc[p] \in Working \ {"removing"}
  PROVE  /\ got[p] \in Complete /\ got[p] # Nil /\ req[p] \in Request
         /\ pc[p] \in LabelsOf(req[p].op)
         /\ pc[p] # "save" \/ req[p].op # "create" =>
              sub # Nil /\ got[p].bucket = sub.bucket
         /\ pc[p] = "save" /\ req[p].op = "create" =>
              sub = Nil /\ \A i \in Inst : cache[i] = Nil
  <1>1. /\ got[p] \in Complete /\ got[p] # Nil /\ req[p] \in Request
        /\ pc[p] \in LabelsOf(req[p].op)
    BY CompleteIsRecord DEF Based, Asked, Working
  <1>2. req[p].op = "create" => pc[p] \in {"save", "fill"}
    BY <1>1 DEF LabelsOf, Working
  <1>3. QED
    BY <1>1, <1>2 DEF Coherent, Agreed

LEMMA StoppedCoherent ==
  ASSUME OneRequest, Based, Coherent, NEW p \in Proc,
         failures' = failures, Stopped(p) \/ Answer(p) \/ Register(p)
  PROVE  Coherent'
  <1>1. pc[p] \in {"exist", "body"}
    <2>1. ~Failure
      BY DEF Failure, Based, TypeOK
    <2>2. QED
      BY <2>1 DEF Stopped, Answer, Register
  <1>2. End(p) /\ UNCHANGED <<sub, buckets, cache, tasks>>
    BY DEF Stopped, Answer, Register, remote
  <1>3. got[p] = Nil \/ (sub # Nil /\ got[p].bucket = sub.bucket)
    BY <1>1, Knowing DEF Based, Asked, Working
  <1>4. Told
    BY <1>1, <1>2, Knows DEF Told
  <1>5. QED
    BY <1>1, <1>2, <1>3, <1>4, EndCoherent

LEMMA ReceiveCoherent ==
  ASSUME OneRequest, Based, Coherent, NEW p \in Proc, Receive(p) PROVE Coherent'
  <1>1. /\ pc[p] = "idle" /\ pc'[p] \in {"exist", "lookup"} /\ got[p] = Nil
        /\ UNCHANGED <<sub, buckets, cache, tasks, got>>
    BY DEF Receive, Goto, Based, TypeOK, Asked, remote
  <1>2. Told
    BY <1>1, Knows DEF Told
  <1>3. Agreed(p)'
    BY <1>1 DEF Agreed, Working
  <1>4. QED
    BY <1>1, <1>2, <1>3, GoCoherent

LEMMA LookupCoherent ==
  ASSUME OneRequest, Based, Coherent, NEW p \in Proc, Lookup(p) PROVE Coherent'
  <1>1. /\ pc[p] = "lookup" /\ got[p] = Nil /\ at[p] \in Inst
        /\ UNCHANGED <<sub, buckets, cache, tasks>>
        /\ req[p] \in Request /\ pc[p] \in LabelsOf(req[p].op)
    BY DEF Lookup, Based, Asked, remote
  <1>2. Told
    BY <1>1, Knows DEF Told
  <1>3. CASE End(p)
    BY <1>1, <1>2, <1>3, EndCoherent
  <1>4. CASE ~End(p)
    <2>1. /\ pc'[p] \in {"body", "loaded"} /\ UNCHANGED req
          /\ sub # Nil /\ got'[p].bucket = sub.bucket
      BY <1>1, <1>4, Knows DEF Lookup, Goto, Based, TypeOK
    <2>2. Agreed(p)'
      BY <1>1, <2>1 DEF Agreed, Working
    <2>3. QED
      BY <1>1, <1>2, <2>1, <2>2, GoCoherent
  <1>5. QED
    BY <1>3, <1>4

LEMMA LoadedCoherent ==
  ASSUME OneRequest, Based, Coherent, NEW p \in Proc, Loaded(p) PROVE Coherent'
  <1>1. /\ pc[p] = "loaded" /\ pc'[p] = "body"
        /\ UNCHANGED <<sub, buckets, tasks, got, req>>
    BY DEF Loaded, Goto, Based, TypeOK, remote
  <1>2. got[p] # Nil /\ sub # Nil /\ got[p].bucket = sub.bucket
    BY <1>1, Knowing DEF Working
  <1>3. \A i \in Inst : cache'[i] = cache[i] \/ cache'[i] = got[p]
    BY DEF Loaded, Remember, Based, TypeOK
  <1>4. Told
    BY <1>1, <1>2, <1>3, Knows DEF Told
  <1>5. Agreed(p)'
    BY <1>1, <1>2 DEF Agreed, Working
  <1>6. QED
    BY <1>1, <1>2, <1>4, <1>5, GoCoherent

LEMMA ExistCoherent ==
  ASSUME OneRequest, OneInstance, Based, Coherent, NEW p \in Proc, Exist(p)
  PROVE  Coherent'
  <1>1. /\ pc[p] = "exist" /\ got[p] = Nil /\ at[p] \in Inst
        /\ UNCHANGED <<sub, buckets, cache, tasks>>
    BY DEF Exist, Based, Asked, remote
  <1>2. Told
    BY <1>1, Knows DEF Told
  <1>3. CASE End(p)
    BY <1>1, <1>2, <1>3, EndCoherent
  <1>4. CASE ~End(p)
    <2>1. pc'[p] = "groups" /\ sub = Nil /\ cache[at[p]] = Nil
      BY <1>4 DEF Exist, Goto, Based, TypeOK
    <2>2. \A i \in Inst : cache[i] = Nil
      BY <1>1, <2>1 DEF OneInstance
    <2>3. Agreed(p)'
      BY <1>1, <2>1, <2>2 DEF Agreed, Working
    <2>4. QED
      BY <1>1, <1>2, <2>1, <2>3, GoCoherent
  <1>5. QED
    BY <1>3, <1>4

LEMMA CreateGroupCoherent ==
  ASSUME OneRequest, Based, Coherent, NEW p \in Proc, CreateGroup(p) PROVE Coherent'
  <1>1. /\ pc[p] = "groups" /\ pc'[p] \in {"groups", "bucket"} /\ got[p].bucket = Nil
        /\ UNCHANGED <<sub, buckets, cache, tasks, req>> /\ req[p].op = "create"
    BY DEF CreateGroup, Goto, Based, TypeOK, Asked
  <1>2. sub = Nil /\ \A i \in Inst : cache[i] = Nil
    BY <1>1 DEF Coherent, Agreed
  <1>3. Told /\ Agreed(p)'
    BY <1>1, <1>2 DEF Told, Agreed, Working
  <1>4. QED
    BY <1>1, <1>3, GoCoherent

LEMMA CreateBucketCoherent ==
  ASSUME OneRequest, Based, Coherent, NEW p \in Proc, CreateBucket(p) PROVE Coherent'
  <1>1. /\ pc[p] = "bucket" /\ pc'[p] = "save" /\ got[p].bucket = Nil /\ got[p] \in Record
        /\ UNCHANGED <<sub, cache, tasks, req>> /\ req[p].op = "create"
    BY DEF CreateBucket, Goto, Based, TypeOK, Asked
  <1>2. sub = Nil /\ \A i \in Inst : cache[i] = Nil
    BY <1>1 DEF Coherent, Agreed
  <1>3. PICK b \in Bucket : /\ buckets' = buckets \cup {b}
                             /\ got' = [got EXCEPT ![p].bucket = b]
    BY DEF CreateBucket
  <1>4. got'[p] \in Record /\ got'[p].bucket = b
    BY <1>1, <1>3 DEF Record, Based, TypeOK
  <1>5. got'[p] # Nil
    BY <1>4, NilAssumption
  <1>6. Told /\ Agreed(p)'
    BY <1>1, <1>2 DEF Told, Agreed, Working
  <1>7. QED
    BY <1>1, <1>3, <1>4, <1>5, <1>6, GoCoherent

LEMMA SaveCoherent ==
  ASSUME OneRequest, Based, Coherent, NEW p \in Proc, failures' = failures, Save(p)
  PROVE  Coherent'
  <1>1. \A q \in Proc : q = p
    BY DEF OneRequest
  <1>2. /\ pc[p] = "save" /\ pc'[p] = "fill" /\ sub' = Result(p)
        /\ UNCHANGED <<buckets, cache, tasks, got, req>>
    <2>1. ~Failure
      BY DEF Failure, Based, TypeOK
    <2>2. QED
      BY <2>1 DEF Save, Goto, Based, TypeOK
  <1>3. got[p] # Nil /\ sub' # Nil /\ sub'.bucket = got[p].bucket
    BY <1>2, Knowing, ResultComplete, CompleteIsRecord DEF Working
  <1>4. sub # Nil => sub.bucket = got[p].bucket
    BY <1>2, Knowing DEF Working
  <1>5. Owned'
    BY <1>1, <1>2, <1>3, <1>4 DEF Coherent, Owned
  <1>6. Awaited'
    BY <1>2, Knows DEF Awaited
  <1>7. Known'
    BY <1>2, <1>3, <1>4, Knows DEF Known
  <1>8. Agreed(p)'
    BY <1>2, <1>3 DEF Agreed, Working
  <1>9. QED
    BY <1>1, <1>5, <1>6, <1>7, <1>8 DEF Coherent

LEMMA FillCoherent ==
  ASSUME OneRequest, Based, Coherent, NEW p \in Proc, Fill(p) PROVE Coherent'
  <1>1. /\ pc[p] = "fill" /\ End(p) /\ UNCHANGED <<sub, buckets, tasks>>
        /\ \A i \in Inst : cache'[i] = cache[i] \/ cache'[i] = Result(p)
    BY DEF Fill, Remember, remote, Based, TypeOK
  <1>2. sub # Nil /\ got[p].bucket = sub.bucket /\ Result(p).bucket = sub.bucket
    BY <1>1, Knowing, ResultComplete DEF Working
  <1>3. Told
    BY <1>1, <1>2, Knows DEF Told
  <1>4. QED
    BY <1>1, <1>2, <1>3, EndCoherent

LEMMA PatchCoherent ==
  ASSUME OneRequest, Based, Coherent, NEW p \in Proc, Patch(p) \/ Page(p) \/ Update(p)
  PROVE  Coherent'
  <1>1. /\ pc[p] \in {"body", "page", "update"} /\ pc'[p] \in {"page", "update", "save"}
        /\ UNCHANGED <<sub, buckets, cache, tasks, got, req>>
    BY DEF Patch, Page, Update, Goto, Based, TypeOK, remote
  <1>2. /\ got[p] # Nil /\ sub # Nil /\ got[p].bucket = sub.bucket
        /\ req[p].op # "create"
    BY <1>1, Knowing DEF Working, LabelsOf
  <1>3. Told
    BY <1>1, Knows DEF Told
  <1>4. Agreed(p)'
    BY <1>1, <1>2 DEF Agreed, Working
  <1>5. QED
    BY <1>1, <1>3, <1>4, GoCoherent

LEMMA DeleteCoherent ==
  ASSUME OneRequest, Based, Coherent, NEW p \in Proc, Delete(p) PROVE Coherent'
  <1>1. \A q \in Proc : q = p
    BY DEF OneRequest
  <1>2. /\ pc[p] = "body" /\ pc'[p] = "removing"
        /\ UNCHANGED <<sub, buckets, got, req>>
        /\ tasks \subseteq tasks' /\ \A t \in tasks' \ tasks : t.by = p
    BY DEF Delete, Goto, Based, TypeOK, remote, Sent
  <1>3. sub # Nil /\ got[p].bucket = sub.bucket
    BY <1>2, Knowing DEF Working, LabelsOf
  <1>4. Owned'
    BY <1>2 DEF Coherent, Owned
  <1>5. Awaited'
    BY <1>2, Knows DEF Awaited
  <1>6. Known'
    BY <1>2 DEF Known
  <1>7. Agreed(p)'
    BY <1>2, <1>3 DEF Agreed, Working
  <1>8. QED
    BY <1>1, <1>4, <1>5, <1>6, <1>7 DEF Coherent

LEMMA RemovedCoherent ==
  ASSUME OneRequest, OneInstance, Based, Deleting, Coherent, NEW p \in Proc, Removed(p)
  PROVE  Coherent'
  <1>1. \A q \in Proc : q = p
    BY DEF OneRequest
  <1>2. sub = Nil /\ \A i \in Inst : cache[i] = Nil
    BY Cleared
  <1>3. /\ pc'[p] = "idle" /\ UNCHANGED <<sub, cache, buckets>>
        /\ tasks \subseteq tasks' /\ Sent("bucket", Nil, got[p].bucket) \in tasks'
        /\ \A t \in tasks' \ tasks : t.kind \in {"group", "bucket"}
        /\ \A t \in tasks : t.by # p
    BY DEF Removed, End, Goto, Based, TypeOK, remote, Sent
  <1>4. Owned'
    BY <1>1, <1>2, <1>3 DEF Coherent, Owned, Sent
  <1>5. Awaited'
    BY <1>1, <1>3 DEF Coherent, Awaited
  <1>6. Known'
    BY <1>2, <1>3 DEF Known
  <1>7. Agreed(p)'
    BY <1>3 DEF Agreed, Working
  <1>8. QED
    BY <1>1, <1>4, <1>5, <1>6, <1>7 DEF Coherent

LEMMA PerformCoherent ==
  ASSUME OneRequest, Based, Coherent, NEW t \in tasks, Perform(t) PROVE Coherent'
  <1>1. /\ Effect(t) /\ tasks' = (tasks \ {t}) \cup Follow(t)
        /\ UNCHANGED <<pc, req, got>>
    BY DEF Perform, local
  <1>2. t.kind \notin {"group", "bucket"} => t.by \in Proc /\ pc[t.by] = "removing"
    BY DEF Coherent, Awaited
  <1>3. t.kind = "record" /\ sub # Nil => got[t.by] # Nil /\ got[t.by].bucket = sub.bucket
    <2>1. ASSUME t.kind = "record", sub # Nil
          PROVE  got[t.by] # Nil /\ got[t.by].bucket = sub.bucket
      <3>1. /\ t.by \in Proc /\ pc[t.by] = "removing" /\ got[t.by] # Nil
            /\ req[t.by] \in Request /\ pc[t.by] \in LabelsOf(req[t.by].op)
        BY <1>2, <2>1, CompleteIsRecord DEF Based, Asked, Working
      <3>2. req[t.by].op # "create"
        BY <3>1 DEF LabelsOf
      <3>3. QED
        BY <2>1, <3>1, <3>2 DEF Coherent, Agreed, Working
    <2>2. QED
      BY <2>1
  <1>4. Owned'
    <2>1. CASE t.kind = "record"
      BY <1>1, <1>2, <1>3, <2>1 DEF Coherent, Owned, Effect
    <2>2. CASE t.kind = "bucket"
      BY <1>1, <2>2 DEF Coherent, Owned, Effect
    <2>3. CASE t.kind \notin {"record", "bucket"}
      BY <1>1, <2>3 DEF Coherent, Owned, Effect
    <2>4. QED
      BY <2>1, <2>2, <2>3
  <1>5. Awaited'
    <2>1. t.kind \in {"group", "bucket"} => Follow(t) = {}
      BY DEF Follow
    <2>2. \A s \in Follow(t) : s.by = t.by
      BY FollowTyped
    <2>3. QED
      BY <1>1, <1>2, <2>1, <2>2 DEF Coherent, Awaited
  <1>6. t.kind \in {"group", "bucket"} => UNCHANGED <<sub, cache>>
    BY <1>1 DEF Effect
  <1>7. Known'
    BY <1>1, <1>2, <1>6 DEF Coherent, Known
  <1>8. ASSUME NEW p \in Proc PROVE Agreed(p)'
    <2>1. CASE pc[p] = "removing"
      BY <1>1, <2>1, EffectLeaves DEF Coherent, Agreed, Working
    <2>2. CASE pc[p] # "removing"
      <3>1. UNCHANGED <<sub, cache>>
        BY <1>6, <2>2, Knows
      <3>2. QED
        BY <1>1, <3>1 DEF Coherent, Agreed
    <2>3. QED
      BY <2>1, <2>2
  <1>9. QED
    BY <1>4, <1>5, <1>7, <1>8 DEF Coherent

LEMMA ForgetCoherent ==
  ASSUME Based, Coherent, NEW i \in Inst, Forget(i) PROVE Coherent'
  <1>1. /\ UNCHANGED <<sub, buckets, tasks, pc, req, got>>
        /\ \A j \in Inst : cache'[j] \in {cache[j], Nil}
    BY DEF Forget, remote, local, Based, TypeOK
  <1>2. Owned' /\ Awaited' /\ Known'
    BY <1>1 DEF Coherent, Owned, Awaited, Known
  <1>3. \A p \in Proc : Agreed(p)'
    BY <1>1 DEF Coherent, Agreed
  <1>4. QED
    BY <1>2, <1>3 DEF Coherent

LEMMA NextCoherent ==
  OneRequest /\ OneInstance /\ Based /\ Deleting /\ Coherent
  /\ [Next]_vars /\ failures' = failures => Coherent'
  <1> SUFFICES ASSUME OneRequest, OneInstance, Based, Deleting, Coherent, [Next]_vars,
                      failures' = failures
               PROVE  Coherent'
    OBVIOUS
  <1>1. CASE UNCHANGED vars
    BY <1>1 DEF vars, remote, local, Coherent, Owned, Awaited, Known, Agreed
  <1>2. ASSUME NEW p \in Proc, Receive(p) PROVE Coherent'
    BY <1>2, ReceiveCoherent
  <1>3. ASSUME NEW p \in Proc, Step(p) PROVE Coherent'
    BY <1>3, StoppedCoherent, LookupCoherent, LoadedCoherent, ExistCoherent,
       CreateGroupCoherent, CreateBucketCoherent, SaveCoherent, FillCoherent,
       PatchCoherent, DeleteCoherent, RemovedCoherent
    DEF Step
  <1>4. ASSUME NEW t \in tasks, Perform(t) PROVE Coherent'
    BY <1>4, PerformCoherent
  <1>5. ASSUME NEW t \in tasks, Reject(t) PROVE Coherent'
    BY <1>5 DEF Reject, Failure, Based, TypeOK
  <1>6. ASSUME NEW i \in Inst, Forget(i) PROVE Coherent'
    BY <1>6, ForgetCoherent
  <1>7. QED
    BY <1>1, <1>2, <1>3, <1>4, <1>5, <1>6 DEF Next

\* failures are counted up
LEMMA Counted == Based /\ [Next]_vars /\ failures' = 0 => failures = 0 /\ failures' = failures
  <1> SUFFICES ASSUME Based, [Next]_vars, failures' = 0 PROVE failures = 0
    OBVIOUS
  <1>1. failures \in Nat /\ ~Failure
    BY SubprojectAssumption DEF Based, TypeOK, Failure
  <1>2. UNCHANGED failures
    BY <1>1
    DEF Next, Step, Receive, Stopped, Lookup, Loaded, Answer, Exist, CreateGroup,
        CreateBucket, Save, Fill, Delete, Removed, Patch, Page, Update, Register,
        Perform, Reject, Forget, vars
  <1>3. QED
    BY <1>2

Untroubled == failures = 0 => Coherent

LEMMA InitUntroubled == Init => Untroubled
  BY DEF Init, Untroubled, Coherent, Owned, Awaited, Known, Agreed, Working

LEMMA NextUntroubled ==
  OneRequest /\ OneInstance /\ Based /\ Deleting /\ Untroubled /\ [Next]_vars
  => Untroubled'
  BY Counted, NextCoherent DEF Untroubled

LEMMA UntroubledInvariance ==
  ASSUME OneRequest, OneInstance PROVE Spec => []Untroubled
  BY OneRequest, OneInstance, InitUntroubled, NextUntroubled, StandingInvariance,
     BaseInvariance, PTL DEF Spec

\* Of one request at a time at one instance: as long as no call fails, every
\* bucket belongs to the record, to a request under way or to a deletion.
THEOREM NoBucketLost ==
  ASSUME OneRequest, OneInstance PROVE Spec => []BucketsOwned
  <1>1. Untroubled => BucketsOwned
    BY DEF Untroubled, Coherent, Owned, BucketsOwned
  <1>2. QED
    BY <1>1, UntroubledInvariance, PTL

-----------------------------------------------------------------------------
(* Without failures, at any number of instances.                           *)

Prompt == failures = 0 => Timely

LEMMA InitPrompt == Init => Prompt
  BY DEF Init, Prompt, Timely, Awaited

\* Nothing waits for the calls that are left, unless a deletion is under way.
LEMMA NotAwaited ==
  ASSUME OneRequest, Awaited, NEW p \in Proc, pc[p] # "removing"
  PROVE  /\ \A t \in tasks : t.kind \in {"group", "bucket"}
         /\ \A i \in Inst, q \in Proc : Sent("uncache", q, i) \notin tasks
  <1>1. \A q \in Proc : q = p
    BY DEF OneRequest
  <1>2. \A t \in tasks : t.kind \in {"group", "bucket"}
    BY <1>1 DEF Awaited
  <1>3. QED
    BY <1>2 DEF Sent

\* The steps of a request that do not delete: where the record is gone, no copy of
\* it is made that is not elsewhere.
LEMMA GoTimely ==
  ASSUME OneRequest, Based, Timely, NEW p \in Proc, NEW l, Goto(p, l),
         pc[p] # "removing", UNCHANGED <<deleter, tasks>>,
         l \in {"loaded", "fill"} => sub' # Nil,
         sub' = Nil =>
           /\ sub = Nil /\ \A i \in Inst : cache'[i] \in {cache[i], Nil}
           /\ l \in {"body", "page", "update", "save"} =>
                /\ UNCHANGED <<req, at>>
                /\ req[p].op = "create" \/ Elsewhere(at[p])
  PROVE  Timely'
  <1>1. \A q \in Proc : q = p /\ pc'[q] = l
    BY DEF OneRequest, Goto, Based, TypeOK
  <1>2. /\ \A t \in tasks : t.kind \in {"group", "bucket"}
        /\ \A i \in Inst, q \in Proc : Sent("uncache", q, i) \notin tasks
    BY NotAwaited DEF Timely
  <1>3. Awaited'
    BY <1>2 DEF Awaited
  <1>4. ASSUME sub' = Nil, NEW i \in Inst, cache'[i] # Nil PROVE Elsewhere(i)'
    BY <1>2, <1>4 DEF Timely, Elsewhere
  <1>5. ASSUME sub' = Nil, l \in {"body", "page", "update", "save"}, req'[p].op # "create"
        PROVE  Elsewhere(at[p])'
    BY <1>5 DEF Elsewhere
  <1>6. QED
    BY <1>1, <1>3, <1>4, <1>5 DEF Timely

LEMMA EndTimely ==
  ASSUME OneRequest, Based, Timely, NEW p \in Proc, End(p), pc[p] # "removing",
         UNCHANGED <<sub, deleter, tasks>>, sub # Nil \/ cache' = cache
  PROVE  Timely'
  BY GoTimely DEF End

LEMMA StandsTimely ==
  ASSUME OneRequest, Based, Timely, NEW p \in Proc,
         Stopped(p) \/ Receive(p) \/ Answer(p) \/ Exist(p) \/ Register(p)
  PROVE  Timely'
  <1>1. CASE Receive(p)
    <2>1. PICK r \in Request :
            Goto(p, IF r.op = "create" THEN "exist" ELSE "lookup")
      BY <1>1 DEF Receive
    <2>2. /\ pc[p] = "idle" /\ UNCHANGED <<sub, deleter, tasks, cache>>
      BY <1>1 DEF Receive, remote
    <2>3. CASE Goto(p, "exist")
      BY <2>2, <2>3, GoTimely
    <2>4. CASE Goto(p, "lookup")
      BY <2>2, <2>4, GoTimely
    <2>5. QED
      BY <2>1, <2>3, <2>4
  <1>2. CASE Exist(p)
    <2>1. pc[p] = "exist" /\ UNCHANGED <<sub, deleter, tasks, cache>>
      BY <1>2 DEF Exist, remote
    <2>2. CASE End(p)
      BY <2>1, <2>2, EndTimely
    <2>3. CASE Goto(p, "groups")
      BY <2>1, <2>3, GoTimely
    <2>4. QED
      BY <1>2, <2>2, <2>3 DEF Exist
  <1>3. CASE Stopped(p) \/ Answer(p) \/ Register(p)
    <2>1. /\ pc[p] # "removing" /\ End(p)
          /\ UNCHANGED <<sub, deleter, tasks, cache>>
      BY <1>3 DEF Stopped, Answer, Register, remote
    <2>2. QED
      BY <2>1, EndTimely
  <1>4. QED
    BY <1>1, <1>2, <1>3

LEMMA LookupTimely ==
  ASSUME OneRequest, Based, Timely, NEW p \in Proc, Lookup(p) PROVE Timely'
  <1>1. /\ pc[p] = "lookup" /\ at[p] \in Inst /\ UNCHANGED <<sub, deleter, tasks, cache>>
    BY DEF Lookup, remote, Based, Asked
  <1>2. CASE End(p)
    BY <1>1, <1>2, EndTimely
  <1>3. CASE cache[at[p]] # Nil /\ Goto(p, "body") /\ UNCHANGED <<req, at, pages>>
    <2>1. sub = Nil => Elsewhere(at[p])
      BY <1>1, <1>3, NotAwaited DEF Timely
    <2>2. QED
      BY <1>1, <1>3, <2>1, GoTimely
  <1>4. CASE sub # Nil /\ Goto(p, "loaded")
    BY <1>1, <1>4, GoTimely
  <1>5. QED
    BY <1>2, <1>3, <1>4 DEF Lookup

LEMMA LoadsTimely ==
  ASSUME OneRequest, Based, Timely, NEW p \in Proc,
         Loaded(p) \/ Save(p) \/ Fill(p)
  PROVE  Timely'
  <1>1. CASE Loaded(p)
    <2>1. /\ pc[p] = "loaded" /\ Goto(p, "body") /\ UNCHANGED <<sub, deleter, tasks>>
      BY <1>1 DEF Loaded, remote
    <2>2. sub # Nil
      BY <2>1 DEF Timely
    <2>3. QED
      BY <2>1, <2>2, GoTimely
  <1>2. CASE Fill(p)
    <2>1. /\ pc[p] = "fill" /\ End(p) /\ UNCHANGED <<sub, deleter, tasks>>
      BY <1>2 DEF Fill, remote
    <2>2. sub # Nil
      BY <2>1 DEF Timely
    <2>3. QED
      BY <2>1, <2>2, EndTimely
  <1>3. CASE Save(p)
    <2>1. pc[p] = "save" /\ sub' = Result(p) /\ UNCHANGED <<deleter, tasks>>
      BY <1>3 DEF Save
    <2>2. sub' # Nil
      BY <2>1, ResultComplete, CompleteIsRecord
    <2>3. CASE Goto(p, "fill")
      BY <2>1, <2>2, <2>3, GoTimely
    <2>4. CASE Goto(p, "idle")
      BY <2>1, <2>2, <2>4, GoTimely
    <2>5. QED
      BY <1>3, <2>3, <2>4 DEF Save, End
  <1>4. QED
    BY <1>1, <1>2, <1>3

\* A patch and a creation keep their call until the record is saved.
LEMMA WritesTimely ==
  ASSUME OneRequest, Based, Timely, NEW p \in Proc, NEW l,
         pc[p] \in {"groups", "bucket", "body", "page", "update"},
         Goto(p, l), l \in {"groups", "bucket", "page", "update", "save"},
         UNCHANGED <<req, at, sub, deleter, tasks, cache>>
  PROVE  Timely'
  <1>1. pc[p] \in {"groups", "bucket"} => req[p].op = "create"
    BY DEF Based, Asked
  <1>2. sub = Nil /\ pc[p] \notin {"groups", "bucket"} /\ req[p].op # "create"
        => Elsewhere(at[p])
    BY DEF Timely
  <1>3. QED
    BY <1>1, <1>2, GoTimely

LEMMA CallsTimely ==
  ASSUME OneRequest, Based, Timely, NEW p \in Proc,
         CreateGroup(p) \/ CreateBucket(p) \/ Patch(p) \/ Page(p) \/ Update(p)
  PROVE  Timely'
  <1>1. /\ pc[p] \in {"groups", "bucket", "body", "page", "update"}
        /\ UNCHANGED <<req, at, sub, deleter, tasks, cache>>
    BY DEF CreateGroup, CreateBucket, Patch, Page, Update, remote
  <1>2. CASE UNCHANGED pc /\ pc[p] \in {"groups", "update"}
    <2>1. Goto(p, pc[p])
      BY <1>2 DEF Goto, Based, TypeOK
    <2>2. QED
      BY <1>1, <1>2, <2>1, WritesTimely
  <1>3. ASSUME NEW l \in {"bucket", "page", "update", "save"}, Goto(p, l)
        PROVE  Timely'
    BY <1>1, <1>3, WritesTimely
  <1>4. QED
    BY <1>2, <1>3 DEF CreateGroup, CreateBucket, Patch, Page, Update

\* A deletion waits for the calls it has sent; what it leaves are those that
\* clear the storage.
LEMMA DeletionTimely ==
  ASSUME OneRequest, Based, Timely, NEW p \in Proc, Delete(p) \/ Removed(p)
  PROVE  Timely'
  <1>1. /\ \A q \in Proc : q = p
        /\ UNCHANGED <<sub, deleter, cache>>
    BY DEF OneRequest, Delete, Removed, remote
  <1>2. CASE Delete(p)
    <2>1. /\ \A q \in Proc : pc'[q] = "removing"
          /\ tasks' = tasks \cup {Sent("record", p, at[p]), Sent("list", p, at[p])}
      BY <1>1, <1>2 DEF Delete, Goto, Based, TypeOK
    <2>2. Awaited'
      BY <1>1, <2>1 DEF Timely, Awaited, Sent
    <2>3. QED
      BY <1>1, <2>1, <2>2 DEF Timely, Elsewhere
  <1>3. CASE Removed(p)
    <2>1. /\ \A q \in Proc : pc'[q] = "idle"
          /\ \A t \in tasks : t.by # p
          /\ tasks \subseteq tasks'
          /\ \A t \in tasks' \ tasks : t.kind \in {"group", "bucket"}
      BY <1>1, <1>3 DEF Removed, End, Goto, Based, TypeOK, Sent
    <2>2. Awaited'
      BY <1>1, <2>1 DEF Timely, Awaited
    <2>3. QED
      BY <1>1, <2>1, <2>2 DEF Timely, Elsewhere
  <1>4. QED
    BY <1>2, <1>3

\* The record goes while the deletion waits, and its instance forgets it before
\* the deletion ends.
LEMMA PerformTimely ==
  ASSUME OneRequest, Based, Timely, NEW t \in tasks, Perform(t) PROVE Timely'
  <1>1. /\ UNCHANGED <<pc, req, at>> /\ Effect(t) /\ tasks' = (tasks \ {t}) \cup Follow(t)
        /\ t \in Task
    BY DEF Perform, local, Based, TypeOK
  <1>2. Awaited'
    <2>1. t.kind \in {"group", "bucket"} => Follow(t) = {}
      BY DEF Follow
    <2>2. \A s \in Follow(t) : s.by = t.by
      BY FollowTyped
    <2>3. QED
      BY <1>1, <2>1, <2>2 DEF Timely, Awaited
  <1>3. CASE t.kind = "record"
    <2>1. /\ t.by \in Proc /\ pc[t.by] = "removing" /\ t.on \in Inst
          /\ \A q \in Proc : q = t.by
      BY <1>3 DEF Timely, Awaited, Based, Kept, OneRequest
    <2>2. /\ sub' = Nil /\ deleter' = t.on /\ cache' = cache
          /\ Sent("uncache", t.by, t.on) \in tasks'
      BY <1>1, <1>3 DEF Effect, Follow
    <2>3. ASSUME NEW i \in Inst
          PROVE  Elsewhere(i)' \/ \E p \in Proc : Sent("uncache", p, i) \in tasks'
      <3>1. CASE i = t.on
        BY <2>1, <2>2, <3>1
      <3>2. CASE i # t.on
        BY <2>1, <2>2, <3>2, SubprojectAssumption DEF Elsewhere
      <3>3. QED
        BY <3>1, <3>2
    <2>4. QED
      BY <1>1, <1>2, <2>1, <2>3 DEF Timely
  <1>4. CASE t.kind # "record"
    <2>1. UNCHANGED <<sub, deleter>>
      BY <1>1, <1>4 DEF Effect
    <2>2. ASSUME NEW i \in Inst, cache'[i] # Nil
          PROVE  /\ cache[i] # Nil
                 /\ \A p \in Proc : Sent("uncache", p, i) \in tasks
                      => Sent("uncache", p, i) \in tasks'
      <3>1. cache[i] # Nil
        BY <1>1, <2>2, EffectLeaves
      <3>2. ASSUME NEW p \in Proc PROVE t # Sent("uncache", p, i)
        BY <1>1, <2>2, <3>2 DEF Effect, Sent, Based, TypeOK
      <3>3. QED
        BY <1>1, <3>1, <3>2
    <2>3. QED
      BY <1>1, <1>2, <2>1, <2>2 DEF Timely, Elsewhere
  <1>5. QED
    BY <1>3, <1>4

LEMMA NextPrompt ==
  OneRequest /\ Based /\ Prompt /\ [Next]_vars => Prompt'
  <1> SUFFICES ASSUME OneRequest, Based, Prompt, [Next]_vars, failures' = 0
               PROVE  Timely'
    BY DEF Prompt
  <1>0. Timely /\ failures' = failures
    BY Counted DEF Prompt
  <1>1. CASE UNCHANGED vars
    BY <1>0, <1>1 DEF vars, remote, local, Timely, Awaited, Elsewhere
  <1>2. ASSUME NEW p \in Proc, Receive(p) \/ Step(p) PROVE Timely'
    BY <1>0, <1>2, StandsTimely, LookupTimely, LoadsTimely, CallsTimely, DeletionTimely
    DEF Step
  <1>3. ASSUME NEW t \in tasks, Perform(t) PROVE Timely'
    BY <1>0, <1>3, PerformTimely
  <1>4. ASSUME NEW t \in tasks, Reject(t) PROVE Timely'
    BY <1>0, <1>4 DEF Reject, Failure, Based, TypeOK
  <1>5. ASSUME NEW i \in Inst, Forget(i) PROVE Timely'
    <2>1. /\ UNCHANGED <<sub, deleter, tasks, pc, req, at>>
          /\ \A j \in Inst : cache'[j] \in {cache[j], Nil}
      BY <1>5 DEF Forget, remote, local, Based, TypeOK
    <2>2. Awaited'
      BY <1>0, <2>1 DEF Timely, Awaited
    <2>3. QED
      BY <1>0, <2>1, <2>2 DEF Timely, Elsewhere
  <1>6. QED
    BY <1>1, <1>2, <1>3, <1>4, <1>5 DEF Next

LEMMA PromptInvariance ==
  ASSUME OneRequest PROVE Spec => []Prompt
  BY OneRequest, InitPrompt, NextPrompt, BaseInvariance, PTL DEF Spec

\* Of one request at a time, at any number of instances: as long as no call fails,
\* only a creation brings a subproject into being, or a patch at another instance
\* than the one that has deleted it.
THEOREM OnlyElsewhereRevived ==
  ASSUME OneRequest PROVE Spec => OnlyCreateCreates
  <1>1. Based /\ Prompt /\ [Next]_vars
        => [sub = Nil /\ sub' # Nil => failures > 0 \/ \E p \in Proc :
              /\ pc[p] = "save"
              /\ req[p].op = "create" \/ (deleter # Nil /\ at[p] # deleter)]_vars
    <2> SUFFICES ASSUME Based, Prompt, [Next]_vars, sub = Nil, sub' # Nil, ~(failures > 0)
                 PROVE  \E p \in Proc :
                          /\ pc[p] = "save"
                          /\ req[p].op = "create" \/ (deleter # Nil /\ at[p] # deleter)
      OBVIOUS
    <2>1. Timely
      BY SubprojectAssumption DEF Based, TypeOK, Prompt
    <2>2. PICK p \in Proc : Save(p)
      <3>1. \A t \in tasks : Perform(t) \/ Reject(t) => sub' = Nil
        BY EffectLeaves DEF Perform, Reject, remote
      <3>2. UNCHANGED vars => sub' = Nil
        BY DEF vars, remote
      <3>3. \A i \in Inst : ~Forget(i)
        BY DEF Forget, remote
      <3>4. PICK p \in Proc : Receive(p) \/ Step(p)
        BY <3>1, <3>2, <3>3 DEF Next
      <3>5. Save(p)
        BY <3>4
        DEF Step, Receive, Stopped, Lookup, Loaded, Answer, Exist, CreateGroup,
            CreateBucket, Fill, Delete, Removed, Patch, Page, Update, Register, remote
      <3>6. QED
        BY <3>5
    <2>3. pc[p] = "save"
      BY <2>2 DEF Save
    <2>4. req[p].op = "create" \/ Elsewhere(at[p])
      BY <2>1, <2>3 DEF Timely
    <2>5. QED
      BY <2>3, <2>4 DEF Elsewhere
  <1>2. QED
    BY <1>1, PromptInvariance, BaseInvariance, PTL DEF Spec, OnlyCreateCreates

\* What the last invariants rest on, as TLC checks it.
THEOREM Invariance == Spec => []IInv
  <1>1. CASE OneRequest /\ OneInstance
    <2>1. Based /\ Prompt /\ Repaged /\ Backed /\ Deleting /\ Untroubled => IInv
      BY DEF Prompt, Repaged, Untroubled, IInv
    <2>2. Spec => []Repaged
      BY <1>1, InitRepaged, NextRepaged, BaseInvariance, PTL DEF Spec
    <2>3. QED
      BY <1>1, <2>1, <2>2, PromptInvariance, UntroubledInvariance, StandingInvariance,
         BaseInvariance, PTL
  <1>2. CASE ~OneRequest
    <2>1. Based => IInv
      BY <1>2 DEF IInv
    <2>2. QED
      BY <2>1, BaseInvariance, PTL
  <1>3. CASE OneRequest /\ ~OneInstance
    <2>1. Based /\ Prompt /\ Repaged => IInv
      BY <1>3 DEF Prompt, Repaged, IInv
    <2>2. Spec => []Repaged
      BY <1>3, InitRepaged, NextRepaged, BaseInvariance, PTL DEF Spec
    <2>3. QED
      BY <1>3, <2>1, <2>2, PromptInvariance, BaseInvariance, PTL
  <1>4. QED
    BY <1>1, <1>2, <1>3
=============================================================================
