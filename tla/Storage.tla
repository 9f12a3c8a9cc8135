------------------------------- MODULE Storage -------------------------------
(***************************************************************************)
(* The object storages of the five clouds behind the interfaces IStorage   *)
(* and ISeistore: creating and deleting the storage of a subproject,       *)
(* deleting and copying the objects of a dataset (cloudstorage.ts, gcs.ts, *)
(* aws/storage.ts, ibm/cos.ts, anthos/storage.ts and the seistore.ts of    *)
(* each cloud).                                                            *)
(*                                                                         *)
(* What the methods of the clouds differ in is how they list, what they    *)
(* wait for, when they answer and what becomes of an error.  Each is a     *)
(* record of these choices, its plan; the actions carry a plan out.  A     *)
(* request to the storage is atomic, a method is many of them.             *)
(***************************************************************************)
EXTENDS Naturals, Sequences

CONSTANTS
  Slot,      \* calls that run, or still have requests under way
  Bucket,    \* storages of subprojects
  Place,     \* <<bucket, folder>>: locations of datasets; folders are numbers
  Name,      \* names of objects, digits in the order of listings
  Deep,      \* those with another '/' in them
  Settings   \* the settings explored

Provider == {"azure", "google", "aws", "ibm", "anthos"}

\* the cloud, the access policy of the subprojects, whether requests may fail,
\* the calls that are made and the places that have objects at the start
Setting == [provider : Provider, policy : {"uniform", "dataset"}, faulty : BOOLEAN,
            calls : SUBSET {"make", "unmake", "erase", "copy", "upload"},
            start : SUBSET Place]

ASSUME StorageAssumption ==
  /\ Bucket # {}
  /\ \A pl \in Place : pl[1] \in Bucket /\ pl[2] \in Nat \ {0}
  /\ Name \subseteq 1..9 /\ Deep \subseteq Name
  /\ Settings \subseteq Setting
  /\ \A s \in Settings : s.policy = "dataset" => s.provider = "azure"

VARIABLES
  setting,     \* the setting of this behaviour
  containers,  \* the containers that exist; AWS and MinIO have a marker instead
  objects,     \* the objects that exist
  job,         \* the call in each slot
  uploaded,    \* history: objects that users or copies wrote
  condemned    \* history: places whose deletion was asked for

vars == <<setting, containers, objects, job, uploaded, condemned>>

Is(P)   == setting.provider \in P
Object  == [place : Place, name : Name]
Home(b) == <<b, 0>>

\* the container an object is in: of its subproject, or of its dataset alone
ContainerOf(pl) == IF setting.policy = "dataset" THEN pl ELSE Home(pl[1])

Container == Place \cup {Home(b) : b \in Bucket}

\* a container as an item of a listing
Marker(pl) == [place |-> pl, name |-> 0]
Item == Object \cup {Marker(pl) : pl \in Container}

-----------------------------------------------------------------------------
(* The plan of a method.  list: which pages it reads and whether it acts   *)
(* page by page; act: what it does to each item; answer: when it returns;  *)
(* errors: what it does with them.                                         *)

Plan == [list : {"all", "each", "again", "first", "none"},
         act : {"delete", "copy", "start", "drop", "create", "nothing"},
         answer : {"start", "sent", "end"},
         errors : {"thrown", "lost", "either"}]

\* (list, act, answer, errors)
How(l, a, w, e) == [list |-> l, act |-> a, answer |-> w, errors |-> e]

\* deleteObjects: Azure lists everything first and deletes in the background;
\* a container of its own is dropped
AzureErase ==
  IF setting.policy = "dataset" THEN How("none", "drop", "end", "thrown")
  ELSE How("all", "delete", "sent", "lost")
GoogleErase == How("each", "delete", "start", "lost")
\* slip: one page only
AwsErase_Page == How("first", "delete", "end", "either")

\* a page is listed and deleted; while there was more, from the beginning
AwsErase    == How("again", "delete", "end", "either")
MinioErase  == How("again", "delete", "end", "either")
\* callbacks that nobody waits for, and one page
CosErase    == How("first", "delete", "start", "lost")

Erase ==
  CASE Is({"azure"}) -> AzureErase [] Is({"google"}) -> GoogleErase
    [] Is({"aws"}) -> AwsErase [] Is({"ibm"}) -> CosErase
    [] Is({"anthos"}) -> MinioErase

\* slip: one page only
GoogleCopy_Page == How("first", "copy", "end", "thrown")

\* copy: page by page, each awaited ...
GoogleCopy == How("each", "copy", "end", "thrown")
\* ... or started, and only the starts are awaited ...
AzureCopy  == How("each", "start", "sent", "thrown")
\* ... or never sent: copyObject without promise() or a callback ...
AwsCopy    == How("first", "nothing", "end", "thrown")
\* ... or with one page ...
MinioCopy  == How("first", "copy", "end", "thrown")
CosCopy    == How("first", "copy", "start", "lost")

Copy ==
  CASE Is({"azure"}) -> AzureCopy [] Is({"google"}) -> GoogleCopy
    [] Is({"aws"}) -> AwsCopy [] Is({"ibm"}) -> CosCopy
    [] Is({"anthos"}) -> MinioCopy

\* createBucket
AzureCreate  == How("none", "create", "end", "thrown")
GoogleCreate == How("none", "create", "end", "thrown")
AwsCreate    == How("none", "create", "end", "lost")
MinioCreate  == How("none", "create", "end", "thrown")
CosCreate    == How("none", "create", "start", "lost")

Create ==
  CASE Is({"azure"}) -> AzureCreate [] Is({"google"}) -> GoogleCreate
    [] Is({"aws"}) -> AwsCreate [] Is({"ibm"}) -> CosCreate
    [] Is({"anthos"}) -> MinioCreate

\* deleteFiles: all objects of a bucket
AzureFiles == How("all", "delete", "sent", "lost")
AwsFiles   == How("again", "delete", "end", "either")
MinioFiles == How("again", "delete", "end", "either")
CosFiles   == How("first", "delete", "start", "lost")

\* deleteBucket
AzureDrop  == How("none", "drop", "end", "thrown")
GoogleDrop == How("none", "drop", "end", "thrown")
AwsDrop    == How("none", "drop", "end", "lost")
MinioDrop  == How("none", "drop", "end", "thrown")
CosDrop    == How("none", "drop", "start", "lost")

\* deleteBuckets: all containers whose names begin with that of the subproject
AzureBuckets == How("each", "drop", "start", "lost")

\* deleteStorageResources: deleteFiles, then deleteBucket; Google deletes only
\* the bucket, Azure with containers of datasets all of these
AzureUnmake  == IF setting.policy = "dataset" THEN <<AzureBuckets>>
                ELSE <<AzureFiles, AzureDrop>>
GoogleUnmake == <<GoogleDrop>>
AwsUnmake    == <<AwsFiles, AwsDrop>>
MinioUnmake  == <<MinioFiles, MinioDrop>>
CosUnmake    == <<CosFiles, CosDrop>>

Unmake ==
  CASE Is({"azure"}) -> AzureUnmake [] Is({"google"}) -> GoogleUnmake
    [] Is({"aws"}) -> AwsUnmake [] Is({"ibm"}) -> CosUnmake
    [] Is({"anthos"}) -> MinioUnmake

-----------------------------------------------------------------------------
(* Jobs.                                                                   *)

Somewhere == CHOOSE pl \in Container : TRUE

Idle == [op |-> "none", plans |-> <<>>, at |-> 1, from |-> Somewhere,
         to |-> Somewhere, pc |-> "rest", found |-> {}, sent |-> {},
         ans |-> "none", failed |-> FALSE, kept |-> {}]

\* a request that was sent: what it does and to what, whether the method waits
\* for it and what becomes of its error
Request == [act : {"delete", "copy", "start", "drop", "create", "meta"}, on : Item,
            await : BOOLEAN, errors : {"thrown", "lost", "either"}]

\* what a call has of its method: the plans, where it is in them, what it has
\* listed (of the pages, the last one), what it has sent, and how it went
Job == [op : {"none", "make", "unmake", "erase", "copy"}, plans : Seq(Plan), at : Nat,
        from : Container, to : Container, pc : {"list", "rest"}, found : SUBSET Item,
        sent : SUBSET Request, ans : {"none", "ok", "error"}, failed : BOOLEAN,
        kept : SUBSET Object]  \* history: its objects that were there throughout

TypeOK ==
  /\ setting \in Settings
  /\ containers \subseteq Container
  /\ objects \subseteq Object /\ uploaded \subseteq Object
  /\ condemned \subseteq Place
  /\ job \in [Slot -> Job]

Init ==
  /\ setting \in Settings
  /\ containers = {ContainerOf(pl) : pl \in setting.start}
  /\ objects = [place : setting.start, name : Name]
  /\ job = [s \in Slot |-> Idle]
  /\ uploaded = objects
  /\ condemned = {}

\* slip: without the prefix of the dataset
Under_Bucket(c, pl) == c.from[1] = pl[1]

Under(c, pl) == c.from \in {pl, Home(pl[1])}

\* the objects of a call.  Azure lists a dataset by the hierarchy, where objects
\* further down are one item that is no object
Mine(c) == {o \in objects :
              /\ Under(c, o.place)
              /\ ~(/\ Is({"azure"}) /\ setting.policy = "uniform"
                   /\ c.op = "erase" /\ o.name \in Deep)}

\* what a listing finds: containers, or objects; a marker is an object
Scope(c) ==
  IF c.plans[1].act = "drop" THEN {Marker(pl) : pl \in {x \in containers : Under(c, x)}}
  ELSE Mine(c) \cup {Marker(pl) : pl \in {x \in containers :
                                           Is({"aws", "anthos"}) /\ x = c.from}}

Rank(x) == 10 * x.place[2] + x.name

\* what is left to list: after the last page, or what is not found yet, or all
Left(c) ==
  CASE c.plans[1].list = "each" ->
         {x \in Scope(c) : \A y \in c.found : Rank(y) < Rank(x)}
    [] c.plans[1].list = "all" -> Scope(c) \ c.found
    [] OTHER -> Scope(c)

\* a page, of any size: a beginning of what is left
Pages(S) == {X \in SUBSET S : /\ S # {} => X # {}
                              /\ \A x \in X, y \in S \ X : Rank(x) < Rank(y)}

\* where a copy goes: MinIO replaces only the bucket in the key
AzureTarget(c, o)  == c.to
GoogleTarget(c, o) == c.to
CosTarget(c, o)    == c.to
MinioTarget(c, o)  == <<c.to[1], c.from[2]>>

Target(c, o) ==
  [place |-> CASE Is({"azure"}) -> AzureTarget(c, o)
               [] Is({"google"}) -> GoogleTarget(c, o)
               [] Is({"ibm"}) -> CosTarget(c, o)
               [] Is({"anthos"}) -> MinioTarget(c, o)
               [] Is({"aws"}) -> c.to,
   name |-> o.name]

\* the requests of plan p for the items X
Requests(p, X) ==
  IF p.act = "nothing" THEN {}
  ELSE {[act |-> p.act, on |-> x, errors |-> p.errors,
         await |-> p.answer = "end" \/ p.act = "start"] : x \in X}

Awaited(c) == {r \in c.sent : r.await}

\* a plan begins: it lists, or sends its only request
Enter(c, i) ==
  IF c.plans[i].list = "none"
  THEN [c EXCEPT !.at = i, !.sent = @ \cup Requests(c.plans[i], {Marker(c.from)})]
  ELSE [c EXCEPT !.at = i, !.pc = "list"]

Failed(c) == [c EXCEPT !.failed = TRUE]
Thrown(c) == IF c.ans = "none" THEN [Failed(c) EXCEPT !.ans = "error", !.pc = "rest"]
             ELSE Failed(c)

Change(s, c) ==
  /\ job' = [job EXCEPT ![s] = c]
  /\ UNCHANGED <<setting, containers, objects, uploaded, condemned>>

-----------------------------------------------------------------------------
(* Calls.                                                                  *)

Call(s, c, D) ==
  /\ job[s].op = "none" /\ c.op \in setting.calls
  /\ job' = [job EXCEPT ![s] = Enter(c, 1)]
  /\ condemned' = condemned \cup D
  /\ UNCHANGED <<setting, containers, objects, uploaded>>

\* bucketExists, of a random name
AzureExists(pl)  == pl \in containers
GoogleExists(pl) == pl \in containers
CosExists(pl)    == pl \in containers
\* a key that begins with it
AwsExists(pl)    == pl \in containers \/ \E o \in objects : o.place[1] = pl[1]
MinioExists(pl)  == pl \in containers \/ \E o \in objects : o.place[1] = pl[1]

Exists(pl) ==
  CASE Is({"azure"}) -> AzureExists(pl) [] Is({"google"}) -> GoogleExists(pl)
    [] Is({"aws"}) -> AwsExists(pl) [] Is({"ibm"}) -> CosExists(pl)
    [] Is({"anthos"}) -> MinioExists(pl)

\* getSubprojectStorageResources, getDatasetStorageResource
Make(s) ==
  \E pl \in Place : LET b == ContainerOf(pl) IN
    /\ ~Exists(b)
    /\ Call(s, [Idle EXCEPT !.op = "make", !.from = b, !.plans = <<Create>>], {})

\* deleteStorageResources
Delete(s) ==
  \E b \in Bucket :
    LET c == [Idle EXCEPT !.op = "unmake", !.from = Home(b), !.plans = Unmake]
    IN Call(s, [c EXCEPT !.kept = Mine(c)], {pl \in Place : pl[1] = b})

\* deleteObjects of a dataset
DeleteObjects(s) ==
  \E pl \in Place :
    LET c == [Idle EXCEPT !.op = "erase", !.from = pl, !.plans = <<Erase>>]
    IN Call(s, [c EXCEPT !.kept = Mine(c)], {pl})

\* copy of a dataset into a new one, which is locked
CopyObjects(s) ==
  \E pl \in Place, to \in Place :
    /\ \A o \in objects : o.place # to
    /\ \A t \in Slot : job[t].op = "copy" => job[t].to # to
    /\ LET c == [Idle EXCEPT !.op = "copy", !.from = pl, !.to = to, !.plans = <<Copy>>]
       IN Call(s, [c EXCEPT !.kept = Mine(c)], {})

\* a user writes an object
Upload(o) ==
  /\ "upload" \in setting.calls
  /\ o \notin objects
  /\ Is({"aws", "anthos"}) \/ ContainerOf(o.place) \in containers
  /\ objects' = objects \cup {o} /\ uploaded' = uploaded \cup {o}
  /\ UNCHANGED <<setting, containers, job, condemned>>

-----------------------------------------------------------------------------
(* Steps of a call.                                                        *)

\* a page is read; requests of an earlier page that are awaited come first
List(s) ==
  LET c == job[s]
      p == c.plans[1]
      S == Left(c)
  IN /\ c.pc = "list"
     /\ p.act = "start" \/ Awaited(c) = {}
     /\ Is({"aws", "anthos"}) \/ ContainerOf(c.from) \in containers \/ p.act = "drop"
     /\ \E X \in Pages(S) :
          Change(s,
            CASE p.list = "all" /\ X # S -> [c EXCEPT !.found = @ \cup X]
              [] p.list = "all" /\ X = S ->
                   [c EXCEPT !.pc = "rest", !.found = {},
                             !.sent = @ \cup Requests(p, c.found \cup X)]
              [] p.list = "each" ->
                   [c EXCEPT !.pc = IF X # S THEN "list" ELSE "rest",
                             !.found = IF X # S THEN X ELSE {},
                             !.sent = @ \cup Requests(p, X)]
              [] p.list \in {"again", "first"} ->
                   [c EXCEPT !.pc = IF X # S /\ p.list = "again" THEN "list" ELSE "rest",
                             !.sent = @ \cup Requests(p, X)])

\* a page cannot be read
ListFails(s) ==
  LET c == job[s] IN
  /\ c.pc = "list"
  /\ c.plans[1].act = "start" \/ Awaited(c) = {}
  /\ \/ setting.faulty
     \/ ~Is({"aws", "anthos"}) /\ ContainerOf(c.from) \notin containers
  /\ Change(s, [(IF c.plans[1].answer = "start" THEN Failed(c) ELSE Thrown(c))
                  EXCEPT !.pc = "rest"])

\* after a change of the objects: those that were there throughout
Watched(T) == [s \in Slot |-> [job[s] EXCEPT !.kept = @ \cap T]]

Took(s, r, K, T, c) ==
  /\ r \in job[s].sent
  /\ containers' = K /\ objects' = T
  /\ uploaded' = uploaded \cup (T \ objects)
  /\ job' = [Watched(T) EXCEPT ![s] = [c EXCEPT !.sent = @ \ {r}, !.kept = @ \cap T]]
  /\ UNCHANGED <<setting, condemned>>

DeleteLands(s, r) ==
  /\ r.act = "delete"
  /\ Took(s, r, IF r.on.name = 0 THEN containers \ {r.on.place} ELSE containers,
          objects \ {r.on}, job[s])

\* Azure answers the request when the copy begins
StartLands(s, r) ==
  /\ r.act = "start" /\ r.on \in objects
  /\ Took(s, r, containers, objects,
          [job[s] EXCEPT !.sent = @ \cup {[r EXCEPT !.act = "copy", !.await = FALSE]}])

CopyLands(s, r) ==
  LET t == Target(job[s], r.on) IN
  /\ r.act = "copy" /\ r.on \in objects /\ t \in Object
  /\ Is({"aws", "anthos"}) \/ ContainerOf(t.place) \in containers
  /\ Took(s, r, containers, objects \cup {t}, job[s])

\* Google sets the metadata of the bucket afterwards
CreateLands(s, r) ==
  LET next == IF Is({"google"}) THEN {[r EXCEPT !.act = "meta"]} ELSE {} IN
  /\ r.act = "create"
  /\ Is({"aws", "anthos"}) \/ r.on.place \notin containers
  /\ Took(s, r, containers \cup {r.on.place}, objects,
          [job[s] EXCEPT !.sent = @ \cup next])

MetaLands(s, r) ==
  r.act = "meta" /\ r.on.place \in containers
  /\ Took(s, r, containers, objects, job[s])

Inside(pl) == {o \in objects : ContainerOf(o.place) = pl}

\* a bucket has to be empty for Google and IBM; a container goes with its blobs
DropLands(s, r) ==
  /\ r.act = "drop"
  /\ r.on.place \in containers \/ Is({"aws", "anthos"})
  /\ Is({"google", "ibm"}) => Inside(r.on.place) = {}
  /\ Took(s, r, containers \ {r.on.place},
          IF Is({"azure"}) THEN objects \ Inside(r.on.place) ELSE objects, job[s])

Lands(s, r) ==
  \/ DeleteLands(s, r) \/ StartLands(s, r) \/ CopyLands(s, r)
  \/ CreateLands(s, r) \/ MetaLands(s, r) \/ DropLands(s, r)

\* a request is refused
Refused(s, r) ==
  \/ setting.faulty
  \/ r.act \in {"start", "copy"} /\ (r.on \notin objects \/ Is({"anthos"}))
  \/ /\ r.act = "copy" /\ ~Is({"aws", "anthos"})
     /\ ContainerOf(Target(job[s], r.on).place) \notin containers
  \/ r.act = "create" /\ r.on.place \in containers
  \/ r.act \in {"drop", "meta"} /\ r.on.place \notin containers
  \/ r.act = "drop" /\ Is({"google", "ibm"}) /\ Inside(r.on.place) # {}

Fails(s, r) ==
  LET c == [job[s] EXCEPT !.sent = @ \ {r}] IN
  /\ r \in job[s].sent /\ Refused(s, r)
  /\ \/ r.errors # "lost" /\ r.await /\ Change(s, Thrown(c))
     \/ (r.errors # "thrown" \/ ~r.await) /\ Change(s, Failed(c))

\* the method returns: the next one, or the answer
Returned(c) == c.plans[c.at].answer = "start" \/ (c.pc = "rest" /\ Awaited(c) = {})

Return(s) ==
  LET c == job[s] IN
  /\ c.op # "none" /\ c.ans = "none" /\ Returned(c)
  /\ Change(s, IF c.at < Len(c.plans) THEN Enter(c, c.at + 1)
               ELSE [c EXCEPT !.ans = "ok"])

Settled(c) == c.ans # "none" /\ c.pc = "rest" /\ c.sent = {}

End(s) == Settled(job[s]) /\ Change(s, Idle)

Step(s) ==
  \/ Make(s) \/ Delete(s) \/ DeleteObjects(s) \/ CopyObjects(s)
  \/ List(s) \/ ListFails(s) \/ Return(s) \/ End(s)
  \/ \E r \in job[s].sent : Lands(s, r) \/ Fails(s, r)

Next == (\E s \in Slot : Step(s)) \/ (\E o \in Object : Upload(o))

Spec == Init /\ [][Next]_vars

-----------------------------------------------------------------------------
(* Properties.                                                             *)

\* Deleting one dataset or subproject, in the background and page by page, never
\* takes an object of another: what was written stays until the deletion of its
\* own dataset or subproject is asked for (cloudstorage.ts:125-139).
OthersKeepObjects ==
  TypeOK /\ {o \in uploaded : o.place \notin condemned} \subseteq objects

\* A copy that was answered with success has, when its requests are through,
\* every object that was there throughout, unless the destination is deleted;
\* for Google this is when it answers (gcs.ts:99-134, cloudstorage.ts:141-158).
CopyComplete ==
  \A s \in Slot : LET c == job[s] IN
    /\ c.op = "copy" /\ c.ans = "ok" /\ Is({"google", "azure"})
    /\ Is({"azure"}) => Settled(c) /\ ~c.failed
    => \A o \in c.kept : Target(c, o) \in objects \/ c.to \in condemned

\* A deletion that was answered with success and whose requests all succeeded
\* leaves none of the objects it was to delete (aws/storage.ts:182-212).
Gone ==
  \A s \in Slot : LET c == job[s] IN
    /\ c.op \in {"erase", "unmake"} /\ c.ans = "ok" /\ Settled(c) /\ ~c.failed
    /\ ~Is({"ibm"})
    => c.kept = {}

-----------------------------------------------------------------------------
(* What these rest on.                                                     *)

PlansOf(op) == CASE op = "none" -> <<>> [] op = "make" -> <<Create>>
                 [] op = "unmake" -> Unmake [] op = "erase" -> <<Erase>>
                 [] op = "copy" -> <<Copy>>

\* a call follows the plans of its method, and only the first one lists
Standing(c) ==
  /\ c.plans = PlansOf(c.op)
  /\ c.pc = "list" => c.op # "none" /\ c.plans[1].list # "none"

\* what is deleted is of the dataset or subproject, whose deletion was asked for
Aimed(c) ==
  /\ c.op \in {"erase", "unmake"} => \A pl \in Place : Under(c, pl) => pl \in condemned
  /\ \A x \in c.found : /\ Under(c, x.place)
                        /\ x.name = 0 => \/ c.plans[1].act = "drop"
                                         \/ Is({"aws", "anthos"})
  /\ \A r \in c.sent : r.act \in {"delete", "drop"} =>
       /\ c.op \in {"erase", "unmake"}
       /\ Under(c, r.on.place)
       /\ r.act = "delete" /\ r.on.name = 0 => Is({"aws", "anthos"})

\* an object is in a container
Housed == Is({"azure", "google", "ibm"}) =>
            \A o \in objects : ContainerOf(o.place) \in containers

\* an object, or the container in whose place it is listed, comes on a later page
Ahead(c, o) ==
  /\ c.pc = "list"
  /\ c.plans[1].list = "each" =>
       \A y \in c.found :
         Rank(y) < Rank(IF c.plans[1].act = "drop" THEN Marker(o.place) ELSE o)

Copied(c, o) ==
  \/ \E r \in c.sent : r.act \in {"start", "copy"} /\ r.on = o
  \/ Target(c, o) \in objects
  \/ c.to \in condemned

\* an object is about to be deleted, or the container it is in
Doomed(c, o) ==
  \E r \in c.sent : \/ r.act = "delete" /\ r.on = o
                    \/ /\ r.act = "drop" /\ Is({"azure", "google"})
                       /\ r.on.place = ContainerOf(o.place)

\* a call forgets none of its objects
Minded(c) ==
  ~c.failed => \A o \in c.kept :
    /\ c.op = "copy" /\ Is({"google", "azure"}) => Ahead(c, o) \/ Copied(c, o)
    /\ c.op \in {"erase", "unmake"} /\ ~Is({"ibm"}) => Ahead(c, o) \/ Doomed(c, o)

\* Google's copy answers when all is done
Prompt(c) ==
  c.op = "copy" /\ Is({"google"}) =>
    /\ \A r \in c.sent : r.act = "copy" /\ r.await /\ r.errors = "thrown"
    /\ c.failed => c.ans = "error"
    /\ c.ans = "ok" => c.pc = "rest" /\ c.sent = {}

Sound(c) == /\ c.op # "none" => c.at \in DOMAIN c.plans
            /\ c.kept \subseteq Mine(c)
            /\ Standing(c) /\ Aimed(c) /\ Minded(c) /\ Prompt(c)

IInv == OthersKeepObjects /\ Housed /\ \A s \in Slot : Sound(job[s])
=============================================================================
