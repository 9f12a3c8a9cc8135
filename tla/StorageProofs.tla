----------------------------- MODULE StorageProofs -----------------------------
(***************************************************************************)
(* Theorems about the object storages (Storage): for any number of calls,  *)
(* subprojects, datasets and objects, any size of the pages, and any       *)
(* settings.                                                               *)
(***************************************************************************)
EXTENDS Storage, TLAPS

-----------------------------------------------------------------------------
(* Places and plans.                                                       *)

LEMMA Places ==
  ASSUME NEW pl \in Place
  PROVE  /\ pl \in Container /\ ContainerOf(pl) \in Container
         /\ pl[1] \in Bucket /\ pl[2] \in Nat /\ pl[2] # 0
         /\ \A b : pl # Home(b)
  <1>1. pl[1] \in Bucket /\ pl[2] \in Nat /\ pl[2] # 0
    BY StorageAssumption
  <1>2. pl \in Container /\ Home(pl[1]) \in Container
    BY <1>1 DEF Container
  <1>3. \A b : Home(b)[2] = 0
    BY DEF Home
  <1>4. QED
    BY <1>1, <1>2, <1>3 DEF ContainerOf

\* What is under a dataset is its own place, and under a subproject the places
\* of its datasets; what is under a container is so with it.
LEMMA WhatIsUnder ==
  ASSUME NEW c, NEW pl \in Place
  PROVE  /\ c.from \in Place /\ Under(c, pl) => pl = c.from
         /\ \A b : c.from = Home(b) /\ Under(c, pl) => pl[1] = b
         /\ Under(c, ContainerOf(pl)) => Under(c, pl)
  <1>1. \A b, d : Home(b) = Home(d) => b = d
    BY DEF Home
  <1>2. \A b : Home(b)[1] = b
    BY DEF Home
  <1>3. c.from \in Place => \A b : c.from # Home(b)
    BY Places
  <1>4. \A b : pl # Home(b)
    BY Places
  <1>5. QED
    BY <1>1, <1>2, <1>3, <1>4 DEF Under, ContainerOf

LEMMA SomewhereIs == Somewhere \in Container
  <1>1. PICK b : b \in Bucket
    BY StorageAssumption
  <1>2. Home(b) \in Container
    BY <1>1 DEF Container
  <1>3. QED
    BY <1>2 DEF Somewhere

LEMMA PlanLists ==
  ASSUME NEW p \in Plan, NEW d \in Plan
  PROVE  /\ <<p>> \in Seq(Plan) /\ DOMAIN <<p>> = {1} /\ <<p>>[1] = p
         /\ <<p, d>> \in Seq(Plan) /\ DOMAIN <<p, d>> = {1, 2}
         /\ <<p, d>>[1] = p /\ <<p, d>>[2] = d
  <1>1. DOMAIN <<p>> = 1 .. 1 /\ DOMAIN <<p, d>> = 1 .. 2
    OBVIOUS
  <1>2. 1 .. 1 = {1} /\ 1 .. 2 = {1, 2}
    OBVIOUS
  <1>3. <<p>> \in Seq(Plan) /\ <<p, d>> \in Seq(Plan)
    OBVIOUS
  <1>4. QED
    BY <1>1, <1>2, <1>3

\* What the methods do, whatever the cloud: the first plan alone may list, a
\* plan that lists nothing creates or drops, and only deletions delete or drop.
LEMMA PlansAre ==
  ASSUME setting \in Settings, NEW op \in {"make", "unmake", "erase", "copy"}
  PROVE  LET ps == PlansOf(op) IN
         /\ ps \in Seq(Plan) /\ 1 \in DOMAIN ps
         /\ \A i \in DOMAIN ps :
              /\ i # 1 => ps[i].list = "none" /\ op = "unmake"
              /\ ps[i].list = "none" => ps[i].act \in {"create", "drop"}
              /\ ps[i].act \in {"delete", "drop"} <=> op \in {"erase", "unmake"}
         /\ ps[1].act = "drop" =>
              /\ Is({"azure", "google"})
              /\ ps[1].list # "none" => ps[1].list = "each" /\ setting.policy = "dataset"
              /\ ps[1].list = "none" =>
                   setting.policy = IF op = "erase" THEN "dataset" ELSE "uniform"
         /\ op \in {"erase", "unmake"} /\ ~Is({"ibm"}) => ps[1].list # "first"
         /\ op = "copy" => DOMAIN ps = {1} /\ ps[1].list \in {"each", "first"}
         /\ op = "copy" /\ Is({"google"}) => ps[1] = GoogleCopy
         /\ op = "copy" /\ Is({"google", "azure"}) =>
              ps[1].act \in {"copy", "start"} /\ ps[1].list = "each"
  <1>0. /\ setting.provider \in Provider /\ setting.policy \in {"uniform", "dataset"}
        /\ setting.policy = "dataset" => setting.provider = "azure"
    BY StorageAssumption DEF Setting
  <1>1. CASE op = "make"
    <2>1. Create = How("none", "create", "end", "thrown")
          \/ Create = How("none", "create", "end", "lost")
          \/ Create = How("none", "create", "start", "lost")
      BY <1>0 DEF Create, Is, Provider, AzureCreate, GoogleCreate, AwsCreate, CosCreate,
                  MinioCreate
    <2>2. PlansOf(op) = <<Create>>
      BY <1>1 DEF PlansOf
    <2>3. Create \in Plan /\ Create.list = "none" /\ Create.act = "create"
      BY <2>1 DEF How, Plan
    <2>4. PlansOf(op) \in Seq(Plan) /\ DOMAIN PlansOf(op) = {1} /\ PlansOf(op)[1] = Create
      BY <2>2, <2>3, PlanLists
    <2> HIDE DEF Create, PlansOf
    <2>5. QED
      BY <1>1, <2>3, <2>4
  <1>2. CASE op = "copy"
    <2>1. /\ Copy \in {GoogleCopy, AzureCopy, AwsCopy, MinioCopy, CosCopy}
          /\ Is({"google"}) => Copy = GoogleCopy
          /\ Is({"azure"}) => Copy = AzureCopy
      BY <1>0 DEF Copy, Is, Provider
    <2>2. PlansOf(op) = <<Copy>>
      BY <1>2 DEF PlansOf
    <2>3. Copy \in Plan /\ Copy.list \in {"each", "first"}
          /\ Copy.act \in {"copy", "start", "nothing"}
      BY <2>1 DEF How, Plan, GoogleCopy, AzureCopy, AwsCopy, MinioCopy, CosCopy
    <2>4. Is({"google", "azure"}) => Copy.act \in {"copy", "start"} /\ Copy.list = "each"
      BY <2>1 DEF Is, How, GoogleCopy, AzureCopy
    <2>5. PlansOf(op) \in Seq(Plan) /\ DOMAIN PlansOf(op) = {1} /\ PlansOf(op)[1] = Copy
      BY <2>2, <2>3, PlanLists
    <2>6. QED
      BY <1>2, <2>1, <2>3, <2>4, <2>5
  <1>3. CASE op = "erase"
    <2>1. /\ Erase \in Plan /\ Erase.act \in {"delete", "drop"}
          /\ Erase.list = "none" <=> Erase.act = "drop"
          /\ Erase.act = "drop" => Is({"azure", "google"}) /\ setting.policy = "dataset"
          /\ ~Is({"ibm"}) => Erase.list # "first"
      BY <1>0 DEF Erase, Is, Provider, How, Plan, AzureErase, GoogleErase, AwsErase,
                  MinioErase, CosErase
    <2>2. PlansOf(op) = <<Erase>>
      BY <1>3 DEF PlansOf
    <2>3. PlansOf(op) \in Seq(Plan) /\ DOMAIN PlansOf(op) = {1} /\ PlansOf(op)[1] = Erase
      BY <2>1, <2>2, PlanLists
    <2>4. QED
      BY <1>3, <2>1, <2>3
  <1>4. CASE op = "unmake"
    <2>1. PlansOf(op) = Unmake
      BY <1>4 DEF PlansOf
    <2> DEFINE Pair == \E f, d \in Plan :
                         /\ Unmake = <<f, d>>
                         /\ f.act = "delete" /\ f.list # "none"
                         /\ ~Is({"ibm"}) => f.list # "first"
                         /\ d.act = "drop" /\ d.list = "none"
    <2> DEFINE Single == \E d \in Plan :
                         /\ Unmake = <<d>> /\ d.act = "drop"
                         /\ Is({"azure", "google"})
                         /\ d.list # "none" => d.list = "each" /\ setting.policy = "dataset"
                         /\ d.list = "none" => setting.policy = "uniform"
    <2>2. CASE Pair
      <3>1. PICK f \in Plan, d \in Plan :
                        /\ Unmake = <<f, d>>
                        /\ f.act = "delete" /\ f.list # "none"
                        /\ ~Is({"ibm"}) => f.list # "first"
                        /\ d.act = "drop" /\ d.list = "none"
        BY <2>2
      <3>2. /\ PlansOf(op) \in Seq(Plan) /\ DOMAIN PlansOf(op) = {1, 2}
            /\ PlansOf(op)[1] = f /\ PlansOf(op)[2] = d
        BY <2>1, <3>1, PlanLists
      <3>3. QED
        BY <1>4, <3>1, <3>2
    <2>3. CASE Single
      <3>1. PICK d \in Plan :
                         /\ Unmake = <<d>> /\ d.act = "drop"
                         /\ Is({"azure", "google"})
                         /\ d.list # "none" => d.list = "each" /\ setting.policy = "dataset"
                         /\ d.list = "none" => setting.policy = "uniform"
        BY <2>3
      <3>2. d.list # "first"
        BY <3>1
      <3>3. PlansOf(op) \in Seq(Plan) /\ DOMAIN PlansOf(op) = {1} /\ PlansOf(op)[1] = d
        BY <2>1, <3>1, PlanLists
      <3>4. QED
        BY <1>4, <3>1, <3>2, <3>3
    <2>4. /\ AzureFiles \in Plan /\ AwsFiles \in Plan
          /\ MinioFiles \in Plan /\ CosFiles \in Plan
          /\ AzureFiles.act = "delete" /\ AwsFiles.act = "delete"
          /\ MinioFiles.act = "delete" /\ CosFiles.act = "delete"
          /\ AzureFiles.list = "all" /\ AwsFiles.list = "again"
          /\ MinioFiles.list = "again" /\ CosFiles.list = "first"
      BY DEF How, Plan, AzureFiles, AwsFiles, MinioFiles, CosFiles
    <2>5. /\ \A d \in {AzureDrop, GoogleDrop, AwsDrop, MinioDrop, CosDrop} :
               d \in Plan /\ d.act = "drop" /\ d.list = "none"
          /\ AzureBuckets \in Plan /\ AzureBuckets.act = "drop" /\ AzureBuckets.list = "each"
      BY DEF How, Plan, AzureDrop, GoogleDrop, AwsDrop, MinioDrop, CosDrop, AzureBuckets
    <2>6. CASE setting.provider = "azure"
      <3>1. Unmake = AzureUnmake /\ Is({"azure", "google"})
        BY <2>6 DEF Unmake, Is
      <3>2. QED
        BY <1>0, <2>2, <2>3, <2>4, <2>5, <3>1 DEF AzureUnmake
    <2>7. CASE setting.provider = "google"
      <3>1. Unmake = <<GoogleDrop>> /\ Is({"azure", "google"})
        BY <2>7 DEF Unmake, Is, GoogleUnmake
      <3>2. setting.policy = "uniform"
        BY <1>0, <2>7
      <3>3. QED
        BY <2>3, <2>5, <3>1, <3>2
    <2>8. CASE setting.provider = "aws"
      <3>1. Unmake = <<AwsFiles, AwsDrop>>
        BY <2>8 DEF Unmake, Is, AwsUnmake
      <3>2. QED
        BY <2>2, <2>4, <2>5, <3>1
    <2>9. CASE setting.provider = "anthos"
      <3>1. Unmake = <<MinioFiles, MinioDrop>>
        BY <2>9 DEF Unmake, Is, MinioUnmake
      <3>2. QED
        BY <2>2, <2>4, <2>5, <3>1
    <2>10. CASE setting.provider = "ibm"
      <3>1. Unmake = <<CosFiles, CosDrop>> /\ Is({"ibm"})
        BY <2>10 DEF Unmake, Is, CosUnmake
      <3>2. QED
        BY <2>2, <2>4, <2>5, <3>1
    <2>11. QED
      BY <1>0, <2>6, <2>7, <2>8, <2>9, <2>10 DEF Provider
  <1>5. QED
    BY <1>1, <1>2, <1>3, <1>4

-----------------------------------------------------------------------------
(* What a step leaves as it is.                                            *)

LEMMA RequestsAre ==
  ASSUME NEW p \in Plan, NEW X \in SUBSET Item
  PROVE  /\ Requests(p, X) \in SUBSET Request
         /\ \A r \in Requests(p, X) :
              /\ r.on \in X /\ r.act = p.act /\ r.errors = p.errors
              /\ p.answer = "end" => r.await
         /\ p.act # "nothing" =>
              \A x \in X : \E r \in Requests(p, X) : r.on = x /\ r.act = p.act
  <1>1. CASE p.act = "nothing"
    BY <1>1 DEF Requests
  <1>2. CASE p.act # "nothing"
    <2> DEFINE Of(x) == [act |-> p.act, on |-> x, errors |-> p.errors,
                         await |-> p.answer = "end" \/ p.act = "start"]
    <2>1. Requests(p, X) = {Of(x) : x \in X}
      BY <1>2 DEF Requests
    <2>2. /\ p.act \in {"delete", "copy", "start", "drop", "create"}
          /\ p.errors \in {"thrown", "lost", "either"}
          /\ (p.answer = "end" \/ p.act = "start") \in BOOLEAN
      BY <1>2 DEF Plan
    <2>3. ASSUME NEW x \in X
          PROVE  /\ Of(x) \in Request /\ Of(x).on = x /\ Of(x).act = p.act
                 /\ Of(x).errors = p.errors
                 /\ p.answer = "end" => Of(x).await
      BY <2>2 DEF Request
    <2> HIDE DEF Of
    <2>4. QED
      BY <2>1, <2>3
  <1>3. QED
    BY <1>1, <1>2

LEMMA SettingSame ==
  ASSUME setting' = setting
  PROVE  /\ \A op : PlansOf(op)' = PlansOf(op)
         /\ \A P : Is(P)' <=> Is(P)
         /\ \A pl : ContainerOf(pl)' = ContainerOf(pl)
         /\ \A c, o : Target(c, o)' = Target(c, o)
  <1>1. \A P : Is(P)' <=> Is(P)
    BY DEF Is
  <1>2. Create' = Create /\ Copy' = Copy /\ Erase' = Erase /\ Unmake' = Unmake
    <2>1. AzureErase' = AzureErase /\ AzureUnmake' = AzureUnmake
      BY DEF AzureErase, AzureUnmake
    <2>2. QED
      BY <2>1 DEF Create, Copy, Erase, Unmake, Is
  <1>3. \A op : PlansOf(op)' = PlansOf(op)
    BY <1>2 DEF PlansOf
  <1>4. \A pl : ContainerOf(pl)' = ContainerOf(pl)
    BY DEF ContainerOf
  <1>5. \A c, o : Target(c, o)' = Target(c, o)
    BY DEF Target, Is
  <1>6. QED
    BY <1>1, <1>3, <1>4, <1>5

\* Two states of a call that differ in nothing but what is watched.
Alike(c, d) ==
  /\ d.op = c.op /\ d.plans = c.plans /\ d.at = c.at /\ d.from = c.from /\ d.to = c.to
  /\ d.pc = c.pc /\ d.found = c.found /\ d.sent = c.sent /\ d.ans = c.ans
  /\ d.failed = c.failed

\* Objects are lost only where a deletion was asked for.
Loses == \A o \in objects \ objects' : o.place \in condemned

LEMMA WhereCopiesGo ==
  ASSUME NEW c, NEW o, Is({"google", "azure"})
  PROVE  Target(c, o).place = c.to /\ Target(c, o).name = o.name
  BY DEF Is, Target, AzureTarget, GoogleTarget

\* A call goes on as it was when its objects are those that are still there.
LEMMA OthersSound ==
  ASSUME NEW c \in Job, NEW d \in Job, Sound(c), Alike(c, d),
         d.kept = c.kept \cap objects', setting' = setting, condemned \subseteq condemned',
         Loses
  PROVE  Sound(d)'
  <1>1. d.op # "none" => d.at \in DOMAIN d.plans
    BY DEF Sound, Alike
  <1>2. d.kept \subseteq Mine(d)'
    BY SettingSame DEF Sound, Alike, Mine, Under, Is
  <1>3. Standing(d)'
    BY SettingSame DEF Sound, Alike, Standing
  <1>4. Aimed(d)'
    BY SettingSame DEF Sound, Alike, Aimed, Under
  <1>5. Minded(d)'
    <2> SUFFICES ASSUME ~d.failed, NEW o \in d.kept
                 PROVE  /\ d.op = "copy" /\ Is({"google", "azure"})
                             => Ahead(d, o)' \/ Copied(d, o)'
                        /\ d.op \in {"erase", "unmake"} /\ ~Is({"ibm"})
                             => Ahead(d, o)' \/ Doomed(d, o)'
      BY SettingSame DEF Minded
    <2>1. o \in c.kept /\ ~c.failed
      BY DEF Alike
    <2>2. Ahead(d, o)' <=> Ahead(c, o)
      BY DEF Ahead, Alike
    <2>3. Doomed(d, o)' <=> Doomed(c, o)
      BY SettingSame DEF Doomed, Alike
    <2>4. ASSUME Copied(c, o), Is({"google", "azure"}) PROVE Copied(d, o)'
      <3>1. Target(c, o).place = c.to /\ Target(d, o)' = Target(c, o)
        <4>1. Target(d, o) = Target(c, o)
          BY DEF Target, Alike, AzureTarget, GoogleTarget, CosTarget, MinioTarget
        <4>2. QED
          BY <2>4, <4>1, WhereCopiesGo, SettingSame
      <3>2. QED
        BY <2>4, <3>1 DEF Copied, Alike, Loses
    <2>5. QED
      BY <2>1, <2>2, <2>3, <2>4 DEF Sound, Minded, Alike
  <1>6. Prompt(d)'
    BY SettingSame DEF Sound, Alike, Prompt
  <1>7. QED
    BY <1>1, <1>2, <1>3, <1>4, <1>5, <1>6 DEF Sound

\* A step of one call, whose new state is sound.
LEMMA StepKeeps ==
  ASSUME IInv, NEW s \in Slot, NEW c \in Job,
         setting' = setting, condemned \subseteq condemned', condemned' \subseteq Place,
         containers' \subseteq Container, objects' \subseteq Object,
         uploaded' = uploaded \cup (objects' \ objects), Loses, Housed',
         job' \in [Slot -> Job], job'[s] = c, Sound(c)',
         \A t \in Slot \ {s} : /\ Alike(job[t], job'[t])
                               /\ job'[t].kept = job[t].kept \cap objects'
  PROVE  IInv'
  <1>1. TypeOK'
    BY DEF IInv, OthersKeepObjects, TypeOK
  <1>2. OthersKeepObjects'
    BY <1>1 DEF IInv, OthersKeepObjects, Loses
  <1>3. ASSUME NEW t \in Slot PROVE Sound(job[t])'
    <2>1. CASE t = s
      BY <2>1
    <2>2. CASE t # s
      <3>1. job[t] \in Job /\ job'[t] \in Job /\ Sound(job[t])
        BY DEF IInv, OthersKeepObjects, TypeOK
      <3>2. QED
        BY <2>2, <3>1, OthersSound
    <2>3. QED
      BY <2>1, <2>2
  <1>4. QED
    BY <1>2, <1>3 DEF IInv

\* A step of one call that changes nothing else.
LEMMA ChangeKeeps ==
  ASSUME IInv, NEW s \in Slot, NEW c \in Job, Change(s, c), Sound(c)
  PROVE  IInv'
  <1>1. UNCHANGED <<setting, containers, objects, uploaded, condemned>>
        /\ job' = [job EXCEPT ![s] = c]
    BY DEF Change
  <1>2. job \in [Slot -> Job] /\ \A t \in Slot : job[t].kept \subseteq objects
    BY DEF IInv, OthersKeepObjects, TypeOK, Sound, Mine
  <1>3. job' \in [Slot -> Job] /\ job'[s] = c /\ \A t \in Slot \ {s} : job'[t] = job[t]
    BY <1>1, <1>2
  <1>4. Sound(c)'
    <2>1. c.kept \subseteq objects'
      BY <1>1 DEF Sound, Mine
    <2>2. c.kept = c.kept \cap objects' /\ Alike(c, c) /\ Loses
      BY <1>1, <2>1 DEF Alike, Loses
    <2>3. QED
      BY <1>1, <2>2, OthersSound
  <1>5. Housed' /\ Loses
    BY <1>1, SettingSame DEF IInv, Housed, Loses
  <1>6. /\ condemned' \subseteq Place /\ containers' \subseteq Container
        /\ objects' \subseteq Object /\ uploaded' = uploaded \cup (objects' \ objects)
    BY <1>1 DEF IInv, OthersKeepObjects, TypeOK
  <1>7. \A t \in Slot \ {s} : /\ Alike(job[t], job'[t])
                              /\ job'[t].kept = job[t].kept \cap objects'
    BY <1>1, <1>2, <1>3 DEF Alike
  <1>8. QED
    BY <1>1, <1>3, <1>4, <1>5, <1>6, <1>7, StepKeeps

-----------------------------------------------------------------------------
(* Calls.                                                                  *)

\* The facts about the plans of a call that is under way.
LEMMA PlansOfCall ==
  ASSUME IInv, NEW s \in Slot, job[s].op # "none"
  PROVE  LET c == job[s] IN
         /\ c \in Job /\ Sound(c) /\ c.plans = PlansOf(c.op)
         /\ c.op \in {"make", "unmake", "erase", "copy"} /\ c.at \in DOMAIN c.plans
         /\ setting \in Settings
         /\ \A i \in DOMAIN c.plans : c.plans[i] \in Plan
  <1>1. job[s] \in Job /\ Sound(job[s]) /\ setting \in Settings
    BY DEF IInv, OthersKeepObjects, TypeOK
  <1>2. job[s].op \in {"make", "unmake", "erase", "copy"}
    BY <1>1 DEF Job
  <1>3. job[s].plans \in Seq(Plan) /\ job[s].plans = PlansOf(job[s].op)
    BY <1>1 DEF Job, Sound, Standing
  <1>4. \A i \in DOMAIN job[s].plans : job[s].plans[i] \in Plan
    BY <1>3
  <1>5. QED
    BY <1>1, <1>2, <1>3, <1>4 DEF Sound

\* A plan begins.
LEMMA Entered ==
  ASSUME NEW c \in Job, NEW i \in DOMAIN c.plans
  PROVE  LET d == Enter(c, i)
             p == c.plans[i]
         IN /\ d \in Job
            /\ d.op = c.op /\ d.plans = c.plans /\ d.at = i /\ d.from = c.from
            /\ d.to = c.to /\ d.found = c.found /\ d.ans = c.ans /\ d.failed = c.failed
            /\ d.kept = c.kept
            /\ p.list # "none" => d.pc = "list" /\ d.sent = c.sent
            /\ p.list = "none" =>
                 d.pc = c.pc /\ d.sent = c.sent \cup Requests(p, {Marker(c.from)})
  <1> DEFINE p == c.plans[i]
  <1>1. p \in Plan /\ i \in Nat
    BY DEF Job
  <1>2. {Marker(c.from)} \in SUBSET Item
    BY DEF Item, Job
  <1>3. Requests(p, {Marker(c.from)}) \in SUBSET Request
    BY <1>1, <1>2, RequestsAre
  <1>4. CASE p.list = "none"
    <2> DEFINE R == Requests(p, {Marker(c.from)})
    <2>1. Enter(c, i) = [c EXCEPT !.at = i, !.sent = @ \cup R]
      BY <1>4 DEF Enter
    <2>2. R \in SUBSET Request
      BY <1>3
    <2> HIDE DEF R
    <2>3. [c EXCEPT !.at = i, !.sent = @ \cup R] \in Job
      BY <1>1, <2>2 DEF Job
    <2>4. QED
      BY <1>4, <2>1, <2>3 DEF Job, R
  <1>5. CASE p.list # "none"
    <2>1. Enter(c, i) = [c EXCEPT !.at = i, !.pc = "list"]
      BY <1>5 DEF Enter
    <2>2. [c EXCEPT !.at = i, !.pc = "list"] \in Job
      BY <1>1 DEF Job
    <2>3. QED
      BY <1>5, <2>1, <2>2 DEF Job
  <1>6. QED
    BY <1>4, <1>5

\* What a plan does that lists nothing: to the container of its call.
LEMMA MarkedRequests ==
  ASSUME NEW c \in Job, NEW p \in Plan, p.list = "none"
  PROVE  LET R == Requests(p, {Marker(c.from)}) IN
         /\ \A r \in R : r.on = Marker(c.from) /\ r.act = p.act
         /\ p.act # "nothing" => \E r \in R : r.on = Marker(c.from) /\ r.act = p.act
         /\ Marker(c.from).place = c.from /\ Marker(c.from).name = 0 /\ Under(c, c.from)
  <1>1. {Marker(c.from)} \in SUBSET Item
    BY DEF Item, Job
  <1>2. Marker(c.from).place = c.from /\ Marker(c.from).name = 0 /\ Under(c, c.from)
    BY DEF Marker, Under
  <1>3. QED
    BY <1>1, <1>2, RequestsAre

\* The objects of a deletion without a listing are in the container it drops.
LEMMA DropsItsOwn ==
  ASSUME NEW c, NEW o \in Object, Under(c, o.place), setting \in Settings,
         \/ c.from \in Place /\ setting.policy = "dataset"
         \/ (\E b \in Bucket : c.from = Home(b)) /\ setting.policy = "uniform"
  PROVE  ContainerOf(o.place) = c.from
  <1>1. o.place \in Place
    BY DEF Object
  <1>2. CASE c.from \in Place /\ setting.policy = "dataset"
    BY <1>1, <1>2, WhatIsUnder DEF ContainerOf
  <1>3. ASSUME NEW b \in Bucket, c.from = Home(b), setting.policy = "uniform"
        PROVE  ContainerOf(o.place) = c.from
    BY <1>1, <1>3, WhatIsUnder DEF ContainerOf
  <1>4. QED
    BY <1>2, <1>3

LEMMA CallKeeps ==
  ASSUME IInv, NEW s \in Slot, NEW c \in Job, NEW D \in SUBSET Place, Call(s, c, D),
         c.op # "none", c.plans = PlansOf(c.op), c.pc = "rest", c.found = {},
         c.sent = {}, c.ans = "none", ~c.failed, c.kept \subseteq Mine(c),
         c.op \in {"erase", "unmake"} =>
           \A pl \in Place : Under(c, pl) => pl \in condemned \cup D,
         c.op \in {"erase", "unmake"} /\ c.plans[1].list = "none" =>
           \A o \in c.kept : ContainerOf(o.place) = c.from
  PROVE  IInv'
  <1>1. /\ UNCHANGED <<setting, containers, objects, uploaded>>
        /\ condemned' = condemned \cup D /\ job' = [job EXCEPT ![s] = Enter(c, 1)]
    BY DEF Call
  <1>2. setting \in Settings /\ job \in [Slot -> Job]
        /\ \A t \in Slot : job[t].kept \subseteq objects
    BY DEF IInv, OthersKeepObjects, TypeOK, Sound, Mine
  <1>3. c.op \in {"make", "unmake", "erase", "copy"}
    BY DEF Job
  <1> DEFINE p == c.plans[1]
             d == Enter(c, 1)
  <1>4. /\ 1 \in DOMAIN c.plans /\ p \in Plan
        /\ p.list = "none" => p.act \in {"create", "drop"}
        /\ p.act \in {"delete", "drop"} <=> c.op \in {"erase", "unmake"}
        /\ p.act = "drop" => Is({"azure", "google"})
        /\ c.op = "copy" /\ Is({"google", "azure"}) => p.list = "each"
    BY <1>2, <1>3, PlansAre
  <1>5. /\ d \in Job
        /\ d.op = c.op /\ d.plans = c.plans /\ d.at = 1 /\ d.from = c.from
        /\ d.to = c.to /\ d.found = {} /\ d.ans = "none" /\ ~d.failed
        /\ d.kept = c.kept
        /\ p.list # "none" => d.pc = "list" /\ d.sent = {}
        /\ p.list = "none" => d.pc = "rest" /\ d.sent = Requests(p, {Marker(c.from)})
    <2>1. /\ d \in Job
          /\ d.op = c.op /\ d.plans = c.plans /\ d.at = 1 /\ d.from = c.from
          /\ d.to = c.to /\ d.found = c.found /\ d.ans = c.ans /\ d.failed = c.failed
          /\ d.kept = c.kept
          /\ p.list # "none" => d.pc = "list" /\ d.sent = c.sent
          /\ p.list = "none" =>
               d.pc = c.pc /\ d.sent = c.sent \cup Requests(p, {Marker(c.from)})
      BY <1>4, Entered
    <2> HIDE DEF d, p
    <2>2. QED
      BY <2>1
  <1> DEFINE R == Requests(p, {Marker(c.from)})
  <1>6. p.list = "none" =>
          /\ \A r \in R : r.on = Marker(c.from) /\ r.act = p.act
          /\ p.act # "nothing" => \E r \in R : r.on = Marker(c.from) /\ r.act = p.act
    BY <1>4, MarkedRequests
  <1>7. Marker(c.from).place = c.from /\ Marker(c.from).name = 0 /\ Under(c, c.from)
    BY DEF Marker, Under
  <1>8. \A pl : Under(d, pl) <=> Under(c, pl)
    BY <1>5 DEF Under
  <1> HIDE DEF d, R
  <1>9. /\ \A P : Is(P)' <=> Is(P)
        /\ \A op : PlansOf(op)' = PlansOf(op)
        /\ \A pl : ContainerOf(pl)' = ContainerOf(pl)
    BY <1>1, SettingSame
  <1>10. Standing(d)'
    BY <1>5, <1>9 DEF Standing
  <1>11. Aimed(d)'
    <2>1. d.op \in {"erase", "unmake"} => \A pl \in Place : Under(d, pl) => pl \in condemned'
      BY <1>1, <1>5, <1>8
    <2>2. ASSUME NEW r \in d.sent, r.act \in {"delete", "drop"}
          PROVE  /\ d.op \in {"erase", "unmake"} /\ Under(d, r.on.place)
                 /\ r.act # "delete"
      BY <1>4, <1>5, <1>6, <1>7, <1>8, <2>2 DEF R
    <2>3. \A x : Under(d, x)' <=> Under(d, x)
      BY DEF Under
    <2>4. QED
      BY <1>5, <2>1, <2>2, <2>3 DEF Aimed
  <1>12. Minded(d)'
    <2> SUFFICES ASSUME NEW o \in d.kept
                 PROVE  /\ d.op = "copy" /\ Is({"google", "azure"})
                             => Ahead(d, o)' \/ Copied(d, o)'
                        /\ d.op \in {"erase", "unmake"} /\ ~Is({"ibm"})
                             => Ahead(d, o)' \/ Doomed(d, o)'
      BY <1>9 DEF Minded
    <2>1. p.list # "none" => Ahead(d, o)'
      BY <1>5 DEF Ahead
    <2>2. ASSUME p.list = "none", d.op \in {"erase", "unmake"} PROVE Doomed(d, o)'
      <3>1. p.act = "drop" /\ ContainerOf(o.place) = c.from
        BY <1>4, <1>5, <2>2
      <3>2. PICK r \in d.sent : r.on = Marker(c.from) /\ r.act = "drop"
        BY <1>5, <1>6, <2>2, <3>1 DEF R
      <3>3. QED
        BY <1>4, <1>7, <1>9, <3>1, <3>2 DEF Doomed
    <2>3. QED
      BY <1>4, <1>5, <2>1, <2>2
  <1>13. Prompt(d)'
    BY <1>4, <1>5, <1>9 DEF Prompt, Is
  <1>14. d.kept \subseteq Mine(d)'
    BY <1>1, <1>5, <1>9 DEF Mine, Under
  <1>15. Sound(d)'
    BY <1>4, <1>5, <1>10, <1>11, <1>12, <1>13, <1>14 DEF Sound
  <1>16. Housed' /\ Loses
    BY <1>1, <1>9 DEF IInv, Housed, Loses
  <1>17. /\ condemned' \subseteq Place /\ containers' \subseteq Container
         /\ objects' \subseteq Object /\ uploaded' = uploaded \cup (objects' \ objects)
         /\ condemned \subseteq condemned' /\ setting' = setting
    BY <1>1 DEF IInv, OthersKeepObjects, TypeOK
  <1>18. job' \in [Slot -> Job] /\ job'[s] = d /\ \A t \in Slot \ {s} : job'[t] = job[t]
    BY <1>1, <1>2, <1>5 DEF d
  <1>19. \A t \in Slot \ {s} : /\ Alike(job[t], job'[t])
                               /\ job'[t].kept = job[t].kept \cap objects'
    BY <1>1, <1>2, <1>18 DEF Alike
  <1>20. QED
    BY <1>5, <1>15, <1>16, <1>17, <1>18, <1>19, StepKeeps

LEMMA IdleIs ==
  /\ Idle \in Job /\ Idle.pc = "rest" /\ Idle.found = {} /\ Idle.sent = {}
  /\ Idle.ans = "none" /\ Idle.failed = FALSE /\ Idle.kept = {} /\ Idle.op = "none"
  /\ Idle.plans = <<>> /\ Idle.at = 1
  BY SomewhereIs DEF Idle, Job


LEMMA MakeKeeps ==
  ASSUME IInv, NEW s \in Slot, Make(s) PROVE IInv'
  <1>1. PICK pl \in Place :
          Call(s, [Idle EXCEPT !.op = "make", !.from = ContainerOf(pl),
                               !.plans = <<Create>>], {})
    BY DEF Make
  <1> DEFINE c == [Idle EXCEPT !.op = "make", !.from = ContainerOf(pl),
                               !.plans = <<Create>>]
  <1>2. ContainerOf(pl) \in Container
    BY Places
  <1>3. PlansOf("make") = <<Create>>
    BY DEF PlansOf
  <1>4. <<Create>> \in Seq(Plan)
    BY <1>3, PlansAre DEF IInv, OthersKeepObjects, TypeOK
  <1>5. /\ c \in Job /\ c.op = "make" /\ c.plans = <<Create>> /\ c.pc = "rest"
        /\ c.found = {} /\ c.sent = {} /\ c.ans = "none" /\ ~c.failed /\ c.kept = {}
    BY <1>2, <1>4, IdleIs DEF Job
  <1> HIDE DEF c
  <1>6. Call(s, c, {})
    BY <1>1 DEF c
  <1>7. QED
    BY <1>3, <1>5, <1>6, CallKeeps

LEMMA DeleteKeeps ==
  ASSUME IInv, NEW s \in Slot, Delete(s) PROVE IInv'
  <1>1. PICK b \in Bucket :
          LET c == [Idle EXCEPT !.op = "unmake", !.from = Home(b), !.plans = Unmake]
          IN Call(s, [c EXCEPT !.kept = Mine(c)], {pl \in Place : pl[1] = b})
    BY DEF Delete
  <1> DEFINE i == [Idle EXCEPT !.op = "unmake", !.from = Home(b), !.plans = Unmake]
             c == [i EXCEPT !.kept = Mine(i)]
             D == {pl \in Place : pl[1] = b}
  <1>2. Home(b) \in Container
    BY DEF Container
  <1>3. PlansOf("unmake") = Unmake
    BY DEF PlansOf
  <1>4. Unmake \in Seq(Plan) /\ setting \in Settings /\ objects \subseteq Object
    BY <1>3, PlansAre DEF IInv, OthersKeepObjects, TypeOK
  <1>5. Mine(i) \in SUBSET Object
    BY <1>4 DEF Mine
  <1>6. i.op = "unmake" /\ i.from = Home(b) /\ i \in Job
    BY <1>2, <1>4, IdleIs DEF Job
  <1>7. /\ c \in Job /\ c.op = "unmake" /\ c.plans = Unmake /\ c.pc = "rest"
        /\ c.from = Home(b)
        /\ c.found = {} /\ c.sent = {} /\ c.ans = "none" /\ ~c.failed /\ c.kept = Mine(i)
    BY <1>2, <1>4, <1>5, IdleIs DEF Job
  <1>8. Mine(c) = Mine(i)
    BY <1>6, <1>7 DEF Mine, Under
  <1> HIDE DEF c, i
  <1>9. Call(s, c, D)
    BY <1>1 DEF c, i
  <1>10. \A pl \in Place : Under(c, pl) => pl \in condemned \cup D
    BY <1>7, WhatIsUnder
  <1>11. ASSUME c.plans[1].list = "none", NEW o \in c.kept
         PROVE  ContainerOf(o.place) = c.from
    <2>1. setting.policy = "uniform"
      BY <1>3, <1>4, <1>7, <1>11, PlansAre
    <2>2. o \in Object /\ Under(c, o.place)
      BY <1>4, <1>7, <1>8 DEF Mine
    <2>3. QED
      BY <1>4, <1>7, <2>1, <2>2, DropsItsOwn
  <1>12. QED
    BY <1>3, <1>7, <1>8, <1>9, <1>10, <1>11, CallKeeps

LEMMA DeleteObjectsKeeps ==
  ASSUME IInv, NEW s \in Slot, DeleteObjects(s) PROVE IInv'
  <1>1. PICK pl \in Place :
          LET c == [Idle EXCEPT !.op = "erase", !.from = pl, !.plans = <<Erase>>]
          IN Call(s, [c EXCEPT !.kept = Mine(c)], {pl})
    BY DEF DeleteObjects
  <1> DEFINE i == [Idle EXCEPT !.op = "erase", !.from = pl, !.plans = <<Erase>>]
             c == [i EXCEPT !.kept = Mine(i)]
             D == {pl}
  <1>2. pl \in Container
    BY Places
  <1>3. PlansOf("erase") = <<Erase>>
    BY DEF PlansOf
  <1>4. <<Erase>> \in Seq(Plan) /\ setting \in Settings /\ objects \subseteq Object
    BY <1>3, PlansAre DEF IInv, OthersKeepObjects, TypeOK
  <1>5. Mine(i) \in SUBSET Object
    BY <1>4 DEF Mine
  <1>6. i.op = "erase" /\ i.from = pl /\ i \in Job
    BY <1>2, <1>4, IdleIs DEF Job
  <1>7. /\ c \in Job /\ c.op = "erase" /\ c.plans = <<Erase>> /\ c.pc = "rest"
        /\ c.from = pl
        /\ c.found = {} /\ c.sent = {} /\ c.ans = "none" /\ ~c.failed /\ c.kept = Mine(i)
    BY <1>2, <1>4, <1>5, IdleIs DEF Job
  <1>8. Mine(c) = Mine(i)
    BY <1>6, <1>7 DEF Mine, Under
  <1> HIDE DEF c, i
  <1>9. Call(s, c, D)
    BY <1>1 DEF c, i
  <1>10. \A x \in Place : Under(c, x) => x \in condemned \cup D
    BY <1>7, WhatIsUnder
  <1>11. ASSUME c.plans[1].list = "none", NEW o \in c.kept
         PROVE  ContainerOf(o.place) = c.from
    <2>1. c.plans = PlansOf("erase") /\ 1 \in DOMAIN c.plans
      BY <1>3, <1>4, <1>7, PlansAre
    <2>2. c.plans[1].act = "drop"
      BY <1>4, <1>11, <2>1, PlansAre
    <2>3. setting.policy = "dataset"
      BY <1>4, <1>11, <2>1, <2>2, PlansAre
    <2>4. o \in Object /\ Under(c, o.place)
      BY <1>4, <1>7, <1>8 DEF Mine
    <2>5. QED
      BY <1>4, <1>7, <2>3, <2>4, DropsItsOwn
  <1>12. QED
    BY <1>3, <1>7, <1>8, <1>9, <1>10, <1>11, CallKeeps

LEMMA CopyObjectsKeeps ==
  ASSUME IInv, NEW s \in Slot, CopyObjects(s) PROVE IInv'
  <1>1. PICK pl \in Place, to \in Place :
          LET c == [Idle EXCEPT !.op = "copy", !.from = pl, !.to = to, !.plans = <<Copy>>]
          IN Call(s, [c EXCEPT !.kept = Mine(c)], {})
    BY DEF CopyObjects
  <1> DEFINE i == [Idle EXCEPT !.op = "copy", !.from = pl, !.to = to, !.plans = <<Copy>>]
             c == [i EXCEPT !.kept = Mine(i)]
  <1>2. pl \in Container /\ to \in Container
    BY Places
  <1>3. PlansOf("copy") = <<Copy>>
    BY DEF PlansOf
  <1>4. <<Copy>> \in Seq(Plan) /\ setting \in Settings /\ objects \subseteq Object
    BY <1>3, PlansAre DEF IInv, OthersKeepObjects, TypeOK
  <1>5. Mine(i) \in SUBSET Object
    BY <1>4 DEF Mine
  <1>6. i.op = "copy" /\ i.from = pl /\ i \in Job
    BY <1>2, <1>4, IdleIs DEF Job
  <1>7. /\ c \in Job /\ c.op = "copy" /\ c.plans = <<Copy>> /\ c.pc = "rest"
        /\ c.from = pl
        /\ c.found = {} /\ c.sent = {} /\ c.ans = "none" /\ ~c.failed /\ c.kept = Mine(i)
    BY <1>2, <1>4, <1>5, IdleIs DEF Job
  <1>8. Mine(c) = Mine(i)
    BY <1>6, <1>7 DEF Mine, Under
  <1> HIDE DEF c, i
  <1>9. Call(s, c, {})
    BY <1>1 DEF c, i
  <1>10. QED
    BY <1>3, <1>7, <1>8, <1>9, CallKeeps

-----------------------------------------------------------------------------
(* Answers, and what fails.                                                *)

LEMMA ReturnKeeps ==
  ASSUME IInv, NEW s \in Slot, Return(s) PROVE IInv'
  <1> DEFINE c == job[s]
  <1>1. c.op # "none" /\ c.ans = "none" /\ Returned(c)
    BY DEF Return
  <1>2. /\ c \in Job /\ Sound(c) /\ c.plans = PlansOf(c.op)
        /\ c.op \in {"make", "unmake", "erase", "copy"} /\ c.at \in DOMAIN c.plans
        /\ setting \in Settings /\ \A i \in DOMAIN c.plans : c.plans[i] \in Plan
    BY <1>1, PlansOfCall
  <1>3. CASE c.at < Len(c.plans)
    <2> DEFINE i == c.at + 1
               p == c.plans[i]
               d == Enter(c, i)
    <2>1. i \in DOMAIN c.plans /\ i # 1 /\ c.plans \in Seq(Plan)
      <3>1. c.plans \in Seq(Plan) /\ DOMAIN c.plans = 1 .. Len(c.plans) /\ Len(c.plans) \in Nat
        BY <1>2 DEF Job
      <3>2. QED
        BY <1>2, <1>3, <3>1
    <2>2. p \in Plan /\ p.list = "none" /\ p.act = "drop" /\ c.op = "unmake"
      BY <1>2, <2>1, PlansAre
    <2>3. /\ d \in Job
          /\ d.op = c.op /\ d.plans = c.plans /\ d.at = i /\ d.from = c.from
          /\ d.to = c.to /\ d.found = c.found /\ d.ans = c.ans /\ d.failed = c.failed
          /\ d.kept = c.kept /\ d.pc = c.pc
          /\ d.sent = c.sent \cup Requests(p, {Marker(c.from)})
      BY <1>2, <2>1, <2>2, Entered
    <2>4. /\ \A r \in Requests(p, {Marker(c.from)}) : r.on = Marker(c.from) /\ r.act = "drop"
          /\ Marker(c.from).place = c.from /\ Under(c, c.from)
      BY <1>2, <2>2, MarkedRequests
    <2>5. Change(s, d)
      BY <1>3 DEF Return
    <2>6. \A x : Under(d, x) <=> Under(c, x)
      BY <2>3 DEF Under
    <2> HIDE DEF d, p, c
    <2>7. Standing(d)
      BY <1>2, <2>3 DEF Sound, Standing
    <2>8. Aimed(d)
      BY <1>2, <2>2, <2>3, <2>4, <2>6 DEF Sound, Aimed
    <2>9. Minded(d)
      <3>1. ASSUME NEW o PROVE /\ Ahead(c, o) => Ahead(d, o)
                               /\ Doomed(c, o) => Doomed(d, o)
        BY <2>3 DEF Ahead, Doomed
      <3>2. QED
        BY <1>2, <2>2, <2>3, <3>1 DEF Sound, Minded
    <2>10. Prompt(d) /\ d.kept \subseteq Mine(d) /\ d.at \in DOMAIN d.plans
      BY <1>2, <2>1, <2>2, <2>3 DEF Prompt, Mine, Under, Sound
    <2>11. Sound(d)
      BY <2>7, <2>8, <2>9, <2>10 DEF Sound
    <2>12. QED
      BY <2>3, <2>5, <2>11, ChangeKeeps
  <1>4. CASE ~(c.at < Len(c.plans))
    <2> DEFINE d == [c EXCEPT !.ans = "ok"]
    <2>1. /\ d \in Job
          /\ d.op = c.op /\ d.plans = c.plans /\ d.at = c.at /\ d.from = c.from
          /\ d.to = c.to /\ d.found = c.found /\ d.ans = "ok" /\ d.failed = c.failed
          /\ d.kept = c.kept /\ d.pc = c.pc /\ d.sent = c.sent
      BY <1>2 DEF Job
    <2>2. Change(s, d)
      BY <1>4 DEF Return
    <2> HIDE DEF d, c
    <2>3. Standing(d) /\ Aimed(d)
      BY <1>2, <2>1 DEF Sound, Standing, Aimed, Under
    <2>4. Minded(d)
      <3>1. ASSUME NEW o PROVE /\ Ahead(c, o) <=> Ahead(d, o)
                               /\ Doomed(c, o) <=> Doomed(d, o)
                               /\ Copied(c, o) <=> Copied(d, o)
        BY <2>1 DEF Ahead, Doomed, Copied, Target, AzureTarget, GoogleTarget, CosTarget,
                    MinioTarget
      <3>2. QED
        BY <1>2, <2>1, <3>1 DEF Sound, Minded
    <2>5. Prompt(d)
      <3> SUFFICES ASSUME d.op = "copy", Is({"google"})
                   PROVE  /\ \A r \in d.sent : r.act = "copy" /\ r.await /\ r.errors = "thrown"
                          /\ ~d.failed /\ d.pc = "rest" /\ d.sent = {}
        BY DEF Prompt
      <3>1. /\ \A r \in c.sent : r.act = "copy" /\ r.await /\ r.errors = "thrown"
            /\ c.failed => c.ans = "error"
        BY <1>2, <2>1 DEF Sound, Prompt
      <3>2. c.plans[c.at].answer = "end"
        <4>1. c.at = 1 /\ c.plans[1] = GoogleCopy
          BY <1>2, <2>1, PlansAre
        <4>2. QED
          BY <4>1 DEF GoogleCopy, How
      <3>3. c.pc = "rest" /\ Awaited(c) = {}
        BY <1>1, <3>2 DEF Returned
      <3>4. QED
        BY <1>1, <2>1, <3>1, <3>3 DEF Awaited
    <2>6. Sound(d)
      BY <1>2, <2>1, <2>3, <2>4, <2>5 DEF Sound, Mine, Under
    <2>7. QED
      BY <2>1, <2>2, <2>6, ChangeKeeps
  <1>5. QED
    BY <1>3, <1>4

LEMMA EndKeeps ==
  ASSUME IInv, NEW s \in Slot, End(s) PROVE IInv'
  <1>1. Change(s, Idle)
    BY DEF End
  <1>2. Standing(Idle)
    BY IdleIs DEF Standing, PlansOf
  <1>3. Aimed(Idle) /\ Minded(Idle) /\ Prompt(Idle)
    BY IdleIs DEF Aimed, Minded, Prompt
  <1>4. Sound(Idle)
    BY <1>2, <1>3, IdleIs DEF Sound
  <1>5. QED
    BY <1>1, <1>4, IdleIs, ChangeKeeps

\* A call in which something has failed, and which has sent nothing new, is
\* sound: nothing is claimed of it but what it deletes and how it answers.
LEMMA FailedIsSound ==
  ASSUME NEW c \in Job, NEW d \in Job, Sound(c), d.failed,
         d.op = c.op, d.plans = c.plans, d.at = c.at, d.from = c.from, d.found = c.found,
         d.kept = c.kept, d.pc \in {c.pc, "rest"}, d.sent \subseteq c.sent,
         d.op = "copy" /\ Is({"google"}) => d.ans = "error"
  PROVE  Sound(d)
  <1>1. Standing(d) /\ Aimed(d)
    BY DEF Sound, Standing, Aimed, Under
  <1>2. Minded(d) /\ Prompt(d)
    BY DEF Sound, Minded, Prompt
  <1>3. QED
    BY <1>1, <1>2 DEF Sound, Mine, Under

LEMMA ThrownIs ==
  ASSUME NEW c \in Job
  PROVE  LET d == Thrown(c) IN
         /\ d \in Job /\ d.failed
         /\ d.op = c.op /\ d.plans = c.plans /\ d.at = c.at /\ d.from = c.from
         /\ d.found = c.found /\ d.kept = c.kept /\ d.pc \in {c.pc, "rest"} /\ d.sent = c.sent
         /\ d.ans = IF c.ans = "none" THEN "error" ELSE c.ans
  <1>1. CASE c.ans = "none"
    <2>1. Thrown(c) = [[c EXCEPT !.failed = TRUE] EXCEPT !.ans = "error", !.pc = "rest"]
      BY <1>1 DEF Thrown, Failed
    <2>2. QED
      BY <1>1, <2>1 DEF Job
  <1>2. CASE c.ans # "none"
    <2>1. Thrown(c) = [c EXCEPT !.failed = TRUE]
      BY <1>2 DEF Thrown, Failed
    <2>2. QED
      BY <1>2, <2>1 DEF Job
  <1>3. QED
    BY <1>1, <1>2

LEMMA FailedIs ==
  ASSUME NEW c \in Job
  PROVE  LET d == Failed(c) IN
         /\ d \in Job /\ d.failed
         /\ d.op = c.op /\ d.plans = c.plans /\ d.at = c.at /\ d.from = c.from
         /\ d.found = c.found /\ d.kept = c.kept /\ d.pc = c.pc /\ d.sent = c.sent
         /\ d.ans = c.ans
  BY DEF Failed, Job

LEMMA ListFailsKeeps ==
  ASSUME IInv, NEW s \in Slot, ListFails(s) PROVE IInv'
  <1> DEFINE c == job[s]
             e == IF c.plans[1].answer = "start" THEN Failed(c) ELSE Thrown(c)
             d == [e EXCEPT !.pc = "rest"]
  <1>1. c.pc = "list" /\ Change(s, d)
    BY DEF ListFails
  <1>2. c \in Job /\ Sound(c) /\ c.op # "none" /\ setting \in Settings
    BY <1>1 DEF IInv, OthersKeepObjects, TypeOK, Sound, Standing
  <1>3. /\ e \in Job /\ e.failed
        /\ e.op = c.op /\ e.plans = c.plans /\ e.at = c.at /\ e.from = c.from
        /\ e.found = c.found /\ e.kept = c.kept /\ e.sent = c.sent
        /\ c.plans[1].answer # "start" =>
             e.ans = IF c.ans = "none" THEN "error" ELSE c.ans
    BY <1>2, ThrownIs, FailedIs
  <1> HIDE DEF e, c
  <1>4. /\ d \in Job /\ d.failed
        /\ d.op = c.op /\ d.plans = c.plans /\ d.at = c.at /\ d.from = c.from
        /\ d.found = c.found /\ d.kept = c.kept /\ d.pc = "rest" /\ d.sent = c.sent
        /\ d.ans = e.ans
    BY <1>3 DEF Job
  <1> HIDE DEF d
  <1>5. d.op = "copy" /\ Is({"google"}) => d.ans = "error"
    <2> SUFFICES ASSUME d.op = "copy", Is({"google"}) PROVE d.ans = "error"
      OBVIOUS
    <2>1. c.plans[1] = GoogleCopy
      BY <1>2, <1>4, PlansAre DEF Sound, Standing
    <2>2. c.plans[1].answer # "start"
      BY <2>1 DEF GoogleCopy, How
    <2>3. c.ans # "ok"
      BY <1>1, <1>2, <1>4 DEF Sound, Prompt
    <2>4. c.ans \in {"none", "ok", "error"}
      BY <1>2 DEF Job
    <2>5. QED
      BY <1>3, <1>4, <2>2, <2>3, <2>4
  <1>6. Sound(d)
    BY <1>2, <1>4, <1>5, FailedIsSound
  <1>7. QED
    BY <1>1, <1>4, <1>6, ChangeKeeps

LEMMA FailsKeeps ==
  ASSUME IInv, NEW s \in Slot, NEW r \in job[s].sent, Fails(s, r) PROVE IInv'
  <1> DEFINE b == job[s]
             c == [b EXCEPT !.sent = @ \ {r}]
  <1>1. \/ r.errors # "lost" /\ r.await /\ Change(s, Thrown(c))
        \/ (r.errors # "thrown" \/ ~r.await) /\ Change(s, Failed(c))
    BY DEF Fails
  <1>2. b \in Job /\ Sound(b)
    BY DEF IInv, OthersKeepObjects, TypeOK
  <1>3. /\ c \in Job
        /\ c.op = b.op /\ c.plans = b.plans /\ c.at = b.at /\ c.from = b.from
        /\ c.found = b.found /\ c.kept = b.kept /\ c.pc = b.pc /\ c.sent \subseteq b.sent
        /\ c.ans = b.ans
    BY <1>2 DEF Job
  <1>4. b.op = "copy" /\ Is({"google"}) =>
          r.await /\ r.errors = "thrown" /\ b.ans \in {"none", "error"}
    BY <1>2 DEF Sound, Prompt, Job
  <1> HIDE DEF b, c
  <1>5. CASE r.errors # "lost" /\ r.await /\ Change(s, Thrown(c))
    <2> DEFINE d == Thrown(c)
    <2>1. /\ d \in Job /\ d.failed
          /\ d.op = c.op /\ d.plans = c.plans /\ d.at = c.at /\ d.from = c.from
          /\ d.found = c.found /\ d.kept = c.kept /\ d.pc \in {c.pc, "rest"} /\ d.sent = c.sent
          /\ d.ans = IF c.ans = "none" THEN "error" ELSE c.ans
      BY <1>3, ThrownIs
    <2>2. Change(s, d)
      BY <1>5
    <2> HIDE DEF d
    <2>3. Sound(d)
      BY <1>2, <1>3, <1>4, <2>1, FailedIsSound
    <2>4. QED
      BY <2>1, <2>2, <2>3, ChangeKeeps
  <1>6. CASE (r.errors # "thrown" \/ ~r.await) /\ Change(s, Failed(c))
    <2> DEFINE d == Failed(c)
    <2>1. /\ d \in Job /\ d.failed
          /\ d.op = c.op /\ d.plans = c.plans /\ d.at = c.at /\ d.from = c.from
          /\ d.found = c.found /\ d.kept = c.kept /\ d.pc = c.pc /\ d.sent = c.sent
          /\ d.ans = c.ans
      BY <1>3, FailedIs
    <2>2. Change(s, d)
      BY <1>6
    <2> HIDE DEF d
    <2>3. Sound(d)
      BY <1>2, <1>3, <1>4, <1>6, <2>1, FailedIsSound
    <2>4. QED
      BY <2>1, <2>2, <2>3, ChangeKeeps
  <1>7. QED
    BY <1>1, <1>5, <1>6

-----------------------------------------------------------------------------
(* Listings.                                                               *)

LEMMA ScopeIs ==
  ASSUME IInv, NEW c \in Job, NEW x \in Scope(c)
  PROVE  /\ x \in Item /\ Under(c, x.place)
         /\ x.name = 0 => c.plans[1].act = "drop" \/ Is({"aws", "anthos"})
  <1>1. objects \subseteq Object /\ containers \subseteq Container
    BY DEF IInv, OthersKeepObjects, TypeOK
  <1>2. \A pl : Marker(pl).place = pl /\ Marker(pl).name = 0
    BY DEF Marker
  <1>3. \A pl \in containers : Marker(pl) \in Item
    BY <1>1 DEF Item
  <1>4. Under(c, c.from)
    BY DEF Under
  <1>5. \A o \in objects : o \in Item /\ o.name # 0
    BY <1>1, StorageAssumption DEF Item, Object
  <1>6. CASE c.plans[1].act = "drop"
    <2>1. PICK pl \in containers : x = Marker(pl) /\ Under(c, pl)
      BY <1>6 DEF Scope
    <2>2. QED
      BY <1>2, <1>3, <1>6, <2>1
  <1>7. CASE c.plans[1].act # "drop"
    <2>1. \/ x \in objects /\ Under(c, x.place)
          \/ x = Marker(c.from) /\ c.from \in containers /\ Is({"aws", "anthos"})
      BY <1>7 DEF Scope, Mine
    <2>2. QED
      BY <1>2, <1>3, <1>4, <1>5, <2>1
  <1>8. QED
    BY <1>6, <1>7

\* What is listed in the place of an object: its container, when containers are
\* listed, or itself.
Met(c, o) == IF c.plans[1].act = "drop" THEN Marker(o.place) ELSE o

LEMMA MetIs ==
  ASSUME IInv, NEW c \in Job, Sound(c), c.pc = "list", NEW o \in c.kept
  PROVE  /\ Met(c, o) \in Scope(c)
         /\ c.plans[1].act = "drop" =>
              /\ Is({"azure", "google"}) /\ c.plans[1].list = "each"
              /\ Met(c, o).place = ContainerOf(o.place)
  <1>1. o \in Mine(c) /\ setting \in Settings
    BY DEF Sound, IInv, OthersKeepObjects, TypeOK
  <1>2. c.plans = PlansOf(c.op) /\ c.op \in {"make", "unmake", "erase", "copy"}
        /\ c.plans[1].list # "none"
    BY DEF Sound, Standing, Job
  <1>3. CASE c.plans[1].act # "drop"
    BY <1>1, <1>3 DEF Met, Scope
  <1>4. CASE c.plans[1].act = "drop"
    <2>1. Is({"azure", "google"}) /\ setting.policy = "dataset" /\ c.plans[1].list = "each"
      BY <1>1, <1>2, <1>4, PlansAre
    <2>2. ContainerOf(o.place) = o.place
      BY <2>1 DEF ContainerOf
    <2>3. o \in objects /\ Under(c, o.place)
      BY <1>1 DEF Mine
    <2>4. o.place \in containers
      BY <2>1, <2>2, <2>3 DEF IInv, Housed, Is
    <2>5. Met(c, o) = Marker(o.place) /\ Met(c, o).place = o.place
      BY <1>4 DEF Met, Marker
    <2>6. Met(c, o) \in Scope(c)
      BY <1>4, <2>3, <2>4, <2>5 DEF Scope
    <2>7. QED
      BY <2>1, <2>2, <2>5, <2>6
  <1>5. QED
    BY <1>3, <1>4

\* The new state of a call that has read a page.
LEMMA PageKeeps ==
  ASSUME IInv, NEW s \in Slot, NEW c \in Job, c = job[s], c.pc = "list",
         NEW d \in Job, Change(s, d), NEW Y \in SUBSET Item,
         d.op = c.op, d.plans = c.plans, d.at = c.at, d.from = c.from, d.to = c.to,
         d.ans = c.ans, d.failed = c.failed, d.kept = c.kept,
         \A x \in d.found \cup Y : x \in c.found \cup Scope(c),
         d.sent = c.sent \cup Requests(c.plans[1], Y),
         \A o \in c.kept : c.plans[1].list # "first" =>
           \/ Met(c, o) \in Y
           \/ ~Ahead(c, o)
           \/ d.pc = "list" /\ (c.plans[1].list = "each" =>
                                  \A y \in d.found : Rank(y) < Rank(Met(c, o)))
  PROVE  IInv'
  <1> DEFINE p == c.plans[1]
             R == Requests(p, Y)
  <1>1. Sound(c) /\ setting \in Settings
    BY DEF IInv, OthersKeepObjects, TypeOK
  <1>2. /\ c.plans = PlansOf(c.op) /\ c.op \in {"make", "unmake", "erase", "copy"}
        /\ p.list # "none"
    BY <1>1 DEF Sound, Standing, Job
  <1>3. /\ p \in Plan
        /\ p.act \in {"delete", "drop"} <=> c.op \in {"erase", "unmake"}
        /\ c.op \in {"erase", "unmake"} /\ ~Is({"ibm"}) => p.list # "first"
        /\ c.op = "copy" /\ Is({"google"}) => p = GoogleCopy
        /\ c.op = "copy" /\ Is({"google", "azure"}) =>
             p.act \in {"copy", "start"} /\ p.list = "each"
    BY <1>1, <1>2, PlansAre
  <1>4. /\ \A r \in R : /\ r.on \in Y /\ r.act = p.act /\ r.errors = p.errors
                        /\ p.answer = "end" => r.await
        /\ p.act # "nothing" => \A x \in Y : \E r \in R : r.on = x /\ r.act = p.act
    BY <1>3, RequestsAre
  <1>5. \A x : Under(d, x) <=> Under(c, x)
    BY DEF Under
  <1> HIDE DEF R
  <1>6. d.sent = c.sent \cup R
    BY DEF R
  <1>7. Standing(d)
    BY <1>2 DEF Standing
  <1>8. \A x \in c.found \cup Scope(c) :
          Under(c, x.place) /\ (x.name = 0 => p.act = "drop" \/ Is({"aws", "anthos"}))
    <2>1. ASSUME NEW x \in c.found
          PROVE  Under(c, x.place) /\ (x.name = 0 => p.act = "drop" \/ Is({"aws", "anthos"}))
      <3>1. Aimed(c)
        BY <1>1 DEF Sound
      <3>2. QED
        BY <3>1 DEF Aimed
    <2>2. ASSUME NEW x \in Scope(c)
          PROVE  Under(c, x.place) /\ (x.name = 0 => p.act = "drop" \/ Is({"aws", "anthos"}))
      BY ScopeIs
    <2>3. QED
      BY <2>1, <2>2
  <1>9. Aimed(d)
    <2>1. ASSUME NEW r \in d.sent, r.act \in {"delete", "drop"}
          PROVE  /\ d.op \in {"erase", "unmake"} /\ Under(d, r.on.place)
                 /\ r.act = "delete" /\ r.on.name = 0 => Is({"aws", "anthos"})
      <3>1. CASE r \in c.sent
        BY <1>1, <1>5, <2>1, <3>1 DEF Sound, Aimed
      <3>2. CASE r \in R
        BY <1>3, <1>4, <1>5, <1>8, <2>1, <3>2
      <3>3. QED
        BY <1>6, <3>1, <3>2
    <2>2. d.op \in {"erase", "unmake"} => \A pl \in Place : Under(d, pl) => pl \in condemned
      BY <1>1, <1>5 DEF Sound, Aimed
    <2>3. QED
      BY <1>5, <1>8, <2>1, <2>2 DEF Aimed
  <1>10. Minded(d)
    <2> SUFFICES ASSUME ~d.failed, NEW o \in d.kept
                 PROVE  /\ d.op = "copy" /\ Is({"google", "azure"})
                             => Ahead(d, o) \/ Copied(d, o)
                        /\ d.op \in {"erase", "unmake"} /\ ~Is({"ibm"})
                             => Ahead(d, o) \/ Doomed(d, o)
      BY DEF Minded
    <2>1. Met(c, o) \in Scope(c) /\
          (p.act = "drop" => Is({"azure", "google"}) /\ Met(c, o).place = ContainerOf(o.place))
      BY <1>1, MetIs
    <2>2. d.pc = "list" /\ (p.list = "each" => \A y \in d.found : Rank(y) < Rank(Met(c, o)))
            => Ahead(d, o)
      BY DEF Ahead, Met
    <2>3. /\ Doomed(c, o) => Doomed(d, o)
          /\ Copied(c, o) => Copied(d, o)
      BY <1>6 DEF Doomed, Copied, Target, AzureTarget, GoogleTarget, CosTarget, MinioTarget
    <2>4. ASSUME d.op = "copy", Is({"google", "azure"}) PROVE Ahead(d, o) \/ Copied(d, o)
      <3>1. p.act \in {"copy", "start"} /\ p.list = "each" /\ Met(c, o) = o
        BY <1>3, <2>4 DEF Met
      <3>2. Ahead(c, o) \/ Copied(c, o)
        BY <1>1, <2>4 DEF Sound, Minded
      <3>3. ASSUME o \in Y PROVE Copied(d, o)
        <4>1. PICK r \in R : r.on = o /\ r.act = p.act
          BY <1>4, <3>1, <3>3
        <4>2. QED
          BY <1>6, <3>1, <4>1 DEF Copied
      <3>4. QED
        BY <2>2, <2>3, <3>1, <3>2, <3>3
    <2>5. ASSUME d.op \in {"erase", "unmake"}, ~Is({"ibm"})
          PROVE  Ahead(d, o) \/ Doomed(d, o)
      <3>1. p.act \in {"delete", "drop"} /\ p.list # "first"
        BY <1>3, <2>5
      <3>2. Ahead(c, o) \/ Doomed(c, o)
        BY <1>1, <2>5 DEF Sound, Minded
      <3>3. ASSUME Met(c, o) \in Y PROVE Doomed(d, o)
        <4>1. PICK r \in R : r.on = Met(c, o) /\ r.act = p.act
          BY <1>4, <3>1, <3>3
        <4>2. QED
          BY <1>6, <2>1, <3>1, <4>1 DEF Doomed, Met
      <3>4. QED
        BY <2>2, <2>3, <3>1, <3>2, <3>3
    <2>6. QED
      BY <2>4, <2>5
  <1>11. Prompt(d)
    <2> SUFFICES ASSUME d.op = "copy", Is({"google"})
                 PROVE  /\ \A r \in d.sent : r.act = "copy" /\ r.await /\ r.errors = "thrown"
                        /\ d.failed => d.ans = "error"
                        /\ d.ans # "ok"
      BY DEF Prompt
    <2>1. p.act = "copy" /\ p.answer = "end" /\ p.errors = "thrown"
      BY <1>3 DEF GoogleCopy, How
    <2>2. QED
      BY <1>1, <1>4, <1>6, <2>1 DEF Sound, Prompt
  <1>12. Sound(d)
    BY <1>1, <1>7, <1>9, <1>10, <1>11 DEF Sound, Mine, Under
  <1>13. QED
    BY <1>12, ChangeKeeps

LEMMA ListKeeps ==
  ASSUME IInv, NEW s \in Slot, List(s) PROVE IInv'
  <1> SUFFICES ASSUME NEW c, c = job[s] PROVE IInv'
    OBVIOUS
  <1> DEFINE p == c.plans[1]
             S == Left(c)
  <1>1. c.pc = "list" /\ c \in Job /\ Sound(c) /\ c.op # "none" /\ setting \in Settings
    BY DEF List, IInv, OthersKeepObjects, TypeOK, Sound, Standing
  <1>2. p \in Plan /\ p.list # "none" /\ (p.act = "drop" => p.list = "each")
    <2>1. c.plans = PlansOf(c.op) /\ c.op \in {"make", "unmake", "erase", "copy"}
          /\ p.list # "none"
      BY <1>1 DEF Sound, Standing, Job
    <2>2. QED
      BY <1>1, <2>1, PlansAre
  <1>3. S \subseteq Scope(c) /\ Scope(c) \subseteq Item /\ c.found \subseteq Item
    <2>1. Scope(c) \subseteq Item
      BY <1>1, ScopeIs
    <2>2. QED
      BY <1>1, <2>1 DEF Left, Job
  <1>4. \A o \in c.kept : Met(c, o) \in Scope(c)
    BY <1>1, MetIs
  <1>5. PICK X \in Pages(S) :
          Change(s,
            CASE p.list = "all" /\ X # S -> [c EXCEPT !.found = @ \cup X]
              [] p.list = "all" /\ X = S ->
                   [c EXCEPT !.pc = "rest", !.found = {},
                             !.sent = @ \cup Requests(p, c.found \cup X)]
              [] p.list = "each" ->
                   [c EXCEPT !.pc = IF X # S THEN "list" ELSE "rest",
                             !.found = IF X # S THEN X ELSE {},
                             !.sent = @ \cup Requests(p, X)]
              [] p.list \in {"again", "first"} ->
                   [c EXCEPT !.pc = IF X # S /\ p.list = "again" THEN "list" ELSE "rest",
                             !.sent = @ \cup Requests(p, X)])
    BY DEF List
  <1>6. X \subseteq S /\ \A x \in X, y \in S \ X : Rank(x) < Rank(y)
    BY DEF Pages
  <1>7. Requests(p, {}) = {} /\ \A Y \in SUBSET Item : Requests(p, Y) \in SUBSET Request
    BY <1>2, RequestsAre DEF Requests
  <1> HIDE DEF p, S
  <1>8. CASE p.list = "all" /\ X # S
    <2> DEFINE d == [c EXCEPT !.found = @ \cup X]
    <2>1. Change(s, d)
      BY <1>5, <1>8
    <2>2. /\ d \in Job
          /\ d.op = c.op /\ d.plans = c.plans /\ d.at = c.at /\ d.from = c.from /\ d.to = c.to
          /\ d.ans = c.ans /\ d.failed = c.failed /\ d.kept = c.kept /\ d.pc = c.pc
          /\ d.found = c.found \cup X /\ d.sent = c.sent
      BY <1>1, <1>3, <1>6 DEF Job
    <2> HIDE DEF d
    <2>3. d.sent = c.sent \cup Requests(c.plans[1], {})
      BY <1>7, <2>2 DEF p
    <2>4. c.plans[1].list # "each"
      BY <1>8 DEF p
    <2>5. QED
      BY <1>1, <1>3, <1>6, <2>1, <2>2, <2>3, <2>4, PageKeeps
  <1>9. CASE p.list = "all" /\ X = S
    <2> DEFINE Y == c.found \cup X
               R == Requests(p, Y)
               d == [c EXCEPT !.pc = "rest", !.found = {}, !.sent = @ \cup R]
    <2>1. Change(s, d)
      BY <1>5, <1>9
    <2>2. R \in SUBSET Request /\ Y \in SUBSET Item
      BY <1>3, <1>6, <1>7
    <2> HIDE DEF R, Y
    <2>3. /\ d \in Job
          /\ d.op = c.op /\ d.plans = c.plans /\ d.at = c.at /\ d.from = c.from /\ d.to = c.to
          /\ d.ans = c.ans /\ d.failed = c.failed /\ d.kept = c.kept
          /\ d.found = {} /\ d.sent = c.sent \cup R
      BY <1>1, <2>2 DEF Job
    <2> HIDE DEF d
    <2>4. S = Scope(c) \ c.found
      BY <1>9 DEF S, p, Left
    <2>5. Scope(c) \subseteq Y /\ Y \subseteq c.found \cup Scope(c)
      BY <1>3, <1>9, <2>4 DEF Y
    <2>6. d.sent = c.sent \cup Requests(c.plans[1], Y)
      BY <2>3 DEF R, p
    <2>7. QED
      BY <1>1, <1>4, <2>1, <2>2, <2>3, <2>5, <2>6, PageKeeps
  <1>10. CASE p.list = "each"
    <2> DEFINE R == Requests(p, X)
               l == IF X # S THEN "list" ELSE "rest"
               F == IF X # S THEN X ELSE {}
               d == [c EXCEPT !.pc = l, !.found = F, !.sent = @ \cup R]
    <2>1. Change(s, d)
      BY <1>5, <1>10
    <2>2. R \in SUBSET Request /\ X \in SUBSET Item /\ F \in SUBSET Item
          /\ l \in {"list", "rest"} /\ F \subseteq X /\ (X # S => l = "list" /\ F = X)
      BY <1>3, <1>6, <1>7
    <2> HIDE DEF R, l, F
    <2>3. /\ d \in Job
          /\ d.op = c.op /\ d.plans = c.plans /\ d.at = c.at /\ d.from = c.from /\ d.to = c.to
          /\ d.ans = c.ans /\ d.failed = c.failed /\ d.kept = c.kept
          /\ d.found = F /\ d.sent = c.sent \cup R /\ d.pc = l
      BY <1>1, <2>2 DEF Job
    <2> HIDE DEF d
    <2>4. S = {x \in Scope(c) : \A y \in c.found : Rank(y) < Rank(x)}
      BY <1>10 DEF S, p, Left
    <2>5. ASSUME NEW o \in c.kept, Ahead(c, o), Met(c, o) \notin X
          PROVE  d.pc = "list" /\ \A y \in d.found : Rank(y) < Rank(Met(c, o))
      <3>1. \A y \in c.found : Rank(y) < Rank(Met(c, o))
        BY <1>10, <2>5 DEF Ahead, Met, p
      <3>2. Met(c, o) \in S \ X
        BY <1>4, <2>4, <2>5, <3>1
      <3>3. QED
        BY <1>6, <2>2, <2>3, <3>2
    <2>6. d.sent = c.sent \cup Requests(c.plans[1], X)
      BY <2>3 DEF R, p
    <2>7. X \subseteq Scope(c) /\ d.found \subseteq Scope(c)
      BY <1>3, <1>6, <2>2, <2>3
    <2>8. QED
      BY <1>1, <2>1, <2>2, <2>3, <2>5, <2>6, <2>7, PageKeeps
  <1>11. CASE p.list \in {"again", "first"}
    <2> DEFINE R == Requests(p, X)
               l == IF X # S /\ p.list = "again" THEN "list" ELSE "rest"
               d == [c EXCEPT !.pc = l, !.sent = @ \cup R]
    <2>1. Change(s, d)
      BY <1>5, <1>11
    <2>2. R \in SUBSET Request /\ X \in SUBSET Item /\ l \in {"list", "rest"}
          /\ (X # S /\ p.list = "again" => l = "list")
      BY <1>3, <1>6, <1>7
    <2> HIDE DEF R, l
    <2>3. /\ d \in Job
          /\ d.op = c.op /\ d.plans = c.plans /\ d.at = c.at /\ d.from = c.from /\ d.to = c.to
          /\ d.ans = c.ans /\ d.failed = c.failed /\ d.kept = c.kept
          /\ d.found = c.found /\ d.sent = c.sent \cup R /\ d.pc = l
      BY <1>1, <2>2 DEF Job
    <2> HIDE DEF d
    <2>4. S = Scope(c)
      BY <1>11 DEF S, p, Left
    <2>5. c.plans[1].list # "first" => c.plans[1].list = "again"
      BY <1>11 DEF p
    <2>6. d.sent = c.sent \cup Requests(c.plans[1], X)
      BY <2>3 DEF R, p
    <2>7. ASSUME NEW o \in c.kept, c.plans[1].list # "first", Met(c, o) \notin X
          PROVE  d.pc = "list"
      BY <1>4, <2>2, <2>3, <2>4, <2>5, <2>7 DEF p
    <2>8. X \subseteq Scope(c)
      BY <1>3, <1>6
    <2>9. QED
      BY <1>1, <2>1, <2>2, <2>3, <2>5, <2>6, <2>7, <2>8, PageKeeps
  <1>12. p.list \in {"all", "each", "again", "first"}
    BY <1>2 DEF Plan
  <1>13. QED
    BY <1>8, <1>9, <1>10, <1>11, <1>12

-----------------------------------------------------------------------------
(* Requests that land.                                                     *)

\* A request of a call has been answered: the call is c without it.
Landed(s, r, c) ==
  job' = [Watched(objects') EXCEPT
            ![s] = [c EXCEPT !.sent = @ \ {r}, !.kept = @ \cap objects']]

LEMMA TookIs ==
  ASSUME IInv, NEW s \in Slot, NEW r, NEW c \in Job, objects' \subseteq Object,
         Landed(s, r, c)
  PROVE  /\ job' \in [Slot -> Job]
         /\ job'[s].op = c.op /\ job'[s].plans = c.plans /\ job'[s].at = c.at
         /\ job'[s].from = c.from /\ job'[s].to = c.to /\ job'[s].pc = c.pc
         /\ job'[s].found = c.found /\ job'[s].ans = c.ans /\ job'[s].failed = c.failed
         /\ job'[s].sent = c.sent \ {r} /\ job'[s].kept = c.kept \cap objects'
         /\ \A t \in Slot \ {s} : /\ Alike(job[t], job'[t])
                                  /\ job'[t].kept = job[t].kept \cap objects'
  <1> DEFINE d == [c EXCEPT !.sent = @ \ {r}, !.kept = @ \cap objects']
  <1>1. /\ d \in Job
        /\ d.op = c.op /\ d.plans = c.plans /\ d.at = c.at
        /\ d.from = c.from /\ d.to = c.to /\ d.pc = c.pc
        /\ d.found = c.found /\ d.ans = c.ans /\ d.failed = c.failed
        /\ d.sent = c.sent \ {r} /\ d.kept = c.kept \cap objects'
    BY DEF Job
  <1>2. job \in [Slot -> Job] /\ job' = [Watched(objects') EXCEPT ![s] = d]
    BY DEF IInv, OthersKeepObjects, TypeOK, Landed
  <1>3. ASSUME NEW e \in Job
        PROVE  /\ [e EXCEPT !.kept = @ \cap objects'] \in Job
               /\ Alike(e, [e EXCEPT !.kept = @ \cap objects'])
               /\ [e EXCEPT !.kept = @ \cap objects'].kept = e.kept \cap objects'
    BY DEF Job, Alike
  <1> HIDE DEF d
  <1>4. Watched(objects') = [t \in Slot |-> [job[t] EXCEPT !.kept = @ \cap objects']]
    BY DEF Watched
  <1>5. ASSUME NEW t \in Slot
        PROVE  /\ Watched(objects')[t] \in Job /\ Alike(job[t], Watched(objects')[t])
               /\ Watched(objects')[t].kept = job[t].kept \cap objects'
    <2>1. job[t] \in Job
      BY <1>2
    <2>2. Watched(objects')[t] = [job[t] EXCEPT !.kept = @ \cap objects']
      BY <1>4
    <2>3. QED
      BY <1>3, <2>1, <2>2
  <1>6. /\ job' \in [Slot -> Job] /\ job'[s] = d
        /\ \A t \in Slot \ {s} : job'[t] = Watched(objects')[t]
    <2>1. Watched(objects') \in [Slot -> Job]
      BY <1>4, <1>5
    <2>2. QED
      BY <1>1, <1>2, <2>1
  <1>7. QED
    BY <1>1, <1>5, <1>6

\* A request has landed, and what it did is seen: A is what it has led to.
LEMMA TookKeeps ==
  ASSUME IInv, NEW s \in Slot, NEW r \in job[s].sent, NEW c \in Job,
         NEW A \in SUBSET Request,
         Landed(s, r, c),
         setting' = setting, condemned' = condemned,
         uploaded' = uploaded \cup (objects' \ objects),
         objects' \subseteq Object, containers' \subseteq Container,
         c.op = job[s].op, c.plans = job[s].plans, c.at = job[s].at,
         c.from = job[s].from, c.to = job[s].to, c.pc = job[s].pc,
         c.found = job[s].found, c.sent = job[s].sent \cup A, c.ans = job[s].ans,
         c.failed = job[s].failed, c.kept = job[s].kept,
         Housed',
         Loses,
         \A a \in A : a.act \notin {"delete", "drop"},
         c.op = "copy" /\ Is({"google"}) => A = {},
         \A o \in c.kept \cap objects' :
           /\ r.act \in {"start", "copy"} /\ r.on = o /\ Is({"google", "azure"}) =>
                \/ Target(c, o) \in objects'
                \/ \E a \in A : a # r /\ a.act = "copy" /\ a.on = o
           /\ ~(r.act = "delete" /\ r.on = o)
           /\ ~(/\ r.act = "drop" /\ Is({"azure", "google"})
                /\ r.on.place = ContainerOf(o.place))
  PROVE  IInv'
  <1> SUFFICES ASSUME NEW b, b = job[s], NEW d, d = job'[s] PROVE IInv'
    OBVIOUS
  <1>1. /\ job' \in [Slot -> Job]
        /\ d.op = c.op /\ d.plans = c.plans /\ d.at = c.at
        /\ d.from = c.from /\ d.to = c.to /\ d.pc = c.pc
        /\ d.found = c.found /\ d.ans = c.ans /\ d.failed = c.failed
        /\ d.sent = c.sent \ {r} /\ d.kept = c.kept \cap objects'
        /\ \A t \in Slot \ {s} : /\ Alike(job[t], job'[t])
                                 /\ job'[t].kept = job[t].kept \cap objects'
    BY TookIs
  <1>2. b \in Job /\ Sound(b) /\ d \in Job /\ condemned \subseteq Place
    BY <1>1 DEF IInv, OthersKeepObjects, TypeOK
  <1>3. /\ d.op = b.op /\ d.plans = b.plans /\ d.at = b.at /\ d.from = b.from /\ d.to = b.to
        /\ d.pc = b.pc /\ d.found = b.found /\ d.ans = b.ans /\ d.failed = b.failed
        /\ d.sent = (b.sent \cup A) \ {r} /\ d.kept = b.kept \cap objects'
    BY <1>1
  <1>4. /\ \A P : Is(P)' <=> Is(P)
        /\ \A op : PlansOf(op)' = PlansOf(op)
        /\ \A pl : ContainerOf(pl)' = ContainerOf(pl)
        /\ \A e, o : Target(e, o)' = Target(e, o)
    BY <1>1, SettingSame
  <1>5. Standing(d)'
    BY <1>2, <1>3, <1>4 DEF Sound, Standing
  <1>6. Aimed(d)'
    <2>1. Aimed(b)
      BY <1>2 DEF Sound
    <2>2. \A x : Under(d, x)' <=> Under(b, x)
      BY <1>3 DEF Under
    <2>3. \A q \in d.sent : q.act \in {"delete", "drop"} => q \in b.sent
      BY <1>3
    <2>4. QED
      BY <1>1, <1>3, <1>4, <2>1, <2>2, <2>3 DEF Aimed
  <1>7. Minded(d)'
    <2> SUFFICES ASSUME ~d.failed, NEW o \in d.kept
                 PROVE  /\ d.op = "copy" /\ Is({"google", "azure"})
                             => Ahead(d, o)' \/ Copied(d, o)'
                        /\ d.op \in {"erase", "unmake"} /\ ~Is({"ibm"})
                             => Ahead(d, o)' \/ Doomed(d, o)'
      BY <1>4 DEF Minded
    <2>1. o \in b.kept /\ o \in objects' /\ o \in c.kept \cap objects'
      BY <1>3
    <2>2. Ahead(d, o)' <=> Ahead(b, o)
      BY <1>3 DEF Ahead
    <2>3. ASSUME Doomed(b, o) PROVE Doomed(d, o)'
      <3>1. PICK q \in b.sent :
              \/ q.act = "delete" /\ q.on = o
              \/ q.act = "drop" /\ Is({"azure", "google"}) /\ q.on.place = ContainerOf(o.place)
        BY <2>3 DEF Doomed
      <3>2. q # r
        BY <2>1, <3>1
      <3>3. q \in d.sent
        BY <1>3, <3>2
      <3>4. QED
        BY <1>4, <3>1, <3>3 DEF Doomed
    <2>4. ASSUME Copied(b, o), Is({"google", "azure"}) PROVE Copied(d, o)'
      <3>1. /\ Target(d, o)' = Target(b, o) /\ Target(c, o) = Target(b, o)
            /\ Target(b, o).place = b.to
        <4>1. Target(d, o) = Target(b, o) /\ Target(c, o) = Target(b, o)
          BY <1>3 DEF Target, AzureTarget, GoogleTarget, CosTarget, MinioTarget
        <4>2. QED
          BY <1>4, <2>4, <4>1, WhereCopiesGo
      <3>2. CASE Target(b, o) \in objects \/ b.to \in condemned
        BY <1>1, <1>3, <3>1, <3>2 DEF Copied, Loses
      <3>3. ASSUME NEW q \in b.sent, q.act \in {"start", "copy"}, q.on = o
            PROVE  Copied(d, o)'
        <4>1. CASE q # r
          BY <1>3, <3>3, <4>1 DEF Copied
        <4>2. CASE q = r
          <5>1. \/ Target(c, o) \in objects'
                \/ \E a \in A : a # r /\ a.act = "copy" /\ a.on = o
            BY <2>1, <2>4, <3>3, <4>2
          <5>2. CASE Target(c, o) \in objects'
            BY <1>1, <3>1, <5>2 DEF Copied
          <5>3. ASSUME NEW a \in A, a # r, a.act = "copy", a.on = o PROVE Copied(d, o)'
            <6>1. a \in d.sent
              BY <1>3, <5>3
            <6>2. QED
              BY <5>3, <6>1 DEF Copied
          <5>4. QED
            BY <5>1, <5>2, <5>3
        <4>3. QED
          BY <4>1, <4>2
      <3>4. QED
        BY <2>4, <3>2, <3>3 DEF Copied
    <2>5. QED
      BY <1>2, <1>3, <2>1, <2>2, <2>3, <2>4 DEF Sound, Minded
  <1>8. Prompt(d)'
    BY <1>2, <1>3, <1>4 DEF Sound, Prompt
  <1>9. d.kept \subseteq Mine(d)'
    BY <1>1, <1>2, <1>3, <1>4 DEF Sound, Mine, Under
  <1>10. Sound(d)'
    BY <1>2, <1>3, <1>5, <1>6, <1>7, <1>8, <1>9 DEF Sound
  <1>11. QED
    BY <1>1, <1>2, <1>10, StepKeeps

\* The same for a request that leads to no other.
LEMMA DoneKeeps ==
  ASSUME IInv, NEW s \in Slot, NEW r \in job[s].sent, Landed(s, r, job[s]),
         setting' = setting, condemned' = condemned,
         uploaded' = uploaded \cup (objects' \ objects),
         objects' \subseteq Object, containers' \subseteq Container,
         Housed',
         Loses,
         \A o \in job[s].kept \cap objects' :
           /\ r.act \in {"start", "copy"} /\ r.on = o /\ Is({"google", "azure"}) =>
                Target(job[s], o) \in objects'
           /\ ~(r.act = "delete" /\ r.on = o)
           /\ ~(/\ r.act = "drop" /\ Is({"azure", "google"})
                /\ r.on.place = ContainerOf(o.place))
  PROVE  IInv'
  <1> DEFINE A == {}
  <1>1. A \in SUBSET Request /\ \A x : x \notin A
    OBVIOUS
  <1>2. job[s] \in Job
    BY DEF IInv, OthersKeepObjects, TypeOK
  <1>3. job[s].sent = job[s].sent \cup A
    OBVIOUS
  <1>4. A = {}
    OBVIOUS
  <1> HIDE DEF A
  <1>5. QED
    BY <1>1, <1>2, <1>3, <1>4, TookKeeps

LEMMA LandIs ==
  ASSUME IInv, NEW s \in Slot, NEW r \in job[s].sent
  PROVE  /\ job[s] \in Job /\ Sound(job[s]) /\ r \in Request
         /\ objects \in SUBSET Object /\ containers \in SUBSET Container
         /\ setting \in Settings
         /\ job[s].op = "copy" /\ Is({"google"}) => r.act = "copy"
         /\ r.act \in {"delete", "drop"} =>
              /\ Under(job[s], r.on.place)
              /\ \A pl \in Place : Under(job[s], pl) => pl \in condemned
              /\ r.act = "delete" /\ r.on.name = 0 => Is({"aws", "anthos"})
  <1>1. /\ job[s] \in Job /\ Sound(job[s]) /\ setting \in Settings
        /\ objects \in SUBSET Object /\ containers \in SUBSET Container
    BY DEF IInv, OthersKeepObjects, TypeOK
  <1>2. r \in Request
    BY <1>1 DEF Job
  <1>3. QED
    BY <1>1, <1>2 DEF Sound, Aimed, Prompt

LEMMA DeleteLandsKeeps ==
  ASSUME IInv, NEW s \in Slot, NEW r \in job[s].sent, DeleteLands(s, r) PROVE IInv'
  <1> DEFINE K == IF r.on.name = 0 THEN containers \ {r.on.place} ELSE containers
             T == objects \ {r.on}
  <1>1. Took(s, r, K, T, job[s]) /\ r.act = "delete"
    BY DEF DeleteLands
  <1>2. /\ job[s] \in Job /\ Sound(job[s]) /\ T \in SUBSET Object /\ K \in SUBSET Container
        /\ objects \in SUBSET Object
        /\ Under(job[s], r.on.place)
        /\ \A pl \in Place : Under(job[s], pl) => pl \in condemned
        /\ r.on.name = 0 => Is({"aws", "anthos"})
    BY <1>1, LandIs
  <1>3. /\ setting' = setting /\ condemned' = condemned /\ r \in job[s].sent
        /\ uploaded' = uploaded \cup (objects' \ objects)
        /\ objects' = T /\ containers' = K
        /\ Landed(s, r, job[s])
    BY <1>1 DEF Took, Landed
  <1>4. Housed'
    <2>1. Is({"azure", "google", "ibm"}) => K = containers
      BY <1>2 DEF Is
    <2>2. QED
      BY <1>3, <2>1, SettingSame DEF IInv, Housed
  <1>5. Loses
    BY <1>2, <1>3 DEF Object, Loses
  <1>6. \A o \in job[s].kept \cap objects' : r.on # o
    BY <1>3
  <1> HIDE DEF K, T
  <1>7. QED
    BY <1>1, <1>2, <1>3, <1>4, <1>5, <1>6, DoneKeeps

LEMMA StartLandsKeeps ==
  ASSUME IInv, NEW s \in Slot, NEW r \in job[s].sent, StartLands(s, r) PROVE IInv'
  <1> DEFINE a == [r EXCEPT !.act = "copy", !.await = FALSE]
             c == [job[s] EXCEPT !.sent = @ \cup {a}]
  <1>1. Took(s, r, containers, objects, c) /\ r.act = "start"
    BY DEF StartLands
  <1>2. /\ job[s] \in Job /\ r \in Request
        /\ objects \in SUBSET Object /\ containers \in SUBSET Container
        /\ job[s].op = "copy" => ~Is({"google"})
    BY <1>1, LandIs
  <1>3. a \in Request /\ a.act = "copy" /\ a.on = r.on /\ a # r
    BY <1>1, <1>2 DEF Request
  <1> HIDE DEF a
  <1>4. /\ c \in Job
        /\ c.op = job[s].op /\ c.plans = job[s].plans /\ c.at = job[s].at
        /\ c.from = job[s].from /\ c.to = job[s].to /\ c.pc = job[s].pc
        /\ c.found = job[s].found /\ c.sent = job[s].sent \cup {a} /\ c.ans = job[s].ans
        /\ c.failed = job[s].failed /\ c.kept = job[s].kept
    BY <1>2, <1>3 DEF Job
  <1> HIDE DEF c
  <1>5. /\ setting' = setting /\ condemned' = condemned /\ r \in job[s].sent
        /\ uploaded' = uploaded \cup (objects' \ objects)
        /\ objects' = objects /\ containers' = containers
        /\ Landed(s, r, c)
    BY <1>1 DEF Took, Landed
  <1>6. Housed'
    BY <1>5, SettingSame DEF IInv, Housed
  <1>7. {a} \in SUBSET Request /\ Loses
    BY <1>3, <1>5 DEF Loses
  <1>8. QED
    BY <1>1, <1>2, <1>3, <1>4, <1>5, <1>6, <1>7, TookKeeps

LEMMA CopyLandsKeeps ==
  ASSUME IInv, NEW s \in Slot, NEW r \in job[s].sent, CopyLands(s, r) PROVE IInv'
  <1> DEFINE t == Target(job[s], r.on)
             T == objects \cup {t}
  <1>1. /\ Took(s, r, containers, T, job[s]) /\ r.act = "copy" /\ t \in Object
        /\ Is({"aws", "anthos"}) \/ ContainerOf(t.place) \in containers
    BY DEF CopyLands
  <1>2. /\ job[s] \in Job /\ T \in SUBSET Object /\ containers \in SUBSET Container
    BY <1>1, LandIs
  <1>3. /\ setting' = setting /\ condemned' = condemned /\ r \in job[s].sent
        /\ uploaded' = uploaded \cup (objects' \ objects)
        /\ objects' = T /\ containers' = containers
        /\ Landed(s, r, job[s])
    BY <1>1 DEF Took, Landed
  <1>4. Housed'
    <2>1. Is({"azure", "google", "ibm"}) => ContainerOf(t.place) \in containers
      BY <1>1 DEF Is
    <2>2. QED
      BY <1>3, <2>1, SettingSame DEF IInv, Housed
  <1>5. Loses
    BY <1>3 DEF Loses
  <1>6. \A o : r.on = o => Target(job[s], o) \in objects'
    BY <1>3
  <1> HIDE DEF T, t
  <1>7. QED
    BY <1>1, <1>2, <1>3, <1>4, <1>5, <1>6, DoneKeeps

LEMMA CreateLandsKeeps ==
  ASSUME IInv, NEW s \in Slot, NEW r \in job[s].sent, CreateLands(s, r) PROVE IInv'
  <1> DEFINE A == IF Is({"google"}) THEN {[r EXCEPT !.act = "meta"]} ELSE {}
             K == containers \cup {r.on.place}
             c == [job[s] EXCEPT !.sent = @ \cup A]
  <1>1. Took(s, r, K, objects, c) /\ r.act = "create"
    BY DEF CreateLands
  <1>2. /\ job[s] \in Job /\ r \in Request
        /\ objects \in SUBSET Object /\ containers \in SUBSET Container
        /\ job[s].op = "copy" => ~Is({"google"})
    BY <1>1, LandIs
  <1>3. r.on.place \in Container
    <2>1. r.on \in Item
      BY <1>2 DEF Request
    <2>2. CASE r.on \in Object
      BY <2>2, Places DEF Object
    <2>3. ASSUME NEW pl \in Container, r.on = Marker(pl) PROVE r.on.place \in Container
      BY <2>3 DEF Marker
    <2>4. QED
      BY <2>1, <2>2, <2>3 DEF Item
  <1>4. A \in SUBSET Request /\ \A a \in A : a.act \notin {"delete", "drop"}
    BY <1>2 DEF Request
  <1>5. job[s].op = "copy" /\ Is({"google"}) => A = {}
    BY <1>2
  <1> HIDE DEF A
  <1>6. /\ c \in Job
        /\ c.op = job[s].op /\ c.plans = job[s].plans /\ c.at = job[s].at
        /\ c.from = job[s].from /\ c.to = job[s].to /\ c.pc = job[s].pc
        /\ c.found = job[s].found /\ c.sent = job[s].sent \cup A /\ c.ans = job[s].ans
        /\ c.failed = job[s].failed /\ c.kept = job[s].kept
    BY <1>2, <1>4 DEF Job
  <1> HIDE DEF c
  <1>7. /\ setting' = setting /\ condemned' = condemned /\ r \in job[s].sent
        /\ uploaded' = uploaded \cup (objects' \ objects)
        /\ objects' = objects /\ containers' = K
        /\ Landed(s, r, c)
    BY <1>1 DEF Took, Landed
  <1>8. Housed'
    BY <1>7, SettingSame DEF IInv, Housed
  <1>9. K \in SUBSET Container /\ Loses
    BY <1>2, <1>3, <1>7 DEF Loses
  <1> HIDE DEF K
  <1>10. QED
    BY <1>1, <1>2, <1>4, <1>5, <1>6, <1>7, <1>8, <1>9, TookKeeps

LEMMA MetaLandsKeeps ==
  ASSUME IInv, NEW s \in Slot, NEW r \in job[s].sent, MetaLands(s, r) PROVE IInv'
  <1>1. Took(s, r, containers, objects, job[s]) /\ r.act = "meta"
    BY DEF MetaLands
  <1>2. job[s] \in Job /\ objects \in SUBSET Object /\ containers \in SUBSET Container
    BY LandIs
  <1>3. /\ setting' = setting /\ condemned' = condemned /\ r \in job[s].sent
        /\ uploaded' = uploaded \cup (objects' \ objects)
        /\ objects' = objects /\ containers' = containers
        /\ Landed(s, r, job[s])
    BY <1>1 DEF Took, Landed
  <1>4. Housed'
    BY <1>3, SettingSame DEF IInv, Housed
  <1>5. Loses
    BY <1>3 DEF Loses
  <1>6. QED
    BY <1>1, <1>2, <1>3, <1>4, <1>5, DoneKeeps

LEMMA DropLandsKeeps ==
  ASSUME IInv, NEW s \in Slot, NEW r \in job[s].sent, DropLands(s, r) PROVE IInv'
  <1> DEFINE P == r.on.place
             K == containers \ {P}
             T == IF Is({"azure"}) THEN objects \ Inside(P) ELSE objects
  <1>1. /\ Took(s, r, K, T, job[s]) /\ r.act = "drop"
        /\ Is({"google", "ibm"}) => Inside(P) = {}
    BY DEF DropLands
  <1>2. /\ job[s] \in Job /\ Sound(job[s]) /\ T \in SUBSET Object /\ K \in SUBSET Container
        /\ objects \in SUBSET Object
        /\ Under(job[s], P) /\ \A pl \in Place : Under(job[s], pl) => pl \in condemned
    BY <1>1, LandIs
  <1>3. /\ setting' = setting /\ condemned' = condemned /\ r \in job[s].sent
        /\ uploaded' = uploaded \cup (objects' \ objects)
        /\ objects' = T /\ containers' = K
        /\ Landed(s, r, job[s])
    BY <1>1 DEF Took, Landed
  <1>4. T \subseteq objects
        /\ (Is({"azure", "google", "ibm"}) => \A o \in T : ContainerOf(o.place) # P)
    BY <1>1 DEF Inside, Is
  <1>5. Housed'
    BY <1>3, <1>4, SettingSame DEF IInv, Housed
  <1>6. ASSUME NEW o \in objects \ T PROVE o.place \in condemned
    <2>1. ContainerOf(o.place) = P /\ o.place \in Place
      BY <1>2 DEF Inside, Object
    <2>2. Under(job[s], o.place)
      BY <1>2, <2>1, WhatIsUnder
    <2>3. QED
      BY <1>2, <2>1, <2>2
  <1>7. Is({"azure", "google"}) => \A o \in objects' : P # ContainerOf(o.place)
    BY <1>3, <1>4 DEF Is
  <1>8. Loses
    BY <1>3, <1>6 DEF Loses
  <1> HIDE DEF K, T
  <1>9. QED
    BY <1>1, <1>2, <1>3, <1>5, <1>7, <1>8, DoneKeeps

-----------------------------------------------------------------------------
(* Every step.                                                             *)

LEMMA UploadKeeps ==
  ASSUME IInv, NEW o \in Object, Upload(o) PROVE IInv'
  <1>1. /\ setting' = setting /\ containers' = containers /\ job' = job
        /\ condemned' = condemned /\ objects' = objects \cup {o}
        /\ uploaded' = uploaded \cup {o}
        /\ Is({"aws", "anthos"}) \/ ContainerOf(o.place) \in containers
    BY DEF Upload
  <1>2. TypeOK /\ TypeOK' /\ Loses /\ job \in [Slot -> Job]
    BY <1>1 DEF IInv, OthersKeepObjects, TypeOK, Loses
  <1>3. OthersKeepObjects'
    BY <1>1, <1>2 DEF IInv, OthersKeepObjects
  <1>4. Housed'
    <2>1. Is({"azure", "google", "ibm"}) => ContainerOf(o.place) \in containers
      BY <1>1 DEF Is
    <2>2. QED
      BY <1>1, <2>1, SettingSame DEF IInv, Housed
  <1>5. ASSUME NEW s \in Slot PROVE Sound(job[s])'
    <2>1. job[s] \in Job /\ job'[s] = job[s] /\ Sound(job[s]) /\ Alike(job[s], job[s])
      BY <1>1, <1>2 DEF IInv, Alike
    <2>2. job[s].kept = job[s].kept \cap objects'
      BY <1>1, <2>1 DEF Sound, Mine
    <2>3. QED
      BY <1>1, <1>2, <2>1, <2>2, OthersSound
  <1>6. QED
    BY <1>3, <1>4, <1>5 DEF IInv

LEMMA LandsKeeps ==
  ASSUME IInv, NEW s \in Slot, NEW r \in job[s].sent, Lands(s, r) PROVE IInv'
  BY DeleteLandsKeeps, StartLandsKeeps, CopyLandsKeeps, CreateLandsKeeps,
     MetaLandsKeeps, DropLandsKeeps DEF Lands

LEMMA AnyStepKeeps ==
  ASSUME IInv, NEW s \in Slot, Step(s) PROVE IInv'
  <1>1. CASE Make(s) \/ Delete(s) \/ DeleteObjects(s) \/ CopyObjects(s)
    BY <1>1, MakeKeeps, DeleteKeeps, DeleteObjectsKeeps, CopyObjectsKeeps
  <1>2. CASE List(s) \/ ListFails(s)
    BY <1>2, ListKeeps, ListFailsKeeps
  <1>3. CASE Return(s) \/ End(s)
    BY <1>3, ReturnKeeps, EndKeeps
  <1>4. ASSUME NEW r \in job[s].sent, Lands(s, r) \/ Fails(s, r) PROVE IInv'
    BY <1>4, LandsKeeps, FailsKeeps
  <1>5. QED
    BY <1>1, <1>2, <1>3, <1>4 DEF Step

LEMMA StutterKeeps ==
  ASSUME IInv, UNCHANGED vars PROVE IInv'
  <1>1. /\ setting' = setting /\ containers' = containers /\ job' = job
        /\ condemned' = condemned /\ objects' = objects /\ uploaded' = uploaded
    BY DEF vars
  <1>2. job \in [Slot -> Job] /\ Loses
    BY <1>1 DEF IInv, OthersKeepObjects, TypeOK, Loses
  <1>3. OthersKeepObjects'
    BY <1>1 DEF IInv, OthersKeepObjects, TypeOK
  <1>4. Housed'
    BY <1>1, SettingSame DEF IInv, Housed
  <1>5. ASSUME NEW s \in Slot PROVE Sound(job[s])'
    <2>1. job[s] \in Job /\ job'[s] = job[s] /\ Sound(job[s]) /\ Alike(job[s], job[s])
      BY <1>1, <1>2 DEF IInv, Alike
    <2>2. job[s].kept = job[s].kept \cap objects'
      BY <1>1, <2>1 DEF Sound, Mine
    <2>3. QED
      BY <1>1, <1>2, <2>1, <2>2, OthersSound
  <1>6. QED
    BY <1>3, <1>4, <1>5 DEF IInv

LEMMA NextKeeps ==
  ASSUME IInv, [Next]_vars PROVE IInv'
  BY AnyStepKeeps, UploadKeeps, StutterKeeps DEF Next

LEMMA InitKeeps ==
  ASSUME Init PROVE IInv
  <1>1. /\ setting \in Settings /\ setting.start \subseteq Place
        /\ containers = {ContainerOf(pl) : pl \in setting.start}
        /\ objects = [place : setting.start, name : Name]
        /\ job = [s \in Slot |-> Idle] /\ uploaded = objects /\ condemned = {}
    BY StorageAssumption DEF Init, Setting
  <1>2. containers \subseteq Container
    BY <1>1, Places
  <1>3. OthersKeepObjects
    <2>1. job \in [Slot -> Job]
      BY <1>1, IdleIs
    <2>2. objects \subseteq Object
      BY <1>1 DEF Object
    <2>3. QED
      BY <1>1, <1>2, <2>1, <2>2 DEF OthersKeepObjects, TypeOK
  <1>4. Housed
    BY <1>1 DEF Housed
  <1>5. Sound(Idle)
    BY IdleIs DEF Sound, Standing, PlansOf, Aimed, Minded, Prompt
  <1>6. QED
    BY <1>1, <1>3, <1>4, <1>5 DEF IInv

-----------------------------------------------------------------------------
(* What the storages keep.                                                 *)

\* Whatever the cloud, its objects are in containers, and every call under way is
\* sound: it deletes only what its dataset or subproject has, and none of its
\* objects is forgotten between the pages it read, the requests it sent and those
\* that landed (the seistore.ts and storage classes of each cloud).
THEOREM Invariance == Spec => []IInv
  <1>1. Init => IInv
    BY InitKeeps
  <1>2. IInv /\ [Next]_vars => IInv'
    BY NextKeeps
  <1>3. QED
    BY <1>1, <1>2, PTL DEF Spec

\* Deleting a dataset or a subproject, in the background and page by page, while
\* others are copied, written, created and deleted, takes no object whose own
\* deletion was not asked for (cloudstorage.ts:125-139, gcs.ts:71-97).
THEOREM OthersKept == Spec => []OthersKeepObjects
  <1>1. IInv => OthersKeepObjects
    BY DEF IInv
  <1>2. QED
    BY <1>1, Invariance, PTL

\* A copy that Google answers with success is complete when it answers, and one of
\* Azure when the copies it started are through, none of which failed: an object
\* that was there all the time is at the destination, or that was deleted
\* (gcs.ts:99-134, cloudstorage.ts:141-158).
THEOREM CopiesComplete == Spec => []CopyComplete
  <1>1. ASSUME IInv PROVE CopyComplete
    <2> SUFFICES ASSUME NEW s \in Slot, NEW c, c = job[s], c.op = "copy", c.ans = "ok",
                        Is({"google", "azure"}),
                        Is({"azure"}) => Settled(c) /\ ~c.failed, NEW o \in c.kept
                 PROVE  Target(c, o) \in objects \/ c.to \in condemned
      BY DEF CopyComplete
    <2>1. Sound(c)
      BY <1>1 DEF IInv
    <2>2. ~c.failed /\ c.pc = "rest" /\ c.sent = {}
      <3>1. CASE Is({"google"})
        BY <2>1, <3>1 DEF Sound, Prompt
      <3>2. CASE Is({"azure"})
        BY <3>2 DEF Settled
      <3>3. QED
        BY <3>1, <3>2 DEF Is
    <2>3. Ahead(c, o) \/ Copied(c, o)
      BY <2>1, <2>2 DEF Sound, Minded
    <2>4. QED
      BY <2>2, <2>3 DEF Ahead, Copied
  <1>2. QED
    BY <1>1, Invariance, PTL

\* A deletion that was answered with success, of which nothing failed, has deleted
\* everything that was there when it was asked for, whatever the pages were; not
\* so for IBM, which lists one page (aws/storage.ts:182-212, anthos/storage.ts).
THEOREM NothingRemains == Spec => []Gone
  <1>1. ASSUME IInv PROVE Gone
    <2> SUFFICES ASSUME NEW s \in Slot, NEW c, c = job[s], c.op \in {"erase", "unmake"},
                        Settled(c), ~c.failed, ~Is({"ibm"}), NEW o \in c.kept
                 PROVE  FALSE
      BY DEF Gone
    <2>1. Sound(c) /\ c.pc = "rest" /\ c.sent = {}
      BY <1>1 DEF IInv, Settled
    <2>2. Ahead(c, o) \/ Doomed(c, o)
      BY <2>1 DEF Sound, Minded
    <2>3. QED
      BY <2>1, <2>2 DEF Ahead, Doomed
  <1>2. QED
    BY <1>1, Invariance, PTL
=============================================================================
