------------------------------- MODULE Journal -------------------------------
(***************************************************************************)
(* The journals of the five clouds behind the interface IJournal, and the  *)
(* calls DatasetDAO builds on them: cloud/journal.ts, cosmosdb.ts (with    *)
(* and without its sidecar), datastore.ts, dynamodb.ts, postgresql.ts,     *)
(* ibm/datastore.ts and services/dataset/dao.ts.                           *)
(*                                                                         *)
(* A call on one key is one request to the database and atomic; an array,  *)
(* a commit and a listing are several, and other clients come in between.  *)
(* Keys are numbers, in the order in which the database lists them, but    *)
(* PostgreSQL lists its rows in the order in which they were inserted.     *)
(* JInit, JNext and the like leave the plain names to the modules next to  *)
(* which this one is used.                                                 *)
(***************************************************************************)
EXTENDS Naturals, Sequences, FiniteSets

CONSTANTS
  Client,    \* requests that run at the same time
  Name,      \* keys made of the name of a dataset
  Rand,      \* keys made by a random generator
  Tag,       \* gtags
  Limit,     \* records of a page
  QueueMax,  \* bound: operations queued in a transaction
  Scenarios, \* the scenarios explored
  None       \* no record, no cursor

Database == {"cosmos", "sidecar", "datastore", "dynamo", "postgres", "cloudant"}

\* the cloud, whether calls may fail, what the clients do, with which keys and tags
Scenario == [db : Database, faulty : BOOLEAN,
             calls : SUBSET {"save", "delete", "list", "deleteAll", "transaction"},
             keys : SUBSET (Name \cup Rand), tags : SUBSET Tag]

ASSUME JournalAssumption ==
  /\ Name \cup Rand \subseteq Nat \ {0} /\ Name \cap Rand = {}
  /\ IsFiniteSet(Name \cup Rand)
  /\ Limit \in Nat \ {0} /\ QueueMax \in Nat
  /\ Scenarios \subseteq Scenario
  /\ None \notin Client \cup Nat \cup Tag

VARIABLES
  scenario, \* the scenario of this behaviour
  table,    \* the tags of the record under each key
  older,    \* PostgreSQL: which row has a smaller id than which
  detached, \* deletions that were sent and that nobody awaits
  queue,    \* the operations of each client's transaction
  client    \* the call of each client and how far it is

jvars == <<scenario, table, older, detached, queue, client>>

Key    == Name \cup Rand
Absent == {None}        \* the content of a key without a record

Operation == [kind : {"save", "delete"}, key : Key, tags : SUBSET Tag]

\* what a client is doing; ops is what it asked for, left what deleteAll has yet
\* to delete; a cursor None is a row that is gone.  History: keys a listing
\* returned more than once (again), pages known to miss some (cut), the records
\* that were there all the time (kept), the keys the call wrote and those nobody
\* wrote after it (wrote, mine)
Call == [pc : {"idle", "get", "apply", "insert", "page", "scan", "erase", "done"},
         op : {"none", "save", "delete", "list", "deleteAll", "commit"},
         ops : Seq(Operation), todo : Seq(Operation), left : SUBSET Key,
         doc : {"none", "absent", "found", "changed"},
         tags : SUBSET Tag, caller : {"list", "ls", "all"},
         cursor : {0, None} \cup Key, got : SUBSET Key, again : SUBSET Key,
         cut : BOOLEAN, kept : SUBSET Key, wrote : SUBSET Key, mine : SUBSET Key,
         ans : {"none", "ok", "error", "absent"}]

Idle == [pc |-> "idle", op |-> "none", ops |-> <<>>, todo |-> <<>>, left |-> {},
         doc |-> "none", tags |-> {}, caller |-> "list", cursor |-> 0,
         got |-> {}, again |-> {}, cut |-> FALSE, kept |-> {}, wrote |-> {},
         mine |-> {}, ans |-> "none"]

Is(P) == scenario.db \in P

Present == {k \in Key : table[k] # Absent}

JTypeOK ==
  /\ scenario \in Scenarios
  /\ table \in [Key -> (SUBSET Tag) \cup {Absent}]
  /\ older \subseteq Present \X Present
  /\ detached \subseteq Key
  /\ queue \in [Client -> Seq(Operation)] /\ \A p \in Client : Len(queue[p]) =< QueueMax
  /\ client \in [Client -> Call]

JInit ==
  /\ scenario \in Scenarios
  /\ table = [k \in Key |-> Absent]
  /\ older = {} /\ detached = {}
  /\ queue = [p \in Client |-> <<>>]
  /\ client = [p \in Client |-> Idle]

-----------------------------------------------------------------------------
(* Keys, and the effect of an operation on the table.                      *)

\* the keys of the operations s
KeysOf(s) == {s[i].key : i \in DOMAIN s}

\* a random key is one that nothing refers to
Unused ==
  {k \in Rand : /\ k \notin Present \cup detached
                /\ \A p \in Client :
                     /\ k \notin {client[p].cursor} \cup client[p].got \cup client[p].left
                     /\ k \notin KeysOf(client[p].ops) \cup KeysOf(queue[p])}

\* createKey for a new dataset: the hash of its name, its name appended to the
\* path, its tenant and subproject that save completes with the name, ...
CosmosKey    == Name
DatastoreKey == Name
DynamoKey    == Name

\* ... or sixteen random characters
PostgresKey == Unused
CloudantKey == Unused

NewKey ==
  scenario.keys \cap
    CASE Is({"cosmos", "sidecar"}) -> CosmosKey
      [] Is({"datastore"}) -> DatastoreKey
      [] Is({"dynamo"}) -> DynamoKey
      [] Is({"postgres"}) -> PostgresKey
      [] Is({"cloudant"}) -> CloudantKey

\* the last operation of s on k
LastOn(s, k) == s[CHOOSE i \in DOMAIN s : /\ s[i].key = k
                                          /\ \A j \in DOMAIN s : j > i => s[j].key # k]

\* what an operation leaves under its key
Content(o) == IF o.kind = "save" THEN o.tags ELSE Absent

TableAfter(s) ==
  [k \in Key |-> IF k \in KeysOf(s) THEN Content(LastOn(s, k)) ELSE table[k]]

\* what a change does to the calls of the clients: a document that was read
\* is outdated, a dataset that was deleted or untagged was not there throughout, and
\* a row that is inserted again has a new id
Watch(c, K, T) ==
  [c EXCEPT
     !.mine = @ \ K,
     !.kept = {k \in @ : T[k] # Absent /\ c.tags \subseteq T[k]},
     !.cursor = IF Is({"postgres"}) /\ @ \in Key /\ T[@] = Absent THEN None ELSE @,
     !.doc  = IF @ = "found" /\ Head(c.todo).key \in K
              THEN "changed" ELSE @]

\* the rows of the table T: those that stay keep their ids, a new one has the greatest
Numbered(T) ==
  {e \in Key \X Key : /\ T[e[1]] # Absent /\ T[e[2]] # Absent
                      /\ e \in older \/ (e[1] \in Present /\ e[2] \notin Present)}

Store(T) ==
  /\ table' = T
  /\ older' = IF Is({"postgres"}) THEN Numbered(T) ELSE {}
  /\ UNCHANGED scenario

\* the operations s of client p take effect, and p goes on as c
Write(p, s, c) ==
  LET T == TableAfter(s)
      w == Watch(c, {}, T)
  IN /\ Store(T)
     /\ client' = [q \in Client |->
          IF q = p THEN [w EXCEPT !.wrote = @ \cup KeysOf(s), !.mine = @ \cup KeysOf(s)]
          ELSE Watch(client[q], KeysOf(s), T)]
     /\ detached' = IF Is({"cloudant"}) THEN detached \ KeysOf(s) ELSE detached

Continue(p, c) ==
  /\ client' = [client EXCEPT ![p] = c]
  /\ UNCHANGED <<scenario, table, older>>

Answer(c, a) == [c EXCEPT !.pc = "done", !.todo = <<>>, !.left = {}, !.doc = "none",
                          !.ans = a]

\* slip: the loop returns after its first operation
Rest_Early(c) == Answer(c, "ok")

\* the rest of a call once its first operation is done
Rest(c) ==
  IF Len(c.todo) = 1 THEN Answer(c, "ok")
  ELSE [c EXCEPT !.pc = "apply", !.todo = Tail(@), !.doc = "none"]

\* commit empties the queue at its end
Cleared(p, c) ==
  IF c.pc = "done" /\ c.op = "commit" /\ c.ans = "ok"
  THEN [queue EXCEPT ![p] = <<>>] ELSE queue

Wrote(p, s, c) == Write(p, s, c) /\ queue' = Cleared(p, c)
Sent(p, D, c)  == Continue(p, c) /\ queue' = Cleared(p, c) /\ detached' = D
Passed(p, c)   == Sent(p, detached, c)

-----------------------------------------------------------------------------
(* Calls.                                                                  *)

Called(p, c) ==
  /\ client[p].pc = "idle"
  /\ Continue(p, c)
  /\ UNCHANGED <<detached, queue>>

Saving(s, t) == [i \in DOMAIN s |-> [kind |-> "save", key |-> s[i], tags |-> t]]

Apply(op, s) == [Idle EXCEPT !.pc = "apply", !.op = op, !.ops = s, !.todo = s]

\* DatasetDAO.register, update
Save(p) ==
  /\ "save" \in scenario.calls
  /\ \E k \in NewKey \cup Present, t \in SUBSET scenario.tags :
       Called(p, Apply("save", Saving(<<k>>, t)))

\* DatasetDAO.updateAll: an array of records that exist, each of them once
SaveAll(p) ==
  /\ "save" \in scenario.calls
  /\ Cardinality(Present) > 1
  /\ \E s \in [1..Cardinality(Present) -> Present], t \in SUBSET scenario.tags :
       /\ \A k \in Present : \E i \in DOMAIN s : s[i] = k
       /\ Called(p, Apply("save", Saving(s, t)))

\* a dataset is looked up, then DatasetDAO.delete
Delete(p) ==
  /\ "delete" \in scenario.calls
  /\ \E k \in Present :
       Called(p, [Apply("delete", <<[kind |-> "delete", key |-> k, tags |-> {}]>>)
                   EXCEPT !.pc = "get"])

\* DatasetDAO.list, paginatedListContent, listDatasets: page after page
\* (bound: one listing at a time, the other clients write)
List(p) ==
  /\ "list" \in scenario.calls
  /\ \A q \in Client : client[q].pc \notin {"page", "scan"}
  /\ \E t \in SUBSET scenario.tags, w \in {"list", "ls", "all"} :
       Called(p, [Idle EXCEPT !.pc = IF Is({"dynamo"}) THEN "scan" ELSE "page",
                   !.op = "list", !.tags = t, !.caller = w,
                   !.kept = {k \in Present : t \subseteq table[k]}])

-----------------------------------------------------------------------------
(* What each cloud answers to a call on one key.                           *)

Is404(k) == table[k] = Absent

\* get: the record or undefined; on IBM an error is a record that is not there, and so
\* is any 404 of the sidecar or of what it calls
CosmosGet(k)    == {table[k]} \cup IF Is({"sidecar"}) /\ scenario.faulty THEN {Absent} ELSE {}
DatastoreGet(k) == {table[k]}
DynamoGet(k)    == {table[k]}
PostgresGet(k)  == {table[k]}
CloudantGet(k)  == {table[k]} \cup IF scenario.faulty THEN {Absent} ELSE {}

GetOf(k) ==
  CASE Is({"cosmos", "sidecar"}) -> CosmosGet(k)
    [] Is({"datastore"}) -> DatastoreGet(k)
    [] Is({"dynamo"}) -> DynamoGet(k)
    [] Is({"postgres"}) -> PostgresGet(k)
    [] Is({"cloudant"}) -> CloudantGet(k)

\* may a call that finds no record go on? the errors of the sidecar are parsed
\* and a 404 is dropped; DynamoDB and Datastore do not mind
CosmosDelete(k)    == ~Is404(k)
SidecarError(k)    == TRUE
DatastoreDelete(k) == TRUE
DynamoDelete(k)    == TRUE
PostgresDelete(k)  == ~Is404(k)
CloudantDelete(k)  == ~Is404(k)

MayDelete(k) ==
  CASE Is({"cosmos"}) -> CosmosDelete(k)
    [] Is({"sidecar"}) -> SidecarError(k)
    [] Is({"datastore"}) -> DatastoreDelete(k)
    [] Is({"dynamo"}) -> DynamoDelete(k)
    [] Is({"postgres"}) -> PostgresDelete(k)
    [] Is({"cloudant"}) -> CloudantDelete(k)

\* how many operations of todo one request to the database applies
CosmosSave(todo)    == 1

\* slip: the transaction of Datastore makes its calls one by one
DatastoreSave_Single(todo) == 1

DatastoreSave(todo) == Len(todo)
DynamoSave(todo)    == 1
PostgresSave(todo)  == 1

Together(todo) ==
  CASE Is({"cosmos", "sidecar"}) -> CosmosSave(todo)
    [] Is({"datastore"}) -> DatastoreSave(todo)
    [] Is({"dynamo"}) -> DynamoSave(todo)
    [] Is({"postgres"}) -> PostgresSave(todo)

-----------------------------------------------------------------------------
(* Steps of a call.                                                        *)

Get(p) ==
  /\ client[p].pc = "get"
  /\ \E r \in GetOf(Head(client[p].todo).key) :
       Passed(p, IF r = Absent THEN Answer(client[p], "absent")
                 ELSE [client[p] EXCEPT !.pc = "apply"])

\* the next request is applied, or finds nothing to delete
Perform(p) ==
  LET c == client[p]
      o == Head(c.todo)
      n == Together(c.todo)
  IN /\ c.pc = "apply" /\ ~Is({"cloudant"})
     /\ \/ /\ o.kind = "save" \/ MayDelete(o.key)
           /\ Wrote(p, SubSeq(c.todo, 1, n),
                    Rest([c EXCEPT !.todo = SubSeq(@, n, Len(@))]))
        \/ /\ o.kind = "delete" /\ ~MayDelete(o.key)
           /\ Passed(p, Answer(c, "error"))

\* IBM: an array has no key, and that error is swallowed ...
CloudantArray(p) ==
  LET c == client[p] IN
  /\ c.pc = "apply" /\ Is({"cloudant"}) /\ c.op = "save" /\ Len(c.ops) > 1
  /\ Passed(p, Answer(c, "ok"))

\* ... a single entity is read first ...
CloudantRead(p) ==
  LET c == client[p] IN
  /\ c.pc = "apply" /\ Is({"cloudant"}) /\ Head(c.todo).kind = "save"
  /\ c.op = "commit" \/ Len(c.ops) = 1
  /\ Passed(p, [c EXCEPT !.pc = "insert",
                 !.doc = IF Is404(Head(c.todo).key) THEN "absent" ELSE "found"])

\* ... and inserts it with the revision that was read.  The error of an
\* outdated revision is caught and forgotten
CloudantInsert(p) ==
  LET c == client[p]
      o == Head(c.todo)
      conflict == c.doc = "changed" \/ (c.doc = "absent" /\ ~Is404(o.key))
  IN /\ c.pc = "insert"
     /\ \/ ~conflict /\ Wrote(p, <<o>>, Rest(c))
        \/ conflict /\ c.doc = "absent" /\ Passed(p, Answer(c, "error"))
        \/ conflict /\ c.doc = "changed" /\ Passed(p, Rest(c))

\* IBM: destroy is sent and not awaited
CloudantDestroy(p) ==
  LET c == client[p]
      o == Head(c.todo)
  IN /\ c.pc = "apply" /\ Is({"cloudant"}) /\ o.kind = "delete"
     /\ \/ MayDelete(o.key) /\ Sent(p, detached \cup {o.key}, Rest(c))
        \/ ~MayDelete(o.key) /\ Passed(p, Answer(c, "error"))

\* a call is rejected, after or before it took effect; the insertion of a document
\* that existed swallows that, too.  The sidecar's 404, whatever it is about, is
\* dropped: the call goes on with nothing written
Fault(p) ==
  LET c == client[p]
      s == SubSeq(c.todo, 1, IF Is({"cloudant"}) THEN 1 ELSE Together(c.todo))
      next == IF c.pc = "insert" /\ c.doc # "absent" THEN Rest(c)
              ELSE Answer(c, "error")
  IN /\ scenario.faulty
     /\ c.pc \in {"apply", "insert"}
     /\ \/ Passed(p, next)
        \/ Is({"sidecar"}) /\ Passed(p, Rest(c))
        \/ c.pc = "apply" /\ ~Is({"cloudant"}) /\ Wrote(p, s, next)

-----------------------------------------------------------------------------
(* Listings.                                                               *)

\* the order of the database
Earlier(a, b) == IF Is({"postgres"}) THEN <<a, b>> \in older ELSE a < b

\* the filters of a query, one per tag: as CONTAINS, or as '=' of a list
Matches(k, t) == table[k] # Absent /\ t \subseteq table[k]

Matching(K, t) == {k \in K : Matches(k, t)}
Beyond(start)  == {k \in Present : k > start}

\* the records a query returns, before its limit: from its continuation ...
CosmosRows(c)    == Matching(Beyond(c.cursor), c.tags)
DatastoreRows(c) == Matching(Beyond(c.cursor), c.tags)

\* slip: the rows after that of the cursor, skipping one
PostgresRows_Skip(c) ==
  LET R == {k \in Matching(Present, c.tags) : Earlier(c.cursor, k)}
  IN IF c.cursor = 0 THEN Matching(Present, c.tags)
     ELSE {k \in R : \E j \in R \ {k} : Earlier(j, k)}

\* ... from the row of the cursor, skipping one, if that row is there ...
PostgresRows(c) ==
  LET R == {k \in Matching(Present, c.tags) : k = c.cursor \/ Earlier(c.cursor, k)}
  IN IF c.cursor = 0 THEN Matching(Present, c.tags)
     ELSE IF c.cursor = None THEN {}
     ELSE {k \in R : \E j \in R \ {k} : Earlier(j, k)}

\* ... always from the first one, and a limited number of them ...
CloudantRows(c) == Matching(Present, c.tags)

\* ... or, of each piece of a scan, those that pass the filters
DynamoRows(c, piece) == Matching(piece, c.tags)

\* the beginnings of the rows R, and as many of them as a page holds
Beginnings(R) == {K \in SUBSET R : \A a \in K, b \in R \ K : Earlier(a, b)}
Upto(n, m)    == IF n < m THEN n ELSE m
Full(R)       == {K \in Beginnings(R) : Cardinality(K) = Upto(Limit, Cardinality(R))}
LastOf(K)     == CHOOSE k \in K : \A a \in K \ {k} : Earlier(a, k)

\* the page that runQuery returns, and its endCursor.  Cosmos ends a page when
\* it likes, and a page may be empty although there is a continuation
CosmosPage(c) ==
  LET R == CosmosRows(c) IN
  {[keys |-> K,
    next |-> IF K = R THEN None ELSE IF K = {} THEN c.cursor ELSE LastOf(K)] :
     K \in {B \in Beginnings(R) : Cardinality(B) =< Limit}}

DatastorePage(c) ==
  LET R == DatastoreRows(c) IN
  {[keys |-> K, next |-> IF K = R THEN None ELSE LastOf(K)] : K \in Full(R)}

\* a page that is not empty has a cursor, also when it is the last one
PostgresPage(c) ==
  {[keys |-> K, next |-> IF K = {} THEN None ELSE LastOf(K)] :
     K \in Full(PostgresRows(c))}

CloudantBuild(R) == Full(R)
CloudantPage(c)  == {[keys |-> K, next |-> None] : K \in CloudantBuild(CloudantRows(c))}

PageOf(c) ==
  CASE Is({"cosmos", "sidecar"}) -> CosmosPage(c)
    [] Is({"datastore"}) -> DatastorePage(c)
    [] Is({"postgres"}) -> PostgresPage(c)
    [] Is({"cloudant"}) -> CloudantPage(c)

\* the cursor the caller gets: list and ls hand it to the client, listDatasets
\* forgets it when the page is empty
ListNext(g)         == g.next
LsNext(g)           == g.next
ListDatasetsNext(g) == IF g.keys = {} THEN None ELSE g.next

NextCursor(w, g) ==
  CASE w = "list" -> ListNext(g) [] w = "ls" -> LsNext(g)
    [] w = "all" -> ListDatasetsNext(g)

\* history: this page misses records for a reason the README names
Misses(c, g) ==
  \/ c.caller = "all" /\ g.keys = {} /\ g.next # None
  \/ Is({"postgres"}) /\ c.cursor # 0 /\ (c.cursor = None \/ ~Matches(c.cursor, c.tags))
  \/ Is({"cloudant"}) /\ Cardinality(CloudantRows(c)) > Limit

Took(c, K) == [c EXCEPT !.got = @ \cup K, !.again = @ \cup (c.got \cap K)]

Page(p) ==
  LET c == client[p] IN
  /\ c.pc = "page"
  /\ \E g \in PageOf(c) :
       LET d == [Took(c, g.keys) EXCEPT !.cut = @ \/ Misses(c, g)]
           n == NextCursor(c.caller, g)
       IN Passed(p, IF n = None THEN Answer(d, "ok") ELSE [d EXCEPT !.cursor = n])

\* DynamoDB: one query scans the table piece by piece and returns everything;
\* limit is the size of a piece, before the filters
DynamoScan(p) ==
  LET c == client[p]
      R == Beyond(c.cursor)
  IN /\ c.pc = "scan"
     /\ \E K \in Full(R) :
          LET d == Took(c, DynamoRows(c, K))
          IN Passed(p, IF K = R THEN Answer(d, "ok") ELSE [d EXCEPT !.cursor = LastOf(K)])

-----------------------------------------------------------------------------
(* DatasetDAO.deleteAll: all datasets at once.                             *)

Deletion(k) == [kind |-> "delete", key |-> k, tags |-> {}]

\* slip: a page of them
Victims_Page == Full(Present)

\* the datasets the query without a limit finds; IBM has a limit of its own
Victims == IF Is({"cloudant"}) THEN CloudantBuild(Present) ELSE {Present}

DeleteAll(p) ==
  /\ "deleteAll" \in scenario.calls
  /\ \E K \in Victims :
       Called(p, [Idle EXCEPT !.pc = "erase", !.op = "deleteAll", !.left = K,
                    !.kept = Present])

Erase(p) ==
  LET c == client[p] IN
  /\ c.pc = "erase"
  /\ \/ c.left = {} /\ Passed(p, Answer(c, "ok"))
     \/ \E k \in c.left :
          LET d == IF c.left = {k} THEN Answer(c, "ok") ELSE [c EXCEPT !.left = @ \ {k}]
          IN \/ MayDelete(k) /\ ~Is({"cloudant"}) /\ Wrote(p, <<Deletion(k)>>, d)
             \/ MayDelete(k) /\ Is({"cloudant"}) /\ Sent(p, detached \cup {k}, d)
             \* the sidecar's 404 is dropped
             \/ Is({"sidecar"}) /\ scenario.faulty /\ Passed(p, d)
             \* Promise.all rejects, the other deletions go on
             \/ /\ ~MayDelete(k) \/ scenario.faulty
                /\ Sent(p, detached \cup (c.left \ {k}), Answer(c, "error"))

\* a deletion nobody awaits is performed, or fails and is logged
Land(k) ==
  /\ k \in detached
  /\ detached' = detached \ {k}
  /\ \/ UNCHANGED <<scenario, table, older, queue, client>>
     \/ LET T == [table EXCEPT ![k] = Absent] IN
        /\ Store(T)
        /\ client' = [q \in Client |-> Watch(client[q], {k}, T)]
        /\ UNCHANGED queue

-----------------------------------------------------------------------------
(* Transactions: save and delete are queued, commit makes them.            *)

\* bound: one transaction at a time, the other clients save
Enqueue(p, o) ==
  /\ client[p].pc = "idle"
  /\ Len(queue[p]) < QueueMax
  /\ \A q \in Client \ {p} : queue[q] = <<>>
  /\ queue' = [queue EXCEPT ![p] = Append(@, o)]
  /\ UNCHANGED <<scenario, table, older, detached, client>>

TransactionSave(p) ==
  /\ "transaction" \in scenario.calls
  /\ \E k \in NewKey \cup Present, t \in SUBSET scenario.tags :
       Enqueue(p, [kind |-> "save", key |-> k, tags |-> t])

TransactionDelete(p) ==
  /\ "transaction" \in scenario.calls
  /\ \E k \in Present : Enqueue(p, Deletion(k))

Rollback(p) ==
  /\ client[p].pc = "idle" /\ queue[p] # <<>>
  /\ queue' = [queue EXCEPT ![p] = <<>>]
  /\ UNCHANGED <<scenario, table, older, detached, client>>

\* after an error the queue is what it was, and a client may commit again
Commit(p) == queue[p] # <<>> /\ Called(p, Apply("commit", queue[p]))

-----------------------------------------------------------------------------
\* the caller has its answer
Reply(p) ==
  /\ client[p].pc = "done"
  /\ client' = [client EXCEPT ![p] = Idle]
  /\ UNCHANGED <<scenario, table, older, detached, queue>>

ClientStep(p) ==
  \/ Reply(p) \/ Save(p) \/ SaveAll(p) \/ Delete(p) \/ List(p) \/ DeleteAll(p)
  \/ TransactionSave(p) \/ TransactionDelete(p) \/ Rollback(p) \/ Commit(p)
  \/ Get(p) \/ Perform(p) \/ CloudantArray(p) \/ CloudantRead(p)
  \/ CloudantInsert(p) \/ CloudantDestroy(p) \/ Fault(p)
  \/ Page(p) \/ DynamoScan(p) \/ Erase(p)

JNext == (\E p \in Client : ClientStep(p)) \/ (\E k \in detached : Land(k))

JSpec == JInit /\ [][JNext]_jvars

-----------------------------------------------------------------------------
(* Properties.                                                             *)

Ended(p, ops) == client[p].pc = "done" /\ client[p].op \in ops /\ client[p].ans = "ok"

\* The journals whose answers can be believed: not IBM's (ibm/datastore.ts:106), nor
\* the sidecar's when its calls may fail (cosmosdb.ts:75, 82, 116-120).
Truthful == ~Is({"cloudant"}) /\ ~(Is({"sidecar"}) /\ scenario.faulty)

\* A save or a commit that succeeds has made every operation it was given, in
\* their order, whatever failed before and however often it was repeated: a key
\* that nobody changed after it holds what the last operation on the key says (commit,
\* cosmosdb.ts:567-580).  Two journals break this (Truthful).
EffectOfAnswer ==
  Truthful =>
    \A p \in Client : Ended(p, {"save", "delete", "commit"}) =>
      \A k \in KeysOf(client[p].ops) :
        /\ k \in client[p].wrote
        /\ k \in client[p].mine => table[k] = Content(LastOn(client[p].ops, k))

\* A commit that fails has made the first of its operations and none after
\* them; Datastore has made all or none (datastore.ts:136-138, cosmosdb.ts:567-580).
FailedCommit ==
  Truthful =>
    \A p \in Client : LET c == client[p] IN
      c.pc = "done" /\ c.op = "commit" /\ c.ans = "error" =>
        \E n \in 0..Len(c.ops) :
          /\ c.wrote = KeysOf(SubSeq(c.ops, 1, n))
          /\ Is({"datastore"}) => n \in {0, Len(c.ops)}

\* A listing by pages returns every dataset that was there all the time, and
\* none of them twice, whatever is written meanwhile (dao.ts:93-133, 174-192).  Where
\* a dataset keeps its place it is not returned twice either when it was deleted and
\* saved again; PostgreSQL appends it again.
ListedOnce ==
  \A p \in Client : LET c == client[p] IN
    Ended(p, {"list"}) =>
      /\ c.again \cap c.kept = {} /\ (~Is({"postgres"}) => c.again = {})
      /\ ~c.cut => c.kept \subseteq c.got

\* When deleteAll has succeeded, none of the datasets it found is left
\* (dao.ts:135-149, the deletion of a subproject relies on it).  Two journals break
\* this (Truthful).
AllDeleted ==
  /\ JTypeOK
  /\ Truthful => \A p \in Client : Ended(p, {"deleteAll"}) => client[p].kept = {}
-----------------------------------------------------------------------------
(* What these rest on.                                                     *)

\* the ids of the rows are a total order
Ordered ==
  /\ ~Is({"postgres"}) => older = {}
  /\ Is({"postgres"}) =>
       /\ \A a, b \in Present : a # b => <<a, b>> \in older \/ <<b, a>> \in older
       /\ \A a, b \in Present : ~(<<a, b>> \in older /\ <<b, a>> \in older)
       /\ \A a, b, d \in Present :
            <<a, b>> \in older /\ <<b, d>> \in older => <<a, d>> \in older

\* what a call is about to do is part of what it is for
Labelled(c) ==
  /\ c.pc \in {"get", "apply", "insert"} =>
       c.op \in {"save", "delete", "commit"} /\ c.todo # <<>>
  /\ c.pc = "insert" => Is({"cloudant"})
  /\ c.pc \in {"page", "scan"} => c.op = "list"
  /\ c.pc = "page" => ~Is({"dynamo"})
  /\ c.pc = "scan" => Is({"dynamo"})
  /\ c.pc = "erase" => c.op = "deleteAll"

\* the keys K hold what the last of the operations s on them left
Holds(s, K) == \A k \in K \cap KeysOf(s) : table[k] = Content(LastOn(s, k))

\* a call has made the first n of its operations and has the others to make
Reached(c, n) ==
  /\ c.todo = SubSeq(c.ops, n + 1, Len(c.ops))
  /\ c.wrote = KeysOf(SubSeq(c.ops, 1, n))
  /\ Holds(SubSeq(c.ops, 1, n), c.mine)
  /\ Is({"datastore"}) => n = 0

InOrder(c) ==
  Truthful /\ c.pc \in {"get", "apply"} => \E n \in 0..Len(c.ops) : Reached(c, n)

\* a dataset that was there all the time is there
Minded(c) == \A k \in c.kept : table[k] # Absent /\ c.tags \subseteq table[k]

\* a listing has what lies up to its cursor, and nothing that lies beyond
Paged(c) ==
  c.pc \in {"page", "scan"} =>
    /\ c.cursor = 0 => c.got = {}
    /\ c.again \cap c.kept = {}
    /\ Is({"cloudant"}) => c.cursor = 0
    /\ ~Is({"postgres"}) =>
         c.cursor # None /\ c.again = {} /\ \A k \in c.got : k =< c.cursor
    /\ c.cursor \in Key =>
         /\ Is({"postgres"}) => c.cursor \in Present
         /\ \A k \in c.kept \cap c.got : k = c.cursor \/ Earlier(k, c.cursor)
         /\ ~c.cut => \A k \in c.kept \ c.got : Earlier(c.cursor, k)

\* deleteAll has yet to delete what is left
Erasing(c) == Truthful /\ c.pc = "erase" => c.kept \subseteq c.left

\* what the properties say of one call
Answered(c) ==
  c.pc = "done" =>
    /\ Truthful /\ c.op \in {"save", "delete", "commit"} /\ c.ans = "ok" =>
         KeysOf(c.ops) \subseteq c.wrote /\ Holds(c.ops, c.mine)
    /\ Truthful /\ c.op = "commit" /\ c.ans = "error" =>
         \E n \in 0..Len(c.ops) :
           /\ c.wrote = KeysOf(SubSeq(c.ops, 1, n))
           /\ Is({"datastore"}) => n \in {0, Len(c.ops)}
    /\ c.op = "list" /\ c.ans = "ok" =>
         /\ c.again \cap c.kept = {} /\ (~Is({"postgres"}) => c.again = {})
         /\ ~c.cut => c.kept \subseteq c.got
    /\ Truthful /\ c.op = "deleteAll" /\ c.ans = "ok" => c.kept = {}

Tracked(c) ==
  Labelled(c) /\ InOrder(c) /\ Minded(c) /\ Paged(c) /\ Erasing(c) /\ Answered(c)

JInv == JTypeOK /\ Ordered /\ \A p \in Client : Tracked(client[p])
=============================================================================
