-------------------------------- MODULE Tenant --------------------------------
(***************************************************************************)
(* Tenants and their service applications: services/tenant and             *)
(* services/svcapp, on several instances of the service, each with the     *)
(* memory of TenantDAO, and next to the creation and the deletion of       *)
(* subprojects, which begin with the same lookup of the tenant.            *)
(*                                                                         *)
(* One tenant name.  Each creation makes a new version of its record, and  *)
(* names the project whose journal keeps the subprojects and applications; *)
(* these survive the record.  A request looks where the version it works   *)
(* with says, also when that version is a memory.  A call of the journal   *)
(* and the handling of its answer are two steps.                           *)
(***************************************************************************)
EXTENDS Naturals, FiniteSets

CONSTANTS
  Proc,        \* requests that run at the same time
  Inst,        \* instances of the service
  Sub,         \* names of subprojects
  Project,     \* projects of the cloud, each with a journal
  MaxVersion,  \* creations of the tenant
  Settings,    \* the operations that are called, and whether calls may fail
  Nil

Op == {"create", "get", "delete", "createSub", "deleteSub", "register", "trust"}
None    == 0
Version == 1 .. MaxVersion

\* what is called, whether calls may fail, and the project each creation names
Setting == [ops : SUBSET Op, faulty : BOOLEAN, home : [Version -> Project]]

ASSUME TenantAssumption ==
  MaxVersion \in Nat \ {0} /\ Settings \subseteq Setting /\ Project \cap Nat = {}

VARIABLES
  setting,  \* the setting of this behaviour
  tenant,   \* the version in the journal, or None
  made,     \* the versions made so far
  cache,    \* the version each instance remembers, or None
  subs,     \* the subprojects in each journal, with the tenant they were made in
  app,      \* the record of an application in each journal
  pc,       \* the next await of each request
  req,      \* its operation, instance and subproject
  got,      \* the version it works with
  known,    \* history: what had been answered with OK before the request began
  answered, \* history: creations and the trust that were answered with OK
  erased,   \* history: versions that were deleted
  missed,   \* history: those whose deletion looked in another project for subprojects
  gone      \* history: versions an instance deleted, none of its calls having
            \* them at hand

call    == <<pc, req, got, known>>
history == <<answered, erased, missed, gone>>
vars    == <<setting, tenant, made, cache, subs, app, call, history>>

NoSub   == [of |-> None, late |-> FALSE]
Answer  == Version \cup Project    \* to a creation, and to the trust in a project
Request == [op : Op, inst : Inst, sub : Sub]
Label   == {"idle", "look", "read", "keep", "list", "erase", "forget", "save", "remember",
            "findSub", "saveSub", "dropSub", "findApp", "saveApp"}

TypeOK ==
  /\ setting \in Settings
  /\ tenant \in Version \cup {None}
  /\ made \in 0 .. MaxVersion
  /\ cache \in [Inst -> Version \cup {None}]
  /\ subs \in [Project -> [Sub -> [of : Version \cup {None}, late : BOOLEAN]]]
  /\ app \in [Project -> {"none", "plain", "trusted"}]
  /\ pc \in [Proc -> Label]
  /\ req \in [Proc -> Request \cup {Nil}]
  /\ got \in [Proc -> Version \cup {None}]
  /\ known \in [Proc -> SUBSET Answer]
  /\ answered \subseteq Answer
  /\ erased \subseteq Version /\ missed \subseteq erased
  /\ gone \in [Inst -> SUBSET Version]

Init ==
  /\ setting \in Settings
  /\ tenant = None /\ made = 0
  /\ cache = [i \in Inst |-> None]
  /\ subs = [j \in Project |-> [s \in Sub |-> NoSub]]
  /\ app = [j \in Project |-> "none"]
  /\ pc = [p \in Proc |-> "idle"]
  /\ req = [p \in Proc |-> Nil]
  /\ got = [p \in Proc |-> None]
  /\ known = [p \in Proc |-> {}]
  /\ answered = {} /\ erased = {} /\ missed = {}
  /\ gone = [i \in Inst |-> {}]

-----------------------------------------------------------------------------
(* A request and its lookup of the tenant.                                 *)

On(p) == req[p].inst

\* JournalFactoryTenantClient.get: the journal of the version a request works with
Home(v)  == setting.home[v]
Where(p) == Home(got[p])

Goto(p, l) == pc' = [pc EXCEPT ![p] = l]
At(p, l) == pc[p] = l

Take(p, v) == got' = [got EXCEPT ![p] = v]

Go(p, l) == Goto(p, l) /\ UNCHANGED <<req, got, known>>

\* the request is over, with or without success
End(p) ==
  /\ Goto(p, "idle") /\ Take(p, None)
  /\ req' = [req EXCEPT ![p] = Nil]
  /\ known' = [known EXCEPT ![p] = {}]

\* a request comes in, with leave to do what it asks for
Begin(p) ==
  /\ At(p, "idle")
  /\ \E r \in Request :
       /\ r.op \in setting.ops
       /\ r.op = "create" => made < MaxVersion    \* a bound, as in Save
       /\ req' = [req EXCEPT ![p] = r]
  /\ known' = [known EXCEPT ![p] = answered]
  /\ Goto(p, "look")
  /\ UNCHANGED <<setting, tenant, made, cache, subs, app, got, history>>

\* an error of the request, or of a call; that of a write may come after its effect
Refuse(p) ==
  /\ ~At(p, "idle")
  /\ setting.faulty
  /\ End(p)
  /\ UNCHANGED <<setting, tenant, made, cache, subs, app, history>>

\* what a request does once it has the tenant v; a creation is refused then
With(p, v) ==
  LET op == req[p].op
      l  == CASE op = "delete"                     -> "list"
              [] op \in {"createSub", "deleteSub"} -> "findSub"
              [] op \in {"register", "trust"}      -> "findApp"
              [] OTHER                             -> "idle"
  IN IF l = "idle" THEN End(p)
     ELSE Goto(p, l) /\ Take(p, v) /\ UNCHANGED <<req, known>>

\* the memory answers, or the journal is asked
Look(p) ==
  /\ At(p, "look")
  /\ IF cache[On(p)] = None THEN Go(p, "read") ELSE With(p, cache[On(p)])
  /\ UNCHANGED <<setting, tenant, made, cache, subs, app, history>>

\* a slip: a creation trusts the memory of its instance
Read_Memory(p) ==
  /\ At(p, "read")
  /\ IF req[p].op = "create" THEN Go(p, "save")
     ELSE IF tenant = None THEN End(p)
     ELSE Goto(p, "keep") /\ Take(p, tenant) /\ UNCHANGED <<req, known>>
  /\ UNCHANGED <<setting, tenant, made, cache, subs, app, history>>

\* the journal answers; without a tenant a creation goes on, others end
Read(p) ==
  /\ At(p, "read")
  /\ IF tenant # None THEN Goto(p, "keep") /\ Take(p, tenant) /\ UNCHANGED <<req, known>>
     ELSE IF req[p].op = "create" THEN Go(p, "save")
     ELSE End(p)
  /\ UNCHANGED <<setting, tenant, made, cache, subs, app, history>>

\* TenantDAO.get and exist keep the tenant for an hour
Keep(p) ==
  /\ At(p, "keep")
  /\ cache' = [cache EXCEPT ![On(p)] = got[p]]
  /\ With(p, got[p])
  /\ UNCHANGED <<setting, tenant, made, subs, app, history>>

Lapse(i) ==
  /\ cache[i] # None
  /\ cache' = [cache EXCEPT ![i] = None]
  /\ UNCHANGED <<setting, tenant, made, subs, app, call, history>>

-----------------------------------------------------------------------------
(* Creation and deletion of the tenant.                                    *)

\* TenantDAO.register: the record, then the memory of this instance
Save(p) ==
  /\ At(p, "save")
  /\ made < MaxVersion
  /\ made' = made + 1 /\ tenant' = made + 1
  /\ Goto(p, "remember") /\ Take(p, made + 1)
  /\ UNCHANGED <<setting, cache, subs, app, req, known, history>>

Remember(p) ==
  /\ At(p, "remember")
  /\ cache' = [cache EXCEPT ![On(p)] = got[p]]
  /\ answered' = answered \cup {got[p]}
  /\ End(p)
  /\ UNCHANGED <<setting, tenant, made, subs, app, erased, missed, gone>>

\* a slip: a deletion does not look for subprojects
List_Nothing(p) ==
  /\ At(p, "list")
  /\ Go(p, "erase")
  /\ UNCHANGED <<setting, tenant, made, cache, subs, app, history>>

\* a tenant that has subprojects, where its version says, is not deleted
List(p) ==
  /\ At(p, "list")
  /\ IF \A s \in Sub : subs[Where(p)][s] = NoSub THEN Go(p, "erase") ELSE End(p)
  /\ UNCHANGED <<setting, tenant, made, cache, subs, app, history>>

\* TenantDAO.delete: the record under the name, whichever it is by now; when
\* there is none, the journals differ in whether the request is told
Erase(p) ==
  /\ At(p, "erase")
  /\ tenant' = None
  /\ erased' = erased \cup ({tenant} \ {None})
  /\ missed' = missed \cup {v \in {tenant} \ {None} : Home(v) # Where(p)}
  /\ \/ tenant = None /\ End(p)
     \/ Goto(p, "forget") /\ Take(p, tenant) /\ UNCHANGED <<req, known>>
  /\ UNCHANGED <<setting, made, cache, subs, app, answered, gone>>

\* is a call of instance i about to put version v into its memory?
AtHand(i, v) == \E q \in Proc : pc[q] \in {"keep", "remember"} /\ On(q) = i /\ got[q] = v

\* the deletion by p is over: its version is gone from the instance of p
Gone(p) == gone' = [gone EXCEPT ![On(p)] =
  @ \cup {v \in Version : v = got[p] /\ ~AtHand(On(p), v)}]

\* a slip: the memory is left alone
Forget_Nothing(p) ==
  /\ At(p, "forget")
  /\ Gone(p) /\ End(p)
  /\ UNCHANGED <<setting, tenant, made, cache, subs, app, answered, erased, missed>>

Forget(p) ==
  /\ At(p, "forget")
  /\ cache' = [cache EXCEPT ![On(p)] = None]
  /\ Gone(p) /\ End(p)
  /\ UNCHANGED <<setting, tenant, made, subs, app, answered, erased, missed>>

-----------------------------------------------------------------------------
(* Subprojects: the records that a deletion of the tenant looks for.       *)

FindSub(p) ==
  /\ At(p, "findSub")
  /\ LET found == subs[Where(p)][req[p].sub] # NoSub
     IN IF req[p].op = "createSub" THEN IF found THEN End(p) ELSE Go(p, "saveSub")
        ELSE IF found THEN Go(p, "dropSub") ELSE End(p)
  /\ UNCHANGED <<setting, tenant, made, cache, subs, app, history>>

\* is a subproject of version v too late for a deletion that looks where it is?
Late(v) == v \in erased \/ \E q \in Proc : At(q, "erase") /\ Where(q) = Home(v)

SaveSub(p) ==
  /\ At(p, "saveSub")
  /\ subs' = [subs EXCEPT ![Where(p)][req[p].sub] =
                 [of |-> got[p], late |-> Late(got[p])]]
  /\ End(p)
  /\ UNCHANGED <<setting, tenant, made, cache, app, history>>

DropSub(p) ==
  /\ At(p, "dropSub")
  /\ subs' = [subs EXCEPT ![Where(p)][req[p].sub] = NoSub]
  /\ End(p)
  /\ UNCHANGED <<setting, tenant, made, cache, app, history>>

-----------------------------------------------------------------------------
(* Service applications.                                                   *)

\* registerApp leaves an application that is there; registerAppTrusted needs one
FindApp(p) ==
  /\ At(p, "findApp")
  /\ IF (req[p].op = "register") = (app[Where(p)] = "none") THEN Go(p, "saveApp") ELSE End(p)
  /\ UNCHANGED <<setting, tenant, made, cache, subs, app, history>>

\* the record is written whole, and the answer follows
SaveApp(p) ==
  /\ At(p, "saveApp")
  /\ LET trust == req[p].op = "trust"
     IN /\ app' = [app EXCEPT ![Where(p)] = IF trust THEN "trusted" ELSE "plain"]
        /\ answered' = answered \cup IF trust THEN {Where(p)} ELSE {}
  /\ End(p)
  /\ UNCHANGED <<setting, tenant, made, cache, subs, erased, missed, gone>>

-----------------------------------------------------------------------------
Step(p) ==
  \/ Begin(p) \/ Refuse(p) \/ Look(p) \/ Read(p) \/ Keep(p)
  \/ Save(p) \/ Remember(p) \/ List(p) \/ Erase(p) \/ Forget(p)
  \/ FindSub(p) \/ SaveSub(p) \/ DropSub(p) \/ FindApp(p) \/ SaveApp(p)

Next == (\E p \in Proc : Step(p)) \/ (\E i \in Inst : Lapse(i))

Spec == Init /\ [][Next]_vars

-----------------------------------------------------------------------------
(* What should hold.                                                       *)

\* The memory of an instance: once the instance has deleted a tenant it does
\* not serve it again, unless a call of its own that had read the tenant
\* before was still to put it into the memory (TenantDAO.get and delete).
OwnDeletionSeen == \A i \in Inst : cache[i] \notin gone[i]

\* A tenant is deleted only when nothing is left in it (TenantHandler.delete), but
\* for two ways the code has to leave something: a subproject of a deleted tenant
\* was written after the deletion had looked for subprojects, or the deletion went
\* by a memory of an earlier tenant and looked in the project of that one.  Where
\* all creations name one project, only the first is left.
NothingAbandoned == \A j \in Project, s \in Sub :
  subs[j][s].of \in erased \ missed => subs[j][s].late

\* What was answered stands: a creation about to write does not replace a
\* tenant whose creation was answered before it began, and a registration
\* about to write does not take back a trust that was (TenantHandler.create,
\* AppHandler.registerApp).  Two that overlap may.
AnswersStand == \A p \in Proc :
  /\ At(p, "save") => tenant \notin known[p]
  /\ At(p, "saveApp") /\ req[p].op = "register" => Where(p) \notin known[p]

\* What these rest on.  Versions are made one after the other and never come
\* back; an application is never removed; and while a deletion is about to
\* erase, what subprojects there are came after its look.
Versions ==
  /\ tenant <= made /\ tenant \notin erased
  /\ \A v \in Version : v \in erased \/ v \in answered => v <= made
  /\ \A i \in Inst : cache[i] <= made /\ gone[i] \subseteq erased
  /\ \A p \in Proc : got[p] <= made
  /\ \A j \in Project, s \in Sub :
       /\ subs[j][s].of <= made
       /\ subs[j][s].of # None => Home(subs[j][s].of) = j

\* a request that is past its lookup has a version
Past == {"keep", "remember", "list", "erase", "findSub", "saveSub", "dropSub",
         "findApp", "saveApp"}

Hands == \A p \in Proc :
  /\ pc[p] \in {"keep", "remember"} => got[p] \notin gone[On(p)]
  /\ At(p, "forget") => got[p] \in erased \cup {None}
  /\ pc[p] \in Past => got[p] # None

Looked == \A p \in Proc, s \in Sub : At(p, "erase") =>
  subs[Where(p)][s] = NoSub \/ subs[Where(p)][s].late

Known ==
  /\ \A p \in Proc : known[p] \subseteq answered
  /\ \A j \in Project \cap answered : app[j] # "none"
  /\ \A p \in Proc : ~At(p, "idle") => req[p] \in Request

\* The inductive invariant of the module, of which these are parts.
IInv == TypeOK /\ Versions /\ Hands /\ Looked /\ Known
        /\ OwnDeletionSeen /\ NothingAbandoned /\ AnswersStand
=============================================================================
