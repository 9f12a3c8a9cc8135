-------------------------------- MODULE Access --------------------------------
(***************************************************************************)
(* Who may use a subproject or a dataset: the user requests of             *)
(* services/user/handler.ts, the calls they make to the entitlements       *)
(* service (dataecosystem/entitlement.ts), and the decisions of            *)
(* auth/auth.ts, which every instance remembers for a minute.              *)
(*                                                                         *)
(* A user has access through the groups of the access lists (ACL) of the   *)
(* resource.  An addition writes to all its groups at the same time, a     *)
(* removal to one after the other; a failure undoes nothing.               *)
(***************************************************************************)
EXTENDS Naturals, Sequences, FiniteSets, SequencesExt

CONSTANTS
  Proc,      \* requests that run at the same time
  Inst,      \* instances of the service, each with a cache
  User,
  Group,
  Default,   \* the groups named after the subproject
  Paged,     \* groups whose members do not fit into one page
  Settings,  \* the access lists, the users who are groups, what is called
  AuthTtl,   \* ticks a decision is remembered: 60 s
  Nil

Setting == [dataset : BOOLEAN,   \* is the resource a dataset or a subproject?
            admins  : Seq(Group), viewers : Seq(Group),  \* sorted
            nested  : SUBSET User,
            ops     : SUBSET {"add", "remove", "check"}]

ASSUME AccessAssumption ==
  /\ Default \cup Paged \subseteq Group
  /\ \A s \in Settings : s \in Setting /\ s.admins # <<>> /\ s.viewers # <<>>
  /\ AuthTtl \in Nat \ {0}
  /\ Nil \notin Group \cup User

VARIABLES
  member,   \* the role of each user in each group, or Nil
  cache,    \* the decisions each instance remembers
  pc,       \* the next await of each request
  req,      \* its operation, user and role (and instance)
  tasks,    \* the parallel calls of an addition, by group
  todo,     \* the groups a removal has yet to visit
  found,    \* what a removal, or a decision, has learnt
  saw,      \* history: what disturbed the request
  gone,     \* history: ticks since a user lost an access
  setting   \* the resource of this behaviour

call == <<pc, req, tasks, todo, found>>
vars == <<member, cache, call, saw, gone, setting>>

Role   == {"admin", "viewer"}    \* an editor is an admin
Access == User \X Role
Busy   == {"adding", "list", "choose", "delete", "ask", "keep"}
Label  == Busy \cup {"idle", "ok", "error", "granted", "refused"}
Request ==
  [op : {"add", "remove", "check"}, user : User, role : Role, inst : Inst]

\* nothing is neither a request nor the role of a member
ASSUME NilAssumption == Nil \notin Request \cup {"OWNER", "MEMBER"}

NoEntry == [value |-> FALSE, ttl |-> 0]

TypeOK ==
  /\ member \in [Group -> [User -> {"OWNER", "MEMBER", Nil}]]
  /\ cache \in [Inst -> [Access -> [value : BOOLEAN, ttl : 0 .. AuthTtl]]]
  /\ pc \in [Proc -> Label]
  /\ req \in [Proc -> Request \cup {Nil}]
  /\ tasks \in [Proc -> [Group -> {"none", "post", "list", "again", "relist"}]]
  /\ todo \in [Proc -> Seq(Group \cup {Nil})]
  /\ found \in [Proc -> {"none", "viewer", "admin", "yes"}]
  /\ saw \in [Proc -> SUBSET {"touched", "swallowed"}]
  /\ gone \in [Access -> 0 .. AuthTtl + 1]
  /\ setting \in Settings

Init ==
  /\ setting \in Settings
  /\ member = [g \in Group |-> [u \in User |-> Nil]]
  /\ cache = [i \in Inst |-> [a \in Access |-> NoEntry]]
  /\ pc = [p \in Proc |-> "idle"]
  /\ req = [p \in Proc |-> Nil]
  /\ tasks = [p \in Proc |-> [g \in Group |-> "none"]]
  /\ todo = [p \in Proc |-> <<>>]
  /\ found = [p \in Proc |-> "none"]
  /\ saw = [p \in Proc |-> {}]
  /\ gone = [a \in Access |-> AuthTtl + 1]

-----------------------------------------------------------------------------
(* Groups.                                                                 *)

\* SubprojectAuth.getAuthGroups, DatasetAuth.getAuthGroups
AuthGroups(role) == ToSet(setting.admins)
  \cup IF role = "viewer" THEN ToSet(setting.viewers) ELSE {}

HasAccess(u, role) == \E g \in AuthGroups(role) : member[g][u] # Nil

Defaults(list) == ToSet(list) \cap Default

\* the service groups, then the data groups, which Default does not tell apart:
\* in any order
InOrder(S) == Bijection(1 .. Cardinality(S), S)

\* an addition goes to every group of a dataset; of a subproject, to its
\* default groups, or else to the first group of the list
AddGroups(list) ==
  IF setting.dataset THEN ToSet(list)
  ELSE IF Defaults(list) # {} THEN Defaults(list) ELSE {Head(list)}

AddTo(role) == AddGroups(setting.viewers)
  \cup IF role = "admin" THEN AddGroups(setting.admins) ELSE {}

\* a removal goes to the first group the caller is in, if any, when a list
\* has no default group
RemoveFrom(list) == IF Defaults(list) # {} THEN InOrder(Defaults(list))
                    ELSE {<<g>> : g \in ToSet(list) \cup {Nil}}

\* the service performs a change on behalf of p
SetMember(p, g, r) ==
  LET u == req[p].user
  IN /\ member' = [member EXCEPT ![g][u] = r]
     /\ saw' = [q \in Proc |->
          IF q # p /\ req[q] # Nil /\ req[q].user = u /\ member[g][u] # r
          THEN saw[q] \cup {"touched"} ELSE saw[q]]
     /\ gone' = [a \in Access |->
          IF \E h \in AuthGroups(a[2]) : member'[h][a[1]] # Nil THEN 0 ELSE gone[a]]

Goto(p, l) == pc' = [pc EXCEPT ![p] = l]

Start(p, r, l) ==
  /\ pc[p] = "idle"
  /\ req' = [req EXCEPT ![p] = r]
  /\ Goto(p, l)
  /\ UNCHANGED <<member, saw, gone, setting>>

-----------------------------------------------------------------------------
(* Adding a user: a call for each group, at the same time.                 *)

AddUser(p) ==
  /\ "add" \in setting.ops
  /\ \E u \in User, role \in Role, i \in Inst :
       /\ Start(p, [op |-> "add", user |-> u, role |-> role, inst |-> i], "adding")
       /\ tasks' = [tasks EXCEPT ![p] =
            [g \in Group |-> IF g \in AddTo(role) THEN "post" ELSE "none"]]
  /\ UNCHANGED <<cache, todo, found>>

RoleOf(p) == IF req[p].role = "admin" THEN "OWNER" ELSE "MEMBER"

Then(p, g, step) ==
  /\ tasks' = [tasks EXCEPT ![p][g] = step]
  /\ UNCHANGED pc

\* the call for g has ended; the request ends with the first that fails, and
\* the others go on
Ended(p, g, fails) ==
  /\ tasks' = [tasks EXCEPT ![p][g] = "none"]
  /\ pc' = [pc EXCEPT ![p] =
       IF @ # "adding" THEN @
       ELSE IF fails THEN "error"
       ELSE IF \A h \in Group \ {g} : tasks[p][h] = "none" THEN "ok" ELSE @]

Quiet == UNCHANGED <<member, saw, gone>>

\* a slip: a refused owner is taken for a user who is there already
Post_NoRetry(p, g) ==
  LET u == req[p].user
  IN /\ tasks[p][g] = "post"
     /\ \/ /\ member[g][u] = Nil
           /\ RoleOf(p) = "OWNER" => u \notin setting.nested
           /\ SetMember(p, g, RoleOf(p))
           /\ \E lost \in BOOLEAN : Ended(p, g, lost)
        \/ /\ RoleOf(p) = "OWNER" /\ u \in setting.nested
           /\ Ended(p, g, FALSE) /\ Quiet
        \/ /\ member[g][u] # Nil
           /\ Then(p, g, "list") /\ Quiet
        \/ Ended(p, g, TRUE) /\ Quiet
     /\ UNCHANGED <<cache, req, todo, found, setting>>

\* the service refuses a group as an owner of another one, and says when the
\* user is in the group already; its answer may be lost
Post(p, g) ==
  LET u == req[p].user
  IN /\ tasks[p][g] = "post"
     /\ \/ /\ member[g][u] = Nil
           /\ RoleOf(p) = "OWNER" => u \notin setting.nested
           /\ SetMember(p, g, RoleOf(p))
           /\ \E lost \in BOOLEAN : Ended(p, g, lost)
        \/ /\ RoleOf(p) = "OWNER" /\ u \in setting.nested
           /\ Then(p, g, "again") /\ Quiet
        \/ /\ member[g][u] # Nil
           /\ Then(p, g, "list") /\ Quiet
        \/ Ended(p, g, TRUE) /\ Quiet
     /\ UNCHANGED <<cache, req, todo, found, setting>>

\* the second attempt, as a member; its refusal is not handled any more
Again(p, g) ==
  LET u == req[p].user
  IN /\ tasks[p][g] = "again"
     /\ \/ /\ member[g][u] = Nil
           /\ SetMember(p, g, "MEMBER")
           /\ \E lost \in BOOLEAN : Ended(p, g, lost)
        \/ /\ member[g][u] # Nil
           /\ Then(p, g, "relist") /\ Quiet
        \/ Ended(p, g, TRUE) /\ Quiet
     /\ UNCHANGED <<cache, req, todo, found, setting>>

\* which role has the user who is there?  A group of several pages is read
\* from its first page for ever.  Another role than the one asked for is an
\* error that addUserToGroups drops, but for a second attempt.
Members(p, g) ==
  LET u == req[p].user
  IN /\ tasks[p][g] \in {"list", "relist"}
     /\ g \notin Paged
     /\ \/ Ended(p, g, \/ member[g][u] = Nil
                       \/ tasks[p][g] = "relist" /\ member[g][u] # "MEMBER")
        \/ Ended(p, g, TRUE)
     /\ Quiet
     /\ UNCHANGED <<cache, req, todo, found, setting>>

\* one of the calls for the first page of a long list is rejected
PageFails(p, g) ==
  /\ tasks[p][g] \in {"list", "relist"} /\ g \in Paged
  /\ Ended(p, g, TRUE)
  /\ Quiet
  /\ UNCHANGED <<cache, req, todo, found, setting>>

-----------------------------------------------------------------------------
(* Removing a user: one group after the other.                             *)

\* the caller is an admin of the subproject, and not the user
RemoveUser(p) ==
  /\ "remove" \in setting.ops
  /\ \E u \in User, i \in Inst :
       Start(p, [op |-> "remove", user |-> u, role |-> "admin", inst |-> i],
             IF setting.dataset THEN "list" ELSE "choose")
  /\ todo' = [todo EXCEPT ![p] = IF setting.dataset
                                 THEN setting.admins \o setting.viewers ELSE <<>>]
  /\ UNCHANGED <<cache, tasks, found>>

\* the groups of a subproject: its default groups, or the caller's, if the
\* calls that read them succeed
Choose(p) ==
  /\ pc[p] = "choose"
  /\ \/ /\ \E a \in RemoveFrom(setting.admins), v \in RemoveFrom(setting.viewers) :
             todo' = [todo EXCEPT ![p] = a \o v]
        /\ Goto(p, "delete")
     \/ Goto(p, "error") /\ UNCHANGED todo
  /\ Quiet
  /\ UNCHANGED <<cache, req, tasks, found, setting>>

\* listUsersInAuthGroups: is the user on the first page of the group?
ListOne(p) ==
  LET g == Head(todo[p])
      u == req[p].user
      as == IF g \in ToSet(setting.admins) THEN "admin" ELSE "viewer"
  IN /\ pc[p] = "list" /\ todo[p] # <<>>
     /\ \/ /\ \E hit \in BOOLEAN :
                /\ hit => member[g][u] # Nil
                /\ g \notin Paged /\ member[g][u] # Nil => hit
                /\ found' = [found EXCEPT ![p] =
                     IF ~hit \/ @ = "admin" THEN @ ELSE as]
           /\ todo' = [todo EXCEPT ![p] = Tail(@)]
           /\ UNCHANGED pc
        \/ Goto(p, "error") /\ UNCHANGED <<todo, found>>
     /\ Quiet
     /\ UNCHANGED <<cache, req, tasks, setting>>

\* findAndRemoveUserFromDataset
Listed(p) ==
  /\ pc[p] = "list" /\ todo[p] = <<>>
  /\ todo' = [todo EXCEPT ![p] =
       CASE found[p] = "admin"  -> setting.admins \o setting.viewers
         [] found[p] = "viewer" -> setting.viewers
         [] OTHER -> <<>>]
  /\ Goto(p, "delete")
  /\ Quiet
  /\ UNCHANGED <<cache, req, tasks, found, setting>>

Visited(p) == todo' = [todo EXCEPT ![p] = Tail(@)] /\ UNCHANGED pc

\* the calls are made one after the other; doNotThrowIfNotMember lets every
\* answer pass, whatever the error: only a call without an answer ends it
Delete(p) ==
  LET g == Head(todo[p])
  IN /\ pc[p] = "delete" /\ todo[p] # <<>>
     /\ \/ /\ g # Nil
           /\ SetMember(p, g, Nil)
           /\ Visited(p) \/ (Goto(p, "error") /\ UNCHANGED todo)
        \/ /\ saw' = IF g = Nil THEN saw
                     ELSE [saw EXCEPT ![p] = @ \cup {"swallowed"}]
           /\ Visited(p)
           /\ UNCHANGED <<member, gone>>
        \/ Goto(p, "error") /\ UNCHANGED todo /\ Quiet
     /\ UNCHANGED <<cache, req, tasks, found, setting>>

Removed(p) ==
  /\ pc[p] = "delete" /\ todo[p] = <<>>
  /\ Goto(p, "ok")
  /\ Quiet
  /\ UNCHANGED <<cache, req, tasks, todo, found, setting>>

-----------------------------------------------------------------------------
(* Authorization.                                                          *)

Key(p) == <<req[p].user, req[p].role>>

\* a slip: decisions against the user are returned, too
Known_Both(e) == e.ttl > 0

\* what the cache returns: a decision against the user counts as none
Known(e) == e.ttl > 0 /\ e.value

Answer(granted) == IF granted THEN "granted" ELSE "refused"

\* Auth.isUserAuthorized
Check(p) ==
  /\ "check" \in setting.ops
  /\ \E u \in User, role \in Role, i \in Inst :
       LET e == cache[i][<<u, role>>]
       IN Start(p, [op |-> "check", user |-> u, role |-> role, inst |-> i],
                IF Known(e) THEN Answer(e.value) ELSE "ask")
  /\ UNCHANGED <<cache, tasks, todo, found>>

\* isMemberOfAtLeastOneGroup
Ask(p) ==
  /\ pc[p] = "ask"
  /\ \/ /\ found' = [found EXCEPT ![p] =
             IF HasAccess(req[p].user, req[p].role) THEN "yes" ELSE "none"]
        /\ Goto(p, "keep")
     \/ Goto(p, "error") /\ UNCHANGED found
  /\ Quiet
  /\ UNCHANGED <<cache, req, tasks, todo, setting>>

Keep(p) ==
  /\ pc[p] = "keep"
  /\ cache' = [cache EXCEPT ![req[p].inst][Key(p)] =
       [value |-> found[p] = "yes", ttl |-> AuthTtl]]
  /\ Goto(p, Answer(found[p] = "yes"))
  /\ Quiet
  /\ UNCHANGED <<req, tasks, todo, found, setting>>

\* the answer has been sent, and no call of the request is left
End(p) ==
  /\ pc[p] \in Label \ (Busy \cup {"idle"})
  /\ \A g \in Group : tasks[p][g] = "none"
  /\ Goto(p, "idle")
  /\ req' = [req EXCEPT ![p] = Nil]
  /\ todo' = [todo EXCEPT ![p] = <<>>]
  /\ found' = [found EXCEPT ![p] = "none"]
  /\ saw' = [saw EXCEPT ![p] = {}]
  /\ UNCHANGED <<member, cache, tasks, gone, setting>>

Older(e) == IF e.ttl <= 1 THEN NoEntry ELSE [e EXCEPT !.ttl = @ - 1]

\* a slip: the memory of a decision does not wear off while it is in use
Tick_Sliding ==
  /\ \A p \in Proc : pc[p] # "keep"
  /\ cache' = [i \in Inst |-> [a \in Access |->
       IF \E p \in Proc : pc[p] = "granted" /\ Key(p) = a /\ req[p].inst = i
       THEN cache[i][a] ELSE Older(cache[i][a])]]
  /\ gone' = [a \in Access |->
       IF HasAccess(a[1], a[2]) \/ gone[a] > AuthTtl THEN gone[a] ELSE gone[a] + 1]
  /\ UNCHANGED <<member, call, saw, setting>>

\* time passes: an answer of the service is taken up within a tick
Tick ==
  /\ "check" \in setting.ops
  /\ \A p \in Proc : pc[p] # "keep"
  /\ cache' = [i \in Inst |-> [a \in Access |-> Older(cache[i][a])]]
  /\ gone' = [a \in Access |->
       IF HasAccess(a[1], a[2]) \/ gone[a] > AuthTtl THEN gone[a] ELSE gone[a] + 1]
  /\ UNCHANGED <<member, call, saw, setting>>

TaskStep(p) == \E g \in Group : Post(p, g) \/ Again(p, g) \/ Members(p, g)

CallStep(p) == \/ Choose(p) \/ ListOne(p) \/ Listed(p) \/ Delete(p) \/ Removed(p)
               \/ Ask(p) \/ Keep(p) \/ End(p)

Next ==
  \/ \E p \in Proc : \/ AddUser(p) \/ RemoveUser(p) \/ Check(p)
                     \/ TaskStep(p) \/ CallStep(p)
                     \/ \E g \in Group : PageFails(p, g)
  \/ Tick

Spec == Init /\ [][Next]_vars

-----------------------------------------------------------------------------
(* Properties.                                                             *)

Undisturbed(p) == "touched" \notin saw[p]

\* in each of the groups an addition is meant for
AddedIsIn ==
  \A p \in Proc : pc[p] = "ok" /\ req[p].op = "add" /\ Undisturbed(p) =>
    \A g \in AddTo(req[p].role) : member[g][req[p].user] # Nil

\* lists that fit into a page and need no choice of a group (196 and 284 choose
\* differently)
Plain(list) == /\ ToSet(list) \cap Paged = {}
               /\ setting.dataset \/ Defaults(list) # {}

\* in none of the groups an addition might have used
RemovedIsOut ==
  \A p \in Proc :
    /\ pc[p] = "ok" /\ req[p].op = "remove" /\ saw[p] = {}
    /\ Plain(setting.admins) /\ Plain(setting.viewers)
    => \A g \in AddTo("admin") : member[g][req[p].user] = Nil

\* An addition that is answered with success has put the user into each of its
\* groups, although the calls run at the same time, may find the user there, or
\* may have to be repeated with another role (user/handler.ts:62-83).  A removal
\* that is answered with success has removed the user from all the groups an
\* addition might have used (265-298, 306-347), unless a call was refused (513
\* drops that answer).
AnswersHold == TypeOK /\ AddedIsIn /\ RemovedIsOut

\* Nobody is let in by a decision that has been outdated for longer than a
\* decision is remembered (auth.ts:98-110).
LossTakesEffect ==
  [][\A p \in Proc : pc[p] # "granted" /\ pc'[p] = "granted" =>
       gone[Key(p)'] <= AuthTtl]_vars

\* A user who has been added is let in at once: nobody is turned away because
\* of an earlier decision (auth.ts:106-107, node-cache.ts:33-36).
NewcomerEnters ==
  \A p \in Proc : pc[p] = "refused" /\ Undisturbed(p) =>
    ~HasAccess(req[p].user, req[p].role)

-----------------------------------------------------------------------------
(* What these rest on.                                                     *)

\* the operation of a request, and where it can be
Standing(p) ==
  /\ req[p] = Nil <=> pc[p] = "idle"
  /\ req[p] # Nil =>
       \/ req[p].op = "add" /\ pc[p] \in {"adding", "ok", "error"}
       \/ req[p].op = "remove" /\ pc[p] \in {"list", "choose", "delete", "ok", "error"}
       \/ req[p].op = "check" /\ pc[p] \in {"ask", "keep", "granted", "refused", "error"}
  /\ req[p] = Nil \/ req[p].op # "add" \/ pc[p] = "ok" =>
       \A g \in Group : tasks[p][g] = "none"
  /\ pc[p] \in {"idle", "ask"} => found[p] = "none"
  /\ pc[p] = "keep" => found[p] \in {"none", "yes"}

\* the calls of an addition that are over have succeeded
Adding(p) ==
  req[p] # Nil /\ req[p].op = "add" /\ Undisturbed(p) /\ pc[p] \in {"adding", "ok"} =>
    \A g \in AddTo(req[p].role) : tasks[p][g] # "none" \/ member[g][req[p].user] # Nil

\* the user is out of the groups a removal has been to, or it knows better
Removing(p) ==
  req[p] # Nil /\ req[p].op = "remove" /\ saw[p] = {}
  /\ Plain(setting.admins) /\ Plain(setting.viewers) =>
    /\ pc[p] = "choose" => ~setting.dataset
    /\ pc[p] = "list" => setting.dataset
    /\ pc[p] = "list" =>
         \A g \in ToSet(setting.admins) \cup ToSet(setting.viewers) :
           \/ g \in ToSet(todo[p]) \/ member[g][req[p].user] = Nil
           \/ found[p] = "admin" \/ (found[p] = "viewer" /\ g \notin ToSet(setting.admins))
    /\ pc[p] = "delete" =>
         \A g \in AddTo("admin") : g \in ToSet(todo[p]) \/ member[g][req[p].user] = Nil
    /\ pc[p] = "ok" => \A g \in AddTo("admin") : member[g][req[p].user] = Nil

\* a decision against the user is fresh, and so is one for the user
Asking(p) ==
  /\ pc[p] = "refused" \/ (pc[p] = "keep" /\ found[p] = "none") =>
       (Undisturbed(p) => ~HasAccess(req[p].user, req[p].role))
  /\ pc[p] = "keep" /\ found[p] = "yes" => gone[Key(p)] = 0

\* a decision for a user is forgotten in time
Remembered ==
  \A i \in Inst, a \in Access : Known(cache[i][a]) => gone[a] + cache[i][a].ttl <= AuthTtl

Counted == \A a \in Access : HasAccess(a[1], a[2]) => gone[a] = 0

IInv == /\ TypeOK /\ Remembered /\ Counted
        /\ \A p \in Proc : Standing(p) /\ Adding(p) /\ Removing(p) /\ Asking(p)
=============================================================================
