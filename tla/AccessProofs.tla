---------------------------- MODULE AccessProofs ----------------------------
(***************************************************************************)
(* Theorems about Access, for any number of requests, instances, users and *)
(* groups, whatever the access lists are.                                  *)
(***************************************************************************)
EXTENDS Access, FiniteSetTheorems, TLAPS

-----------------------------------------------------------------------------
(* Lists of groups.                                                        *)

LEMMA SetOfConcat ==
  ASSUME NEW S, NEW a \in Seq(S), NEW b \in Seq(S)
  PROVE  a \o b \in Seq(S) /\ ToSet(a \o b) = ToSet(a) \cup ToSet(b)
  <1>1. \A i \in DOMAIN a : (a \o b)[i] = a[i] /\ i \in DOMAIN (a \o b)
    OBVIOUS
  <1>2. \A i \in DOMAIN b : (a \o b)[i + Len(a)] = b[i] /\ i + Len(a) \in DOMAIN (a \o b)
    OBVIOUS
  <1>3. ASSUME NEW i \in DOMAIN (a \o b), i \notin DOMAIN a
        PROVE  i - Len(a) \in DOMAIN b /\ (a \o b)[i] = b[i - Len(a)]
    <2>1. i \in 1 .. Len(a) + Len(b) /\ ~(i \in 1 .. Len(a))
          /\ Len(a) \in Nat /\ Len(b) \in Nat
      BY <1>3
    <2>2. i - Len(a) \in 1 .. Len(b)
      BY <2>1
    <2>3. QED
      BY <2>1, <2>2
  <1>4. \A i \in DOMAIN (a \o b) : \/ i \in DOMAIN a /\ (a \o b)[i] = a[i]
                                  \/ \E j \in DOMAIN b : (a \o b)[i] = b[j]
    BY <1>1, <1>3
  <1>5. a \o b \in Seq(S)
    OBVIOUS
  <1>6. \A i \in DOMAIN b : \E j \in DOMAIN (a \o b) : (a \o b)[j] = b[i]
    BY <1>2
  <1>7. ToSet(a \o b) \subseteq ToSet(a) \cup ToSet(b)
    BY <1>4 DEF ToSet
  <1>8. ToSet(a) \subseteq ToSet(a \o b)
    BY <1>1 DEF ToSet
  <1>9. ToSet(b) \subseteq ToSet(a \o b)
    BY <1>6 DEF ToSet
  <1>10. QED
    BY <1>5, <1>7, <1>8, <1>9

LEMMA SetOfTail ==
  ASSUME NEW S, NEW s \in Seq(S), s # <<>>
  PROVE  /\ Head(s) \in S /\ Tail(s) \in Seq(S)
         /\ ToSet(s) = {Head(s)} \cup ToSet(Tail(s))
  <1>1. \A i \in DOMAIN Tail(s) : i + 1 \in DOMAIN s /\ Tail(s)[i] = s[i + 1]
    OBVIOUS
  <1>2. 1 \in DOMAIN s /\ Head(s) = s[1] /\ Head(s) \in S /\ Tail(s) \in Seq(S)
    OBVIOUS
  <1>3. ASSUME NEW i \in DOMAIN s, i # 1
        PROVE  i - 1 \in DOMAIN Tail(s) /\ s[i] = Tail(s)[i - 1]
    <2>1. i \in 1 .. Len(s) /\ Len(Tail(s)) = Len(s) - 1 /\ Len(s) \in Nat
      BY <1>3
    <2>2. i - 1 \in 1 .. Len(Tail(s))
      BY <1>3, <2>1
    <2>3. QED
      BY <2>1, <2>2
  <1>4. \A i \in DOMAIN s : s[i] = Head(s) \/ \E j \in DOMAIN Tail(s) : s[i] = Tail(s)[j]
    BY <1>2, <1>3
  <1>5. \A i \in DOMAIN Tail(s) : \E j \in DOMAIN s : s[j] = Tail(s)[i]
    BY <1>1
  <1>6. ToSet(s) \subseteq {Head(s)} \cup ToSet(Tail(s))
    BY <1>4 DEF ToSet
  <1>7. ToSet(Tail(s)) \subseteq ToSet(s)
    BY <1>5 DEF ToSet
  <1>8. Head(s) \in ToSet(s)
    BY <1>2 DEF ToSet
  <1>9. QED
    BY <1>2, <1>6, <1>7, <1>8

LEMMA SetOfSeq == ASSUME NEW S, NEW s \in Seq(S) PROVE ToSet(s) \subseteq S
  BY DEF ToSet

LEMMA SetOfNone == ToSet(<<>>) = {}
  BY DEF ToSet

LEMMA SetOfOne == ASSUME NEW g PROVE <<g>> \in Seq({g}) /\ ToSet(<<g>>) = {g}
  BY DEF ToSet

LEMMA SetIsFinite == ASSUME NEW S, NEW s \in Seq(S) PROVE IsFiniteSet(ToSet(s))
  <1>1. s \in [1 .. Len(s) -> ToSet(s)] /\ Len(s) \in Nat
    BY DEF ToSet
  <1>2. \A t \in ToSet(s) : \E n \in 1 .. Len(s) : s[n] = t
    BY DEF ToSet
  <1>3. s \in Surjection(1 .. Len(s), ToSet(s))
    BY <1>1, <1>2 DEF Surjection
  <1>4. IsFiniteSet(1 .. Len(s))
    BY <1>1, FS_Interval
  <1>5. QED
    BY <1>3, <1>4, FS_Surjection

\* A set in some order has its elements.
LEMMA SetInOrder ==
  ASSUME NEW S, IsFiniteSet(S), NEW s \in InOrder(S) PROVE s \in Seq(S) /\ ToSet(s) = S
  <1>1. /\ s \in [1 .. Cardinality(S) -> S]
        /\ \A t \in S : \E n \in 1 .. Cardinality(S) : s[n] = t
    BY DEF InOrder, Bijection, Surjection
  <1>2. DOMAIN s = 1 .. Cardinality(S) /\ ToSet(s) = S
    BY <1>1 DEF ToSet
  <1>3. Cardinality(S) \in Nat
    BY FS_CardinalityType
  <1>4. QED
    BY <1>1, <1>2, <1>3

\* What the access lists are made of.
LEMMA Lists ==
  ASSUME TypeOK
  PROVE  /\ setting \in Setting
         /\ setting.admins \in Seq(Group) /\ setting.admins # <<>>
         /\ setting.viewers \in Seq(Group) /\ setting.viewers # <<>>
         /\ ToSet(setting.admins) \subseteq Group /\ ToSet(setting.viewers) \subseteq Group
         /\ \A role \in Role : AuthGroups(role) \subseteq Group /\ AddTo(role) \subseteq Group
  <1>1. /\ setting \in Setting
        /\ setting.admins \in Seq(Group) /\ setting.admins # <<>>
        /\ setting.viewers \in Seq(Group) /\ setting.viewers # <<>>
    BY AccessAssumption DEF TypeOK, Setting
  <1>2. ToSet(setting.admins) \subseteq Group /\ ToSet(setting.viewers) \subseteq Group
        /\ Head(setting.admins) \in Group /\ Head(setting.viewers) \in Group
    BY <1>1, SetOfSeq, SetOfTail
  <1>3. QED
    BY <1>1, <1>2 DEF AuthGroups, AddTo, AddGroups, Defaults

\* Where a removal has to go.
LEMMA PlainAddTo ==
  ASSUME TypeOK, Plain(setting.admins), Plain(setting.viewers)
  PROVE  AddTo("admin") = IF setting.dataset
                          THEN ToSet(setting.admins) \cup ToSet(setting.viewers)
                          ELSE Defaults(setting.admins) \cup Defaults(setting.viewers)
  BY DEF Plain, AddTo, AddGroups

\* The groups a removal chooses for a list with default groups, or without.
LEMMA Chosen ==
  ASSUME TypeOK, NEW a \in RemoveFrom(setting.admins), NEW v \in RemoveFrom(setting.viewers)
  PROVE  /\ a \o v \in Seq(Group \cup {Nil}) /\ ToSet(a \o v) = ToSet(a) \cup ToSet(v)
         /\ Plain(setting.admins) /\ ~setting.dataset => ToSet(a) = Defaults(setting.admins)
         /\ Plain(setting.viewers) /\ ~setting.dataset => ToSet(v) = Defaults(setting.viewers)
  <1>1. ASSUME NEW list \in Seq(Group), NEW s \in RemoveFrom(list)
        PROVE  /\ s \in Seq(Group \cup {Nil})
               /\ (Defaults(list) # {} => ToSet(s) = Defaults(list))
    <2>1. Defaults(list) \subseteq Group \cup {Nil}
      BY SetOfSeq DEF Defaults
    <2>2. CASE Defaults(list) # {}
      <3>1. IsFiniteSet(Defaults(list))
        BY SetIsFinite, FS_Intersection DEF Defaults
      <3>2. s \in Seq(Defaults(list)) /\ ToSet(s) = Defaults(list)
        BY <1>1, <2>2, <3>1, SetInOrder DEF RemoveFrom
      <3>3. QED
        BY <2>1, <3>2
    <2>3. CASE Defaults(list) = {}
      <3>1. PICK g \in Group \cup {Nil} : s = <<g>>
        BY <1>1, <2>3, SetOfSeq DEF RemoveFrom
      <3>2. QED
        BY <2>3, <3>1
    <2>4. QED
      BY <2>2, <2>3
  <1>2. a \in Seq(Group \cup {Nil}) /\ v \in Seq(Group \cup {Nil})
    BY <1>1, Lists
  <1>3. QED
    BY <1>1, <1>2, Lists, SetOfConcat DEF Plain

-----------------------------------------------------------------------------
(* What a step does to the other requests and to the memories.             *)

MemberRole == {"OWNER", "MEMBER", Nil}

\* A change of a group touches whoever asks about the same user.
LEMMA SetMemberDoes ==
  ASSUME TypeOK, NEW p \in Proc, req[p] # Nil, NEW g \in Group, NEW r \in MemberRole,
         SetMember(p, g, r)
  PROVE  /\ member' \in [Group -> [User -> MemberRole]]
         /\ saw' \in [Proc -> SUBSET {"touched", "swallowed"}]
         /\ gone' \in [Access -> 0 .. AuthTtl + 1]
         /\ saw'[p] = saw[p]
         /\ \A h \in Group, u \in User :
              member'[h][u] = IF h = g /\ u = req[p].user THEN r ELSE member[h][u]
         /\ \A q \in Proc \ {p} :
              /\ saw[q] \subseteq saw'[q]
              /\ req[q] # Nil /\ "touched" \notin saw'[q] =>
                   \A h \in Group : member'[h][req[q].user] = member[h][req[q].user]
         /\ \A a \in Access : gone'[a] = 0
              \/ (gone'[a] = gone[a] /\ \A h \in AuthGroups(a[2]) : member'[h][a[1]] = Nil)
  <1>1. req[p] \in Request /\ req[p].user \in User
    BY DEF TypeOK, Request
  <1>2. member' = [member EXCEPT ![g][req[p].user] = r]
    BY DEF SetMember
  <1>3. member' \in [Group -> [User -> MemberRole]]
    BY <1>1, <1>2 DEF TypeOK, MemberRole
  <1>4. \A h \in Group, u \in User :
          member'[h][u] = IF h = g /\ u = req[p].user THEN r ELSE member[h][u]
    BY <1>1, <1>2 DEF TypeOK
  <1>5. \A q \in Proc : saw'[q] = IF q # p /\ req[q] # Nil /\ req[q].user = req[p].user
                                     /\ member[g][req[p].user] # r
                                  THEN saw[q] \cup {"touched"} ELSE saw[q]
    BY DEF SetMember
  <1>6. saw' \in [Proc -> SUBSET {"touched", "swallowed"}]
    <2>1. \A q \in Proc : saw'[q] \in SUBSET {"touched", "swallowed"}
      BY <1>5 DEF TypeOK
    <2>2. QED
      BY <2>1 DEF SetMember
  <1>7. ASSUME NEW q \in Proc \ {p}, req[q] # Nil, "touched" \notin saw'[q], NEW h \in Group
        PROVE  member'[h][req[q].user] = member[h][req[q].user]
    <2>1. req[q].user \in User
      BY <1>7 DEF TypeOK, Request
    <2>2. ~(req[q].user = req[p].user /\ member[g][req[p].user] # r)
      BY <1>5, <1>7
    <2>3. QED
      BY <1>4, <2>1, <2>2
  <1>8. \A a \in Access : gone'[a] =
          IF \E h \in AuthGroups(a[2]) : member'[h][a[1]] # Nil THEN 0 ELSE gone[a]
    BY DEF SetMember
  <1>9. gone' \in [Access -> 0 .. AuthTtl + 1]
    <2>1. 0 \in 0 .. AuthTtl + 1
      BY AccessAssumption
    <2>2. \A a \in Access : gone'[a] \in 0 .. AuthTtl + 1
      BY <1>8, <2>1 DEF TypeOK
    <2>3. QED
      BY <2>2 DEF SetMember
  <1>10. QED
    <2>1. saw'[p] = saw[p] /\ \A q \in Proc \ {p} : saw[q] \subseteq saw'[q]
      BY <1>5
    <2>2. \A a \in Access : gone'[a] = 0
            \/ (gone'[a] = gone[a] /\ \A h \in AuthGroups(a[2]) : member'[h][a[1]] = Nil)
      <3> TAKE a \in Access
      <3>1. CASE \E h \in AuthGroups(a[2]) : member'[h][a[1]] # Nil
        BY <1>8, <3>1
      <3>2. CASE \A h \in AuthGroups(a[2]) : member'[h][a[1]] = Nil
        BY <1>8, <3>2
      <3>3. QED
        BY <3>1, <3>2
    <2>3. QED
      BY <1>3, <1>4, <1>6, <1>7, <1>9, <2>1, <2>2

\* a step of p leaves the others where they are, and tells them what it changes
OthersStay(p) ==
  \A q \in Proc \ {p} :
    /\ pc'[q] = pc[q] /\ req'[q] = req[q] /\ tasks'[q] = tasks[q]
    /\ todo'[q] = todo[q] /\ found'[q] = found[q] /\ saw[q] \subseteq saw'[q]
    /\ req[q] # Nil /\ "touched" \notin saw'[q] =>
         \A h \in Group : member'[h][req[q].user] = member[h][req[q].user]

\* ... and the count since a loss starts anew with every access
CountsOn ==
  \A a \in Access : gone'[a] = 0
    \/ (gone'[a] = gone[a] /\ \A h \in AuthGroups(a[2]) : member'[h][a[1]] = Nil)

Stands(p) == Standing(p) /\ Adding(p) /\ Removing(p) /\ Asking(p)

LEMMA OthersStand ==
  ASSUME IInv, NEW p \in Proc, OthersStay(p), setting' = setting, gone' = gone \/ CountsOn,
         NEW q \in Proc \ {p}
  PROVE  Stands(q)'
  <1>1. Standing(q)'
    BY DEF IInv, Standing, OthersStay
  <1>2. CASE req[q] = Nil
    <2>1. pc[q] = "idle" /\ pc'[q] = "idle" /\ req'[q] = Nil
      BY <1>2 DEF IInv, Standing, OthersStay
    <2>2. QED
      BY <1>1, <2>1 DEF Stands, Adding, Removing, Asking
  <1>3. CASE req[q] # Nil
    <2>1. req[q] \in Request /\ req[q].user \in User /\ req[q].role \in Role
          /\ Key(q) \in Access
      BY <1>3 DEF IInv, TypeOK, Request, Key, Access, Role
    <2>2. AddTo("admin") \subseteq Group /\ AddTo(req[q].role) \subseteq Group
          /\ AuthGroups(req[q].role) \subseteq Group
          /\ ToSet(setting.admins) \subseteq Group /\ ToSet(setting.viewers) \subseteq Group
      BY <2>1, Lists DEF IInv, Role
    <2>3. ASSUME "touched" \notin saw'[q]
          PROVE  \A h \in Group : member'[h][req[q].user] = member[h][req[q].user]
      BY <1>3, <2>3 DEF OthersStay
    <2>4. /\ pc'[q] = pc[q] /\ req'[q] = req[q] /\ tasks'[q] = tasks[q]
          /\ todo'[q] = todo[q] /\ found'[q] = found[q] /\ saw[q] \subseteq saw'[q]
      BY DEF OthersStay
    <2>5. \A role : AddTo(role)' = AddTo(role) /\ AuthGroups(role)' = AuthGroups(role)
      BY DEF AddTo, AddGroups, Defaults, AuthGroups
    <2>6. Adding(q)'
      BY <2>2, <2>3, <2>4, <2>5 DEF IInv, Adding, Undisturbed
    <2>7. Removing(q)'
      <3>1. SUFFICES ASSUME req[q].op = "remove", saw'[q] = {},
                            Plain(setting.admins), Plain(setting.viewers)
                     PROVE  Removing(q)'
        BY <2>4 DEF Removing, Plain, Defaults
      <3>2. saw[q] = {}
        BY <2>4, <3>1
      <3>3. \A h \in Group : member'[h][req[q].user] = member[h][req[q].user]
        BY <2>3, <3>1
      <3>4. QED
        BY <1>3, <2>2, <2>4, <2>5, <3>1, <3>2, <3>3 DEF IInv, Removing
    <2>8. Asking(q)'
      <3>1. ASSUME "touched" \notin saw'[q]
            PROVE  HasAccess(req[q].user, req[q].role)' => HasAccess(req[q].user, req[q].role)
        BY <2>2, <2>3, <2>5, <3>1, <2>4 DEF HasAccess
      <3>2. gone[Key(q)] = 0 => gone'[Key(q)] = 0
        BY <2>1 DEF CountsOn
      <3>3. Key(q)' = Key(q)
        BY <2>4 DEF Key
      <3>4. QED
        BY <2>4, <3>1, <3>2, <3>3 DEF IInv, Asking, Undisturbed
    <2>9. QED
      BY <1>1, <2>6, <2>7, <2>8 DEF Stands
  <1>4. QED
    BY <1>2, <1>3

LEMMA MemoriesStay ==
  ASSUME IInv, cache' = cache, setting' = setting, CountsOn, gone' \in [Access -> Nat]
  PROVE  Remembered' /\ Counted'
  <1>1. Remembered'
    <2> SUFFICES ASSUME NEW i \in Inst, NEW a \in Access, Known(cache[i][a])
                 PROVE  gone'[a] + cache[i][a].ttl <= AuthTtl
      BY DEF Remembered, Known
    <2>1. gone[a] + cache[i][a].ttl <= AuthTtl /\ cache[i][a].ttl \in 0 .. AuthTtl
          /\ gone[a] \in 0 .. AuthTtl + 1
      BY DEF IInv, Remembered, TypeOK
    <2>2. gone'[a] = 0 \/ gone'[a] = gone[a]
      BY DEF CountsOn
    <2>3. QED
      BY <2>1, <2>2, AccessAssumption
  <1>2. Counted'
    <2> SUFFICES ASSUME NEW a \in Access, HasAccess(a[1], a[2])' PROVE gone'[a] = 0
      BY DEF Counted
    <2>1. \E h \in AuthGroups(a[2]) : member'[h][a[1]] # Nil
      BY DEF HasAccess, AuthGroups
    <2>2. QED
      BY <2>1 DEF CountsOn
  <1>3. QED
    BY <1>1, <1>2

\* Nothing changes but the request itself.
LEMMA QuietMemories ==
  ASSUME IInv, UNCHANGED <<member, saw, gone, cache, setting>>
  PROVE  Remembered' /\ Counted' /\ CountsOn
  <1>1. CountsOn
    <2> SUFFICES ASSUME NEW a \in Access
                 PROVE  gone'[a] = 0 \/ (gone'[a] = gone[a]
                          /\ \A h \in AuthGroups(a[2]) : member'[h][a[1]] = Nil)
      BY DEF CountsOn
    <2>1. HasAccess(a[1], a[2]) => gone[a] = 0
      BY DEF IInv, Counted
    <2>2. QED
      BY <2>1 DEF HasAccess
  <1>2. gone' \in [Access -> Nat]
    BY AccessAssumption DEF IInv, TypeOK
  <1>3. QED
    BY <1>1, <1>2, MemoriesStay

LEMMA StepKeeps ==
  ASSUME IInv, NEW p \in Proc, OthersStay(p), setting' = setting, gone' = gone \/ CountsOn,
         TypeOK', Remembered', Counted', Stands(p)'
  PROVE  IInv'
  <1>1. \A q \in Proc : Stands(q)'
    BY OthersStand
  <1>2. QED
    BY <1>1 DEF IInv, Stands

-----------------------------------------------------------------------------
(* Additions.                                                              *)

\* A request of any kind begins.
LEMMA StartKeeps ==
  ASSUME IInv, NEW p \in Proc, NEW r \in Request, NEW l, Start(p, r, l),
         cache' = cache
  PROVE  /\ Remembered' /\ Counted' /\ CountsOn /\ setting' = setting
         /\ req'[p] = r /\ pc'[p] = l /\ r # Nil
         /\ found[p] = "none" /\ \A g \in Group : tasks[p][g] = "none"
         /\ (l \in Label => pc' \in [Proc -> Label]) /\ req' \in [Proc -> Request \cup {Nil}]
         /\ \A q \in Proc \ {p} : pc'[q] = pc[q] /\ req'[q] = req[q] /\ saw'[q] = saw[q]
  <1>1. UNCHANGED <<member, saw, gone, setting>> /\ req' = [req EXCEPT ![p] = r]
        /\ pc' = [pc EXCEPT ![p] = l] /\ pc[p] = "idle"
    BY DEF Start, Goto
  <1>2. Remembered' /\ Counted' /\ CountsOn
    BY <1>1, QuietMemories
  <1>3. req[p] = Nil /\ found[p] = "none" /\ \A g \in Group : tasks[p][g] = "none"
    BY <1>1 DEF IInv, Standing
  <1>4. QED
    BY <1>1, <1>2, <1>3, NilAssumption DEF IInv, TypeOK

LEMMA AddUserKeeps ==
  ASSUME IInv, NEW p \in Proc, AddUser(p) PROVE IInv'
  <1>1. PICK u \in User, role \in Role, i \in Inst :
          /\ Start(p, [op |-> "add", user |-> u, role |-> role, inst |-> i], "adding")
          /\ tasks' = [tasks EXCEPT ![p] =
               [g \in Group |-> IF g \in AddTo(role) THEN "post" ELSE "none"]]
    BY DEF AddUser
  <1> DEFINE r == [op |-> "add", user |-> u, role |-> role, inst |-> i]
  <1>2. r \in Request /\ r.op = "add" /\ r.role = role
    BY DEF Request
  <1> HIDE DEF r
  <1>3. Start(p, r, "adding") /\ UNCHANGED <<cache, todo, found>>
    BY <1>1 DEF r, AddUser
  <1>4. /\ Remembered' /\ Counted' /\ CountsOn /\ setting' = setting
        /\ req'[p] = r /\ pc'[p] = "adding" /\ r # Nil
        /\ pc' \in [Proc -> Label] /\ req' \in [Proc -> Request \cup {Nil}]
        /\ \A q \in Proc \ {p} : pc'[q] = pc[q] /\ req'[q] = req[q] /\ saw'[q] = saw[q]
    BY <1>2, <1>3, StartKeeps DEF Label, Busy
  <1>5. /\ tasks' \in [Proc -> [Group -> {"none", "post", "list", "again", "relist"}]]
        /\ \A q \in Proc \ {p} : tasks'[q] = tasks[q]
        /\ \A g \in AddTo(role) : g \in Group => tasks'[p][g] = "post"
    BY <1>1 DEF IInv, TypeOK
  <1>6. OthersStay(p)
    BY <1>3, <1>4, <1>5 DEF OthersStay, Start
  <1>7. TypeOK'
    BY <1>3, <1>4, <1>5 DEF IInv, TypeOK, Start
  <1>8. AddTo(role)' = AddTo(role) /\ AddTo(role) \subseteq Group
    BY <1>4, Lists DEF IInv, AddTo, AddGroups, Defaults
  <1>9. Stands(p)'
    BY <1>2, <1>4, <1>5, <1>8 DEF Stands, Standing, Adding, Removing, Asking
  <1>10. QED
    BY <1>4, <1>6, <1>7, <1>9, StepKeeps

\* A call of an addition that goes on or ends; it has success only when the
\* user is in its group.
LEMMA TaskKeeps ==
  ASSUME IInv, NEW p \in Proc, NEW g \in Group, tasks[p][g] # "none",
         UNCHANGED <<cache, req, todo, found, setting>>,
         \/ \E step \in {"post", "list", "again", "relist"} : Then(p, g, step)
         \/ \E fails \in BOOLEAN : Ended(p, g, fails)
              /\ (~fails => member'[g][req[p].user] # Nil),
         \/ UNCHANGED <<member, saw, gone>>
         \/ \E r \in {"OWNER", "MEMBER"} : SetMember(p, g, r) /\ member[g][req[p].user] = Nil
  PROVE  IInv'
  <1>1. req[p] # Nil /\ req[p].op = "add" /\ pc[p] # "ok" /\ pc[p] # "idle"
        /\ pc[p] \in {"adding", "error"}
    BY DEF IInv, Standing
  <1>2. req[p].user \in User /\ req[p].role \in Role /\ req[p] \in Request
    BY <1>1 DEF IInv, TypeOK, Request
  <1>3. /\ member' \in [Group -> [User -> MemberRole]]
        /\ saw' \in [Proc -> SUBSET {"touched", "swallowed"}]
        /\ gone' \in [Access -> 0 .. AuthTtl + 1]
        /\ saw'[p] = saw[p]
        /\ \A h \in Group : member[h][req[p].user] # Nil => member'[h][req[p].user] # Nil
        /\ \A q \in Proc \ {p} :
              /\ saw[q] \subseteq saw'[q]
              /\ req[q] # Nil /\ "touched" \notin saw'[q] =>
                   \A h \in Group : member'[h][req[q].user] = member[h][req[q].user]
        /\ CountsOn /\ Remembered' /\ Counted'
    <2>1. CASE UNCHANGED <<member, saw, gone>>
      BY <2>1, QuietMemories DEF IInv, TypeOK, MemberRole
    <2>2. ASSUME NEW r \in {"OWNER", "MEMBER"}, SetMember(p, g, r),
                 member[g][req[p].user] = Nil
          PROVE  <1>3!:
      <3>1. r \in MemberRole /\ r # Nil
        BY NilAssumption DEF MemberRole
      <3>2. /\ member' \in [Group -> [User -> MemberRole]]
            /\ saw' \in [Proc -> SUBSET {"touched", "swallowed"}]
            /\ gone' \in [Access -> 0 .. AuthTtl + 1]
            /\ saw'[p] = saw[p]
            /\ \A h \in Group, u \in User :
                  member'[h][u] = IF h = g /\ u = req[p].user THEN r ELSE member[h][u]
            /\ \A q \in Proc \ {p} :
                  /\ saw[q] \subseteq saw'[q]
                  /\ req[q] # Nil /\ "touched" \notin saw'[q] =>
                       \A h \in Group : member'[h][req[q].user] = member[h][req[q].user]
            /\ CountsOn
        BY <1>1, <2>2, <3>1, SetMemberDoes DEF IInv, CountsOn
      <3>3. Remembered' /\ Counted'
        <4>1. gone' \in [Access -> Nat]
          BY <3>2, AccessAssumption
        <4>2. QED
          BY <3>2, <4>1, MemoriesStay
      <3>4. \A h \in Group : member[h][req[p].user] # Nil => member'[h][req[p].user] # Nil
        BY <1>2, <3>1, <3>2
      <3>5. QED
        BY <3>2, <3>3, <3>4
    <2>3. QED
      BY <2>1, <2>2
  <1>4. PICK step \in {"none", "post", "list", "again", "relist"} :
          tasks' = [tasks EXCEPT ![p][g] = step]
    BY DEF Then, Ended
  <1>5. /\ tasks' \in [Proc -> [Group -> {"none", "post", "list", "again", "relist"}]]
        /\ \A q \in Proc \ {p} : tasks'[q] = tasks[q]
        /\ \A h \in Group : tasks'[p][h] = IF h = g THEN step ELSE tasks[p][h]
    BY <1>4 DEF IInv, TypeOK
  <1>6. pc' \in [Proc -> Label] /\ \A q \in Proc \ {p} : pc'[q] = pc[q]
    <2>1. CASE pc' = pc
      BY <2>1 DEF IInv, TypeOK
    <2>2. CASE pc' # pc
      <3>1. PICK fails \in BOOLEAN : Ended(p, g, fails)
        BY <2>2 DEF Then
      <3>2. QED
        BY <3>1 DEF Ended, IInv, TypeOK, Label, Busy
    <2>3. QED
      BY <2>1, <2>2
  <1>7. /\ pc'[p] \in {"adding", "ok", "error"}
        /\ pc'[p] = "ok" => \A h \in Group : tasks'[p][h] = "none"
        /\ pc'[p] \in {"adding", "ok"} =>
             pc[p] = "adding" /\ (tasks'[p][g] = "none" => member'[g][req[p].user] # Nil)
    <2>1. ASSUME NEW l \in {"post", "list", "again", "relist"}, Then(p, g, l) PROVE <1>7!:
      BY <1>1, <2>1 DEF Then, IInv, TypeOK
    <2>2. ASSUME NEW fails \in BOOLEAN, Ended(p, g, fails),
                 ~fails => member'[g][req[p].user] # Nil
          PROVE  <1>7!:
      <3>1. pc'[p] = IF pc[p] # "adding" THEN pc[p] ELSE IF fails THEN "error"
                     ELSE IF \A h \in Group \ {g} : tasks[p][h] = "none" THEN "ok" ELSE pc[p]
        BY <2>2 DEF Ended, IInv, TypeOK
      <3>2. tasks'[p][g] = "none" /\ \A h \in Group \ {g} : tasks'[p][h] = tasks[p][h]
        BY <2>2 DEF Ended, IInv, TypeOK
      <3>3. pc'[p] = "ok" => \A h \in Group : tasks'[p][h] = "none"
        BY <1>1, <3>1, <3>2
      <3>4. pc'[p] \in {"adding", "ok"} => pc[p] = "adding" /\ ~fails
        BY <1>1, <3>1
      <3>5. QED
        BY <1>1, <2>2, <3>1, <3>3, <3>4
    <2>3. QED
      BY <2>1, <2>2
  <1>8. OthersStay(p)
    BY <1>3, <1>5, <1>6 DEF OthersStay
  <1>9. TypeOK'
    BY <1>3, <1>5, <1>6 DEF IInv, TypeOK, MemberRole
  <1>10. Standing(p)'
    BY <1>1, <1>7 DEF IInv, Standing
  <1>11. Adding(p)'
    <2>1. AddTo(req[p].role)' = AddTo(req[p].role) /\ AddTo(req[p].role) \subseteq Group
      BY <1>2, Lists DEF IInv, AddTo, AddGroups, Defaults
    <2>2. QED
      BY <1>1, <1>3, <1>5, <1>7, <2>1 DEF IInv, Adding, Undisturbed
  <1>12. Removing(p)' /\ Asking(p)'
    BY <1>1, <1>7 DEF Removing, Asking
  <1>13. QED
    BY <1>3, <1>8, <1>9, <1>10, <1>11, <1>12, StepKeeps DEF Stands

LEMMA TaskStepKeeps ==
  ASSUME IInv, NEW p \in Proc, NEW g \in Group,
         Post(p, g) \/ Again(p, g) \/ Members(p, g) \/ PageFails(p, g)
  PROVE  IInv'
  <1>1. tasks[p][g] # "none" /\ UNCHANGED <<cache, req, todo, found, setting>>
    BY DEF Post, Again, Members, PageFails
  <1>2. req[p] # Nil /\ req[p].user \in User
    BY <1>1 DEF IInv, Standing, TypeOK, Request
  <1>3. ASSUME NEW r \in {"OWNER", "MEMBER"}, SetMember(p, g, r)
        PROVE  member'[g][req[p].user] # Nil
    <2>1. r \in MemberRole /\ r # Nil
      BY NilAssumption DEF MemberRole
    <2>2. QED
      BY <1>2, <1>3, <2>1, SetMemberDoes DEF IInv
  <1>4. RoleOf(p) \in {"OWNER", "MEMBER"}
    BY DEF RoleOf
  <1>5. CASE Post(p, g)
    <2>1. CASE /\ member[g][req[p].user] = Nil
               /\ SetMember(p, g, RoleOf(p))
               /\ \E lost \in BOOLEAN : Ended(p, g, lost)
      BY <1>1, <1>3, <1>4, <2>1, TaskKeeps
    <2>2. CASE \E step \in {"again", "list"} : Then(p, g, step) /\ Quiet
      BY <1>1, <2>2, TaskKeeps DEF Quiet
    <2>3. CASE Ended(p, g, TRUE) /\ Quiet
      BY <1>1, <2>3, TaskKeeps DEF Quiet
    <2>4. QED
      BY <1>5, <2>1, <2>2, <2>3 DEF Post
  <1>6. CASE Again(p, g)
    <2>1. CASE /\ member[g][req[p].user] = Nil
               /\ SetMember(p, g, "MEMBER")
               /\ \E lost \in BOOLEAN : Ended(p, g, lost)
      BY <1>1, <1>3, <2>1, TaskKeeps
    <2>2. CASE Then(p, g, "relist") /\ Quiet
      BY <1>1, <2>2, TaskKeeps DEF Quiet
    <2>3. CASE Ended(p, g, TRUE) /\ Quiet
      BY <1>1, <2>3, TaskKeeps DEF Quiet
    <2>4. QED
      BY <1>6, <2>1, <2>2, <2>3 DEF Again
  <1>7. CASE Members(p, g) \/ PageFails(p, g)
    <2>1. CASE Ended(p, g, TRUE) /\ Quiet
      BY <1>1, <2>1, TaskKeeps DEF Quiet
    <2>2. CASE ~Ended(p, g, TRUE)
      <3> DEFINE wrong == \/ member[g][req[p].user] = Nil
                          \/ tasks[p][g] = "relist" /\ member[g][req[p].user] # "MEMBER"
      <3>1. Ended(p, g, wrong) /\ Quiet
        BY <1>7, <2>2 DEF Members, PageFails
      <3>2. wrong \in BOOLEAN /\ (~wrong => member'[g][req[p].user] # Nil)
        BY <3>1 DEF Quiet
      <3> HIDE DEF wrong
      <3>3. QED
        BY <1>1, <3>1, <3>2, TaskKeeps DEF Quiet
    <2>3. QED
      BY <1>7, <2>1, <2>2 DEF Members, PageFails
  <1>8. QED
    BY <1>5, <1>6, <1>7

-----------------------------------------------------------------------------
(* Removals.                                                               *)

\* A step that no group sees.
LEMMA QuietKeeps ==
  ASSUME IInv, NEW p \in Proc, Quiet, UNCHANGED <<cache, req, tasks, setting>>,
         \A q \in Proc \ {p} : pc'[q] = pc[q] /\ todo'[q] = todo[q] /\ found'[q] = found[q],
         pc' \in [Proc -> Label], todo' \in [Proc -> Seq(Group \cup {Nil})],
         found' \in [Proc -> {"none", "viewer", "admin", "yes"}],
         Stands(p)'
  PROVE  IInv'
  <1>1. OthersStay(p)
    BY DEF OthersStay, Quiet
  <1>2. TypeOK'
    BY DEF IInv, TypeOK, Quiet
  <1>3. Remembered' /\ Counted' /\ CountsOn
    BY QuietMemories DEF Quiet
  <1>4. QED
    BY <1>1, <1>2, <1>3, StepKeeps

\* The access lists are what they were.
LEMMA SameLists ==
  ASSUME setting' = setting
  PROVE  /\ \A role : AddTo(role)' = AddTo(role) /\ AuthGroups(role)' = AuthGroups(role)
         /\ Plain(setting.admins)' <=> Plain(setting.admins)
         /\ Plain(setting.viewers)' <=> Plain(setting.viewers)
  BY DEF AddTo, AddGroups, Defaults, AuthGroups, Plain

LEMMA ListsAre ==
  ASSUME TypeOK
  PROVE  /\ setting.admins \o setting.viewers \in Seq(Group \cup {Nil})
         /\ setting.viewers \in Seq(Group \cup {Nil}) /\ <<>> \in Seq(Group \cup {Nil})
         /\ ToSet(setting.admins \o setting.viewers)
              = ToSet(setting.admins) \cup ToSet(setting.viewers)
  <1>1. setting.admins \in Seq(Group) /\ setting.viewers \in Seq(Group)
    BY Lists
  <1>2. /\ setting.admins \o setting.viewers \in Seq(Group)
        /\ ToSet(setting.admins \o setting.viewers)
             = ToSet(setting.admins) \cup ToSet(setting.viewers)
    BY <1>1, SetOfConcat
  <1>3. Seq(Group) \subseteq Seq(Group \cup {Nil})
    OBVIOUS
  <1>4. QED
    BY <1>1, <1>2, <1>3

LEMMA RemoveUserKeeps ==
  ASSUME IInv, NEW p \in Proc, RemoveUser(p) PROVE IInv'
  <1> DEFINE l == IF setting.dataset THEN "list" ELSE "choose"
  <1>1. PICK u \in User, i \in Inst :
          Start(p, [op |-> "remove", user |-> u, role |-> "admin", inst |-> i], l)
    BY DEF RemoveUser
  <1> DEFINE r == [op |-> "remove", user |-> u, role |-> "admin", inst |-> i]
  <1>2. r \in Request /\ r.op = "remove"
    BY DEF Request, Role
  <1>3. l \in Label /\ l \in {"list", "choose"} /\ (l = "list" <=> setting.dataset)
    BY DEF Label, Busy
  <1>4. Start(p, r, l) /\ UNCHANGED <<cache, tasks, found>>
    BY <1>1 DEF RemoveUser
  <1> HIDE DEF r, l
  <1>5. /\ Remembered' /\ Counted' /\ CountsOn /\ setting' = setting
        /\ req'[p] = r /\ pc'[p] = l /\ r # Nil
        /\ \A g \in Group : tasks[p][g] = "none"
        /\ pc' \in [Proc -> Label] /\ req' \in [Proc -> Request \cup {Nil}]
        /\ \A q \in Proc \ {p} : pc'[q] = pc[q] /\ req'[q] = req[q] /\ saw'[q] = saw[q]
    BY <1>2, <1>3, <1>4, StartKeeps
  <1>6. /\ todo' \in [Proc -> Seq(Group \cup {Nil})]
        /\ \A q \in Proc \ {p} : todo'[q] = todo[q]
        /\ setting.dataset => todo'[p] = setting.admins \o setting.viewers
    BY ListsAre DEF RemoveUser, IInv, TypeOK
  <1>7. OthersStay(p)
    BY <1>4, <1>5, <1>6 DEF OthersStay, Start
  <1>8. TypeOK'
    BY <1>4, <1>5, <1>6 DEF IInv, TypeOK, Start
  <1>9. setting.dataset =>
          \A g \in ToSet(setting.admins) \cup ToSet(setting.viewers) : g \in ToSet(todo'[p])
    BY <1>6, ListsAre DEF IInv
  <1>10. Standing(p)' /\ Adding(p)' /\ Asking(p)'
    BY <1>2, <1>3, <1>4, <1>5 DEF Standing, Adding, Asking
  <1>11. Removing(p)'
    BY <1>2, <1>3, <1>5, <1>9 DEF Removing
  <1>12. QED
    BY <1>5, <1>7, <1>8, <1>10, <1>11, StepKeeps DEF Stands

\* What a removal under way is.
LEMMA RemovalIs ==
  ASSUME IInv, NEW p \in Proc, pc[p] \in {"list", "choose", "delete"}
  PROVE  /\ req[p] # Nil /\ req[p] \in Request /\ req[p].op = "remove" /\ req[p].user \in User
         /\ todo[p] \in Seq(Group \cup {Nil})
         /\ \A g \in Group : tasks[p][g] = "none"
  <1>1. req[p] # Nil /\ req[p].op = "remove"
    BY DEF IInv, Standing
  <1>2. QED
    BY <1>1 DEF IInv, Standing, TypeOK, Request

\* A step of a removal that changes no group is right when it is right about
\* the groups that are left.
LEMMA RemovalKeeps ==
  ASSUME IInv, NEW p \in Proc, pc[p] \in {"list", "choose", "delete"},
         Quiet, UNCHANGED <<cache, req, tasks, setting>>,
         NEW l \in {"list", "delete", "ok", "error"}, pc' = [pc EXCEPT ![p] = l],
         \A q \in Proc \ {p} : todo'[q] = todo[q] /\ found'[q] = found[q],
         todo' \in [Proc -> Seq(Group \cup {Nil})],
         found' \in [Proc -> {"none", "viewer", "admin", "yes"}],
         Removing(p)'
  PROVE  IInv'
  <1>1. req[p] # Nil /\ req[p].op = "remove" /\ \A g \in Group : tasks[p][g] = "none"
    BY RemovalIs
  <1>2. pc'[p] = l /\ pc' \in [Proc -> Label] /\ \A q \in Proc \ {p} : pc'[q] = pc[q]
    BY DEF IInv, TypeOK, Label, Busy
  <1>3. Standing(p)' /\ Adding(p)' /\ Asking(p)'
    BY <1>1, <1>2 DEF Standing, Adding, Asking
  <1>4. QED
    BY <1>2, <1>3, QuietKeeps DEF Stands

LEMMA ChooseKeeps ==
  ASSUME IInv, NEW p \in Proc, Choose(p) PROVE IInv'
  <1>1. pc[p] = "choose" /\ Quiet /\ UNCHANGED <<cache, req, tasks, found, setting>>
        /\ found' \in [Proc -> {"none", "viewer", "admin", "yes"}]
    BY DEF Choose, IInv, TypeOK
  <1>2. req[p] # Nil /\ req[p].op = "remove"
    BY <1>1, RemovalIs
  <1>3. CASE Goto(p, "error") /\ UNCHANGED todo
    <2>1. pc' = [pc EXCEPT ![p] = "error"] /\ pc'[p] = "error"
      BY <1>3 DEF Goto, IInv, TypeOK
    <2>2. Removing(p)'
      BY <2>1 DEF Removing
    <2>3. QED
      BY <1>1, <1>3, <2>1, <2>2, RemovalKeeps DEF IInv, TypeOK
  <1>4. ASSUME NEW a \in RemoveFrom(setting.admins), NEW v \in RemoveFrom(setting.viewers),
               todo' = [todo EXCEPT ![p] = a \o v], Goto(p, "delete")
        PROVE  IInv'
    <2>1. pc' = [pc EXCEPT ![p] = "delete"] /\ pc'[p] = "delete"
      BY <1>4 DEF Goto, IInv, TypeOK
    <2>2. todo' \in [Proc -> Seq(Group \cup {Nil})] /\ todo'[p] = a \o v
          /\ \A q \in Proc \ {p} : todo'[q] = todo[q]
      BY <1>4, Chosen DEF IInv, TypeOK
    <2>3. Removing(p)'
      <3>1. SUFFICES ASSUME saw[p] = {}, Plain(setting.admins), Plain(setting.viewers)
                     PROVE  \A g \in AddTo("admin") : g \in ToSet(todo'[p])
        BY <1>1, <2>1, SameLists DEF Removing, Quiet
      <3>2. ~setting.dataset
        BY <1>1, <1>2, <3>1 DEF IInv, Removing
      <3>3. AddTo("admin") = Defaults(setting.admins) \cup Defaults(setting.viewers)
        BY <3>1, <3>2, PlainAddTo DEF IInv
      <3>4. ToSet(todo'[p]) = Defaults(setting.admins) \cup Defaults(setting.viewers)
        BY <2>2, <3>1, <3>2, Chosen DEF IInv
      <3>5. QED
        BY <3>3, <3>4
    <2>4. QED
      BY <1>1, <2>1, <2>2, <2>3, RemovalKeeps
  <1>5. QED
    BY <1>3, <1>4 DEF Choose

LEMMA ListOneKeeps ==
  ASSUME IInv, NEW p \in Proc, ListOne(p) PROVE IInv'
  <1> DEFINE g == Head(todo[p])
             u == req[p].user
             as == IF g \in ToSet(setting.admins) THEN "admin" ELSE "viewer"
  <1>1. pc[p] = "list" /\ todo[p] # <<>> /\ Quiet /\ UNCHANGED <<cache, req, tasks, setting>>
    BY DEF ListOne
  <1>2. req[p] # Nil /\ req[p].op = "remove" /\ todo[p] \in Seq(Group \cup {Nil})
    BY <1>1, RemovalIs
  <1>3. CASE Goto(p, "error") /\ UNCHANGED <<todo, found>>
    <2>1. pc' = [pc EXCEPT ![p] = "error"] /\ pc'[p] = "error"
      BY <1>3 DEF Goto, IInv, TypeOK
    <2>2. Removing(p)'
      BY <2>1 DEF Removing
    <2>3. QED
      BY <1>1, <1>3, <2>1, <2>2, RemovalKeeps DEF IInv, TypeOK
  <1>4. ASSUME NEW hit \in BOOLEAN, g \notin Paged /\ member[g][u] # Nil => hit,
               found' = [found EXCEPT ![p] = IF ~hit \/ @ = "admin" THEN @ ELSE as],
               todo' = [todo EXCEPT ![p] = Tail(@)], pc' = pc
        PROVE  IInv'
    <2>1. pc' = [pc EXCEPT ![p] = "list"] /\ pc'[p] = "list"
      BY <1>1, <1>4 DEF IInv, TypeOK
    <2>2. Tail(todo[p]) \in Seq(Group \cup {Nil})
          /\ ToSet(todo[p]) = {g} \cup ToSet(Tail(todo[p]))
      BY <1>1, <1>2, SetOfTail
    <2>3. todo' \in [Proc -> Seq(Group \cup {Nil})] /\ todo'[p] = Tail(todo[p])
          /\ \A q \in Proc \ {p} : todo'[q] = todo[q]
      BY <1>4, <2>2 DEF IInv, TypeOK
    <2>4. as \in {"admin", "viewer"} /\ (g \in ToSet(setting.admins) => as = "admin")
      OBVIOUS
    <2>5. found' \in [Proc -> {"none", "viewer", "admin", "yes"}]
          /\ (\A q \in Proc \ {p} : found'[q] = found[q])
          /\ found'[p] = (IF ~hit \/ found[p] = "admin" THEN found[p] ELSE as)
      BY <1>4, <2>4 DEF IInv, TypeOK
    <2> HIDE DEF as
    <2>6. Removing(p)'
      <3>1. SUFFICES ASSUME saw[p] = {}, Plain(setting.admins), Plain(setting.viewers)
                     PROVE  Removing(p)'
        BY <1>1, SameLists DEF Removing, Quiet
      <3>2. setting.dataset
        BY <1>1, <1>2, <3>1 DEF IInv, Removing
      <3>3. ASSUME NEW h \in ToSet(setting.admins) \cup ToSet(setting.viewers)
            PROVE  \/ h \in ToSet(todo'[p]) \/ member[h][u] = Nil
                   \/ found'[p] = "admin"
                   \/ (found'[p] = "viewer" /\ h \notin ToSet(setting.admins))
        <4>1. \/ h \in ToSet(todo[p]) \/ member[h][u] = Nil
              \/ found[p] = "admin"
              \/ (found[p] = "viewer" /\ h \notin ToSet(setting.admins))
          BY <1>1, <1>2, <3>1 DEF IInv, Removing
        <4>2. CASE h = g /\ member[h][u] # Nil
          <5>1. hit
            BY <1>4, <3>1, <4>2 DEF Plain
          <5>2. QED
            BY <2>4, <2>5, <4>2, <5>1
        <4>3. CASE h # g
          BY <2>2, <2>3, <2>4, <2>5, <4>1, <4>3
        <4>4. QED
          BY <4>2, <4>3
      <3>4. QED
        BY <1>1, <2>1, <3>2, <3>3 DEF Removing, Quiet
    <2>7. QED
      BY <1>1, <2>1, <2>3, <2>5, <2>6, RemovalKeeps
  <1>5. QED
    BY <1>3, <1>4 DEF ListOne

LEMMA ListedKeeps ==
  ASSUME IInv, NEW p \in Proc, Listed(p) PROVE IInv'
  <1>1. pc[p] = "list" /\ todo[p] = <<>> /\ Quiet
        /\ UNCHANGED <<cache, req, tasks, found, setting>>
        /\ found' \in [Proc -> {"none", "viewer", "admin", "yes"}]
    BY DEF Listed, IInv, TypeOK
  <1>2. req[p] # Nil /\ req[p].op = "remove"
    BY <1>1, RemovalIs
  <1> DEFINE next == CASE found[p] = "admin"  -> setting.admins \o setting.viewers
                       [] found[p] = "viewer" -> setting.viewers
                       [] OTHER -> <<>>
  <1>3. next \in Seq(Group \cup {Nil})
        /\ (found[p] = "admin" => next = setting.admins \o setting.viewers)
        /\ (found[p] = "viewer" => next = setting.viewers)
    BY ListsAre DEF IInv
  <1>4. todo' = [todo EXCEPT ![p] = next]
    BY DEF Listed
  <1> HIDE DEF next
  <1>5. todo' \in [Proc -> Seq(Group \cup {Nil})] /\ todo'[p] = next
        /\ \A q \in Proc \ {p} : todo'[q] = todo[q]
    BY <1>3, <1>4 DEF IInv, TypeOK
  <1>6. pc' = [pc EXCEPT ![p] = "delete"] /\ pc'[p] = "delete"
    BY DEF Listed, Goto, IInv, TypeOK
  <1>7. Removing(p)'
    <2>1. SUFFICES ASSUME saw[p] = {}, Plain(setting.admins), Plain(setting.viewers)
                   PROVE  \A g \in AddTo("admin") :
                            g \in ToSet(next) \/ member[g][req[p].user] = Nil
      BY <1>1, <1>5, <1>6, SameLists DEF Removing, Quiet
    <2>2. setting.dataset
      BY <1>1, <1>2, <2>1 DEF IInv, Removing
    <2>3. AddTo("admin") = ToSet(setting.admins) \cup ToSet(setting.viewers)
      BY <2>1, <2>2, PlainAddTo DEF IInv
    <2>4. ASSUME NEW g \in AddTo("admin")
          PROVE  \/ member[g][req[p].user] = Nil \/ found[p] = "admin"
                 \/ (found[p] = "viewer" /\ g \notin ToSet(setting.admins))
      BY <1>1, <1>2, <2>1, <2>3, SetOfNone DEF IInv, Removing
    <2>5. QED
      BY <1>3, <2>3, <2>4, ListsAre DEF IInv
  <1>8. QED
    BY <1>1, <1>5, <1>6, <1>7, RemovalKeeps

LEMMA RemovedKeeps ==
  ASSUME IInv, NEW p \in Proc, Removed(p) PROVE IInv'
  <1>1. pc[p] = "delete" /\ todo[p] = <<>> /\ Quiet
        /\ UNCHANGED <<cache, req, tasks, todo, found, setting>>
        /\ found' \in [Proc -> {"none", "viewer", "admin", "yes"}]
        /\ todo' \in [Proc -> Seq(Group \cup {Nil})]
    BY DEF Removed, IInv, TypeOK
  <1>2. req[p] # Nil /\ req[p].op = "remove"
    BY <1>1, RemovalIs
  <1>3. pc' = [pc EXCEPT ![p] = "ok"] /\ pc'[p] = "ok"
    BY DEF Removed, Goto, IInv, TypeOK
  <1>4. Removing(p)'
    BY <1>1, <1>2, <1>3, SameLists, SetOfNone DEF IInv, Removing, Quiet
  <1>5. QED
    BY <1>1, <1>3, <1>4, RemovalKeeps

LEMMA DeleteKeeps ==
  ASSUME IInv, NEW p \in Proc, Delete(p) PROVE IInv'
  <1> DEFINE g == Head(todo[p])
             u == req[p].user
  <1>1. pc[p] = "delete" /\ todo[p] # <<>> /\ UNCHANGED <<cache, req, tasks, found, setting>>
    BY DEF Delete
  <1>2. /\ req[p] # Nil /\ req[p].op = "remove" /\ u \in User
        /\ todo[p] \in Seq(Group \cup {Nil}) /\ \A h \in Group : tasks[p][h] = "none"
    BY <1>1, RemovalIs
  <1>3. g \in Group \cup {Nil} /\ Tail(todo[p]) \in Seq(Group \cup {Nil})
        /\ ToSet(todo[p]) = {g} \cup ToSet(Tail(todo[p]))
    BY <1>1, <1>2, SetOfTail
  <1>4. Visited(p) \/ (Goto(p, "error") /\ UNCHANGED todo)
    BY DEF Delete
  <1>5. /\ todo' \in [Proc -> Seq(Group \cup {Nil})] /\ pc' \in [Proc -> Label]
        /\ pc'[p] \in {"delete", "error"}
        /\ pc'[p] = "delete" => todo'[p] = Tail(todo[p]) /\ Visited(p)
        /\ \A q \in Proc \ {p} : todo'[q] = todo[q] /\ pc'[q] = pc[q]
    BY <1>1, <1>3, <1>4 DEF Visited, Goto, IInv, TypeOK, Label, Busy
  <1>6. Standing(p)' /\ Adding(p)' /\ Asking(p)'
    BY <1>1, <1>2, <1>5 DEF Standing, Adding, Asking
  <1>7. CASE g # Nil /\ SetMember(p, g, Nil)
    <2>1. g \in Group /\ Nil \in MemberRole
      BY <1>3, <1>7 DEF MemberRole
    <2>2. /\ member' \in [Group -> [User -> MemberRole]]
          /\ saw' \in [Proc -> SUBSET {"touched", "swallowed"}]
          /\ gone' \in [Access -> 0 .. AuthTtl + 1]
          /\ saw'[p] = saw[p]
          /\ \A h \in Group, w \in User :
                member'[h][w] = IF h = g /\ w = u THEN Nil ELSE member[h][w]
          /\ \A q \in Proc \ {p} :
                /\ saw[q] \subseteq saw'[q]
                /\ req[q] # Nil /\ "touched" \notin saw'[q] =>
                     \A h \in Group : member'[h][req[q].user] = member[h][req[q].user]
          /\ CountsOn
      BY <1>2, <1>7, <2>1, SetMemberDoes DEF IInv, CountsOn
    <2>3. Remembered' /\ Counted'
      <3>1. gone' \in [Access -> Nat]
        BY <2>2, AccessAssumption
      <3>2. QED
        BY <1>1, <2>2, <3>1, MemoriesStay
    <2>4. OthersStay(p)
      BY <1>1, <1>5, <2>2 DEF OthersStay
    <2>5. TypeOK'
      BY <1>1, <1>5, <2>2 DEF IInv, TypeOK, MemberRole
    <2>6. Removing(p)'
      <3>1. SUFFICES ASSUME saw[p] = {}, Plain(setting.admins), Plain(setting.viewers),
                            pc'[p] = "delete"
                     PROVE  \A h \in AddTo("admin") :
                              h \in ToSet(todo'[p]) \/ member'[h][u] = Nil
        BY <1>1, <1>5, <2>2, SameLists DEF Removing
      <3>2. AddTo("admin") \subseteq Group
        BY Lists DEF IInv, Role
      <3>3. \A h \in AddTo("admin") : h \in ToSet(todo[p]) \/ member[h][u] = Nil
        BY <1>1, <1>2, <3>1 DEF IInv, Removing
      <3>4. todo'[p] = Tail(todo[p]) /\ u \in User
        BY <1>2, <1>5, <3>1
      <3>5. ASSUME NEW h \in AddTo("admin")
            PROVE  h \in ToSet(todo'[p]) \/ member'[h][u] = Nil
        <4>1. member'[h][u] = IF h = g THEN Nil ELSE member[h][u]
          BY <2>2, <3>2, <3>4
        <4>2. QED
          BY <1>3, <3>3, <3>4, <4>1
      <3>6. QED
        BY <3>5
    <2>7. QED
      BY <1>1, <1>6, <2>2, <2>3, <2>4, <2>5, <2>6, StepKeeps DEF Stands
  <1>8. ASSUME UNCHANGED <<member, gone>>, saw' \in [Proc -> SUBSET {"touched", "swallowed"}],
               \A q \in Proc \ {p} : saw'[q] = saw[q], saw[p] \subseteq saw'[p],
               pc'[p] = "error" \/ (g = Nil /\ saw'[p] = saw[p]) \/ saw'[p] # {}
        PROVE  IInv'
    <2>1. CountsOn /\ Remembered' /\ Counted'
      <3>1. CountsOn
        <4> SUFFICES ASSUME NEW a \in Access
                     PROVE  gone'[a] = 0 \/ (gone'[a] = gone[a]
                              /\ \A h \in AuthGroups(a[2]) : member'[h][a[1]] = Nil)
          BY DEF CountsOn
        <4>1. HasAccess(a[1], a[2]) => gone[a] = 0
          BY DEF IInv, Counted
        <4>2. QED
          BY <1>8, <4>1 DEF HasAccess
      <3>2. gone' \in [Access -> Nat]
        BY <1>8, AccessAssumption DEF IInv, TypeOK
      <3>3. QED
        BY <1>1, <3>1, <3>2, MemoriesStay
    <2>2. OthersStay(p)
      BY <1>1, <1>5, <1>8 DEF OthersStay
    <2>3. TypeOK'
      BY <1>1, <1>5, <1>8 DEF IInv, TypeOK
    <2>4. Removing(p)'
      <3>1. SUFFICES ASSUME saw'[p] = {}, Plain(setting.admins), Plain(setting.viewers),
                            pc'[p] = "delete"
                     PROVE  \A h \in AddTo("admin") :
                              h \in ToSet(todo'[p]) \/ member[h][u] = Nil
        BY <1>1, <1>5, <1>8, SameLists DEF Removing
      <3>2. g = Nil /\ saw[p] = {}
        BY <1>8, <3>1
      <3>3. AddTo("admin") \subseteq Group
        BY Lists DEF IInv, Role
      <3>4. \A h \in AddTo("admin") : h \in ToSet(todo[p]) \/ member[h][u] = Nil
        BY <1>1, <1>2, <3>1, <3>2 DEF IInv, Removing
      <3>5. QED
        BY <1>3, <1>5, <3>1, <3>2, <3>3, <3>4, AccessAssumption
    <2>5. QED
      BY <1>1, <1>6, <2>1, <2>2, <2>3, <2>4, StepKeeps DEF Stands
  <1>9. CASE /\ saw' = IF g = Nil THEN saw ELSE [saw EXCEPT ![p] = @ \cup {"swallowed"}]
             /\ UNCHANGED <<member, gone>>
    BY <1>8, <1>9 DEF IInv, TypeOK
  <1>10. CASE Goto(p, "error") /\ UNCHANGED todo /\ Quiet
    <2>1. pc'[p] = "error"
      BY <1>10 DEF Goto, IInv, TypeOK
    <2>2. QED
      BY <1>8, <1>10, <2>1 DEF Quiet, IInv, TypeOK
  <1>11. QED
    BY <1>7, <1>9, <1>10 DEF Delete

-----------------------------------------------------------------------------
(* Authorization.                                                          *)

LEMMA CheckDoes ==
  ASSUME IInv, NEW p \in Proc, Check(p)
  PROVE  /\ IInv'
         /\ \A q \in Proc \ {p} : pc'[q] = pc[q]
         /\ pc'[p] = "granted" => gone[Key(p)'] <= AuthTtl
  <1>1. PICK u \in User, role \in Role, i \in Inst :
          Start(p, [op |-> "check", user |-> u, role |-> role, inst |-> i],
                IF Known(cache[i][<<u, role>>]) THEN Answer(cache[i][<<u, role>>].value)
                                                ELSE "ask")
    BY DEF Check
  <1> DEFINE e == cache[i][<<u, role>>]
             l == IF Known(e) THEN Answer(e.value) ELSE "ask"
             r == [op |-> "check", user |-> u, role |-> role, inst |-> i]
  <1>2. r \in Request /\ r.op = "check" /\ r.user = u /\ r.role = role
    BY DEF Request
  <1>3. l \in Label /\ (l = "ask" \/ (l = "granted" /\ Known(e)))
    BY DEF Label, Busy, Answer, Known
  <1>4. Start(p, r, l) /\ UNCHANGED <<cache, tasks, todo, found>>
    BY <1>1 DEF Check
  <1> HIDE DEF r, l
  <1>5. /\ Remembered' /\ Counted' /\ CountsOn /\ setting' = setting
        /\ req'[p] = r /\ pc'[p] = l /\ r # Nil
        /\ found[p] = "none" /\ \A g \in Group : tasks[p][g] = "none"
        /\ pc' \in [Proc -> Label] /\ req' \in [Proc -> Request \cup {Nil}]
        /\ \A q \in Proc \ {p} : pc'[q] = pc[q] /\ req'[q] = req[q] /\ saw'[q] = saw[q]
    BY <1>2, <1>3, <1>4, StartKeeps
  <1>6. OthersStay(p)
    BY <1>4, <1>5 DEF OthersStay, Start
  <1>7. TypeOK'
    BY <1>4, <1>5 DEF IInv, TypeOK, Start
  <1>8. Standing(p)' /\ Adding(p)' /\ Removing(p)' /\ Asking(p)'
    BY <1>2, <1>3, <1>4, <1>5 DEF Standing, Adding, Removing, Asking
  <1>9. IInv'
    BY <1>5, <1>6, <1>7, <1>8, StepKeeps DEF Stands
  <1>10. ASSUME pc'[p] = "granted" PROVE gone[Key(p)'] <= AuthTtl
    <2>1. Known(e) /\ <<u, role>> \in Access /\ Key(p)' = <<u, role>>
      BY <1>2, <1>3, <1>5, <1>10 DEF Key, Access
    <2>2. gone[<<u, role>>] + e.ttl <= AuthTtl /\ e.ttl \in 0 .. AuthTtl
          /\ gone[<<u, role>>] \in 0 .. AuthTtl + 1
      BY <2>1 DEF IInv, Remembered, TypeOK
    <2>3. QED
      BY <2>1, <2>2, AccessAssumption
  <1>11. QED
    BY <1>5, <1>9, <1>10

LEMMA AskKeeps ==
  ASSUME IInv, NEW p \in Proc, Ask(p) PROVE IInv'
  <1>1. pc[p] = "ask" /\ Quiet /\ UNCHANGED <<cache, req, tasks, todo, setting>>
    BY DEF Ask
  <1>2. req[p] # Nil /\ req[p].op = "check" /\ found[p] = "none" /\ req[p] \in Request
        /\ Key(p) \in Access /\ \A g \in Group : tasks[p][g] = "none"
    <2>1. Standing(p) /\ req[p] \in Request \cup {Nil}
      BY DEF IInv, TypeOK
    <2>2. req[p] # Nil /\ found[p] = "none"
      BY <1>1, <2>1 DEF Standing
    <2>3. req[p].op = "check" /\ \A g \in Group : tasks[p][g] = "none"
      BY <1>1, <2>1, <2>2 DEF Standing
    <2>4. req[p].user \in User /\ req[p].role \in Role
      BY <2>1, <2>2 DEF Request
    <2>5. QED
      BY <2>1, <2>2, <2>3, <2>4 DEF Key, Access
  <1>3. HasAccess(req[p].user, req[p].role) => gone[Key(p)] = 0
    BY <1>2 DEF IInv, Counted, Key
  <1>4. /\ pc' \in [Proc -> Label] /\ found' \in [Proc -> {"none", "viewer", "admin", "yes"}]
        /\ \A q \in Proc \ {p} : pc'[q] = pc[q] /\ found'[q] = found[q]
        /\ \/ pc'[p] = "error"
           \/ /\ pc'[p] = "keep"
              /\ found'[p] = IF HasAccess(req[p].user, req[p].role) THEN "yes" ELSE "none"
    BY DEF Ask, Goto, IInv, TypeOK, Label, Busy
  <1>5. Standing(p)' /\ Adding(p)' /\ Removing(p)'
    BY <1>1, <1>2, <1>4 DEF Standing, Adding, Removing
  <1>6. Asking(p)'
    <2>1. HasAccess(req[p].user, req[p].role)' <=> HasAccess(req[p].user, req[p].role)
      BY <1>1 DEF HasAccess, AuthGroups, Quiet
    <2>2. Key(p)' = Key(p) /\ gone' = gone
      BY <1>1 DEF Key, Quiet
    <2>3. QED
      BY <1>3, <1>4, <2>1, <2>2 DEF Asking
  <1>7. QED
    BY <1>1, <1>4, <1>5, <1>6, QuietKeeps DEF Stands, IInv, TypeOK

LEMMA KeepDoes ==
  ASSUME IInv, NEW p \in Proc, Keep(p)
  PROVE  /\ IInv'
         /\ \A q \in Proc \ {p} : pc'[q] = pc[q]
         /\ pc'[p] = "granted" => gone[Key(p)'] <= AuthTtl
  <1>1. pc[p] = "keep" /\ Quiet /\ UNCHANGED <<req, tasks, todo, found, setting>>
    BY DEF Keep
  <1>2. /\ req[p] # Nil /\ req[p].op = "check" /\ found[p] \in {"none", "yes"}
        /\ req[p] \in Request /\ req[p].inst \in Inst
        /\ Key(p) \in Access /\ \A g \in Group : tasks[p][g] = "none"
    <2>1. Standing(p) /\ req[p] \in Request \cup {Nil}
      BY DEF IInv, TypeOK
    <2>2. req[p] # Nil /\ found[p] \in {"none", "yes"}
      BY <1>1, <2>1 DEF Standing
    <2>3. req[p].op = "check" /\ \A g \in Group : tasks[p][g] = "none"
      BY <1>1, <2>1, <2>2 DEF Standing
    <2>4. req[p].user \in User /\ req[p].role \in Role /\ req[p].inst \in Inst
      BY <2>1, <2>2 DEF Request
    <2>5. QED
      BY <2>1, <2>2, <2>3, <2>4 DEF Key, Access
  <1> DEFINE new == [value |-> found[p] = "yes", ttl |-> AuthTtl]
  <1>3. cache' = [cache EXCEPT ![req[p].inst][Key(p)] = new]
        /\ new \in [value : BOOLEAN, ttl : 0 .. AuthTtl]
        /\ new.ttl = AuthTtl /\ (Known(new) => found[p] = "yes")
    <2>1. cache' = [cache EXCEPT ![req[p].inst][Key(p)] = new]
      BY DEF Keep
    <2>2. (found[p] = "yes") \in BOOLEAN /\ AuthTtl \in 0 .. AuthTtl
      BY AccessAssumption
    <2>3. new.value = (found[p] = "yes") /\ new.ttl = AuthTtl
      OBVIOUS
    <2>4. new \in [value : BOOLEAN, ttl : 0 .. AuthTtl]
      BY <2>2
    <2>5. Known(new) => found[p] = "yes"
      BY <2>3 DEF Known
    <2>6. QED
      BY <2>1, <2>3, <2>4, <2>5
  <1> HIDE DEF new
  <1>4. /\ cache' \in [Inst -> [Access -> [value : BOOLEAN, ttl : 0 .. AuthTtl]]]
        /\ \A i \in Inst, a \in Access :
             cache'[i][a] = IF i = req[p].inst /\ a = Key(p) THEN new ELSE cache[i][a]
    BY <1>2, <1>3 DEF IInv, TypeOK
  <1>5. pc' \in [Proc -> Label] /\ (\A q \in Proc \ {p} : pc'[q] = pc[q])
        /\ pc'[p] = IF found[p] = "yes" THEN "granted" ELSE "refused"
    BY DEF Keep, Goto, Answer, IInv, TypeOK, Label, Busy
  <1>6. found[p] = "yes" => gone[Key(p)] = 0
    BY <1>1 DEF IInv, Asking
  <1>7. Remembered'
    <2>1. gone' = gone
      BY <1>1 DEF Quiet
    <2>2. ASSUME NEW i \in Inst, NEW a \in Access, Known(cache'[i][a])
          PROVE  gone[a] + cache'[i][a].ttl <= AuthTtl
      <3>1. CASE i = req[p].inst /\ a = Key(p)
        BY <1>3, <1>4, <1>6, <2>2, <3>1, AccessAssumption
      <3>2. CASE ~(i = req[p].inst /\ a = Key(p))
        BY <1>4, <2>2, <3>2 DEF IInv, Remembered
      <3>3. QED
        BY <3>1, <3>2
    <2>3. QED
      BY <2>1, <2>2 DEF Remembered, Known
  <1>8. Counted'
    BY <1>1 DEF IInv, Counted, HasAccess, AuthGroups, Quiet
  <1>9. OthersStay(p) /\ gone' = gone
    BY <1>1, <1>5 DEF OthersStay, Quiet
  <1>10. TypeOK'
    BY <1>1, <1>4, <1>5 DEF IInv, TypeOK, Quiet
  <1>11. Standing(p)' /\ Adding(p)' /\ Removing(p)'
    BY <1>1, <1>2, <1>5 DEF Standing, Adding, Removing
  <1>12. Asking(p)'
    <2>1. HasAccess(req[p].user, req[p].role)' <=> HasAccess(req[p].user, req[p].role)
      BY <1>1 DEF HasAccess, AuthGroups, Quiet
    <2>2. pc'[p] # "keep" /\ (pc'[p] = "refused" => found[p] = "none")
      BY <1>2, <1>5
    <2>3. Undisturbed(p)' <=> Undisturbed(p)
      BY <1>1 DEF Quiet, Undisturbed
    <2>4. QED
      BY <1>1, <2>1, <2>2, <2>3 DEF IInv, Asking
  <1>13. IInv'
    BY <1>1, <1>7, <1>8, <1>9, <1>10, <1>11, <1>12, StepKeeps DEF Stands
  <1>14. pc'[p] = "granted" => gone[Key(p)'] <= AuthTtl
    BY <1>1, <1>5, <1>6, AccessAssumption DEF Key
  <1>15. QED
    BY <1>5, <1>13, <1>14

LEMMA EndKeeps ==
  ASSUME IInv, NEW p \in Proc, End(p) PROVE IInv'
  <1>1. UNCHANGED <<member, cache, tasks, gone, setting>>
        /\ \A g \in Group : tasks[p][g] = "none"
    BY DEF End
  <1>2. /\ pc' \in [Proc -> Label] /\ pc'[p] = "idle" /\ \A q \in Proc \ {p} : pc'[q] = pc[q]
        /\ req' \in [Proc -> Request \cup {Nil}] /\ req'[p] = Nil
        /\ \A q \in Proc \ {p} : req'[q] = req[q]
    BY DEF End, Goto, IInv, TypeOK, Label, Busy
  <1>3. /\ todo' \in [Proc -> Seq(Group \cup {Nil})]
        /\ \A q \in Proc \ {p} : todo'[q] = todo[q]
        /\ found' \in [Proc -> {"none", "viewer", "admin", "yes"}] /\ found'[p] = "none"
        /\ \A q \in Proc \ {p} : found'[q] = found[q]
        /\ saw' \in [Proc -> SUBSET {"touched", "swallowed"}]
        /\ \A q \in Proc \ {p} : saw'[q] = saw[q]
    BY DEF End, IInv, TypeOK
  <1>4. OthersStay(p)
    BY <1>1, <1>2, <1>3 DEF OthersStay
  <1>5. TypeOK'
    BY <1>1, <1>2, <1>3 DEF IInv, TypeOK
  <1>6. Remembered' /\ Counted'
    BY <1>1 DEF IInv, Remembered, Counted, HasAccess, AuthGroups
  <1>7. Stands(p)'
    BY <1>1, <1>2, <1>3 DEF Stands, Standing, Adding, Removing, Asking
  <1>8. QED
    BY <1>1, <1>4, <1>5, <1>6, <1>7, StepKeeps

\* A tick ages what is remembered and what was lost alike.
LEMMA TickKeeps ==
  ASSUME IInv, Tick PROVE IInv'
  <1>1. UNCHANGED <<member, call, saw, setting>> /\ \A p \in Proc : pc[p] # "keep"
    BY DEF Tick
  <1>2. \A i \in Inst, a \in Access : cache'[i][a] = Older(cache[i][a])
    BY DEF Tick
  <1>3. \A a \in Access : gone'[a] =
          IF HasAccess(a[1], a[2]) \/ gone[a] > AuthTtl THEN gone[a] ELSE gone[a] + 1
    BY DEF Tick
  <1>4. ASSUME NEW e \in [value : BOOLEAN, ttl : 0 .. AuthTtl]
        PROVE  /\ Older(e) \in [value : BOOLEAN, ttl : 0 .. AuthTtl]
               /\ Known(Older(e)) => Known(e) /\ Older(e).ttl = e.ttl - 1
    <2>1. CASE e.ttl <= 1
      BY <2>1, AccessAssumption DEF Older, NoEntry, Known
    <2>2. CASE ~(e.ttl <= 1)
      <3>1. Older(e) = [value |-> e.value, ttl |-> e.ttl - 1]
        BY <2>2 DEF Older
      <3>2. e.ttl - 1 \in 0 .. AuthTtl /\ e.ttl \in Nat
        BY <2>2, AccessAssumption
      <3>3. QED
        BY <2>2, <3>1, <3>2 DEF Known
    <2>3. QED
      BY <2>1, <2>2
  <1>5. \A a \in Access : gone[a] \in 0 .. AuthTtl + 1 /\ gone'[a] \in 0 .. AuthTtl + 1
                          /\ gone'[a] <= gone[a] + 1
    <2> SUFFICES ASSUME NEW a \in Access
                 PROVE  gone[a] \in 0 .. AuthTtl + 1 /\ gone'[a] \in 0 .. AuthTtl + 1
                        /\ gone'[a] <= gone[a] + 1
      OBVIOUS
    <2>1. gone[a] \in 0 .. AuthTtl + 1
      BY DEF IInv, TypeOK
    <2>2. QED
      BY <1>3, <2>1, AccessAssumption
  <1>6. TypeOK'
    <2>1. \A i \in Inst, a \in Access : cache[i][a] \in [value : BOOLEAN, ttl : 0 .. AuthTtl]
      BY DEF IInv, TypeOK
    <2>2. cache' = [i \in Inst |-> [a \in Access |-> Older(cache[i][a])]]
      BY DEF Tick
    <2>3. cache' \in [Inst -> [Access -> [value : BOOLEAN, ttl : 0 .. AuthTtl]]]
      BY <1>4, <2>1, <2>2
    <2>4. gone' \in [Access -> 0 .. AuthTtl + 1]
      BY <1>5 DEF Tick
    <2>5. QED
      BY <1>1, <2>3, <2>4 DEF IInv, TypeOK, call
  <1>7. Remembered'
    <2>1. ASSUME NEW i \in Inst, NEW a \in Access, Known(cache'[i][a])
          PROVE  gone'[a] + cache'[i][a].ttl <= AuthTtl
      <3>1. cache[i][a] \in [value : BOOLEAN, ttl : 0 .. AuthTtl]
        BY DEF IInv, TypeOK
      <3>2. Known(cache[i][a]) /\ cache'[i][a].ttl = cache[i][a].ttl - 1
        BY <1>2, <1>4, <2>1, <3>1
      <3>3. gone[a] + cache[i][a].ttl <= AuthTtl /\ cache[i][a].ttl \in Nat
        BY <3>1, <3>2, AccessAssumption DEF IInv, Remembered
      <3>4. QED
        BY <1>5, <3>2, <3>3, AccessAssumption
    <2>2. QED
      BY <2>1 DEF Remembered, Known
  <1>8. Counted'
    BY <1>1, <1>3 DEF IInv, Counted, HasAccess, AuthGroups
  <1>9. ASSUME NEW p \in Proc PROVE Stands(p)'
    <2>1. /\ pc'[p] = pc[p] /\ req'[p] = req[p] /\ tasks'[p] = tasks[p] /\ todo'[p] = todo[p]
          /\ found'[p] = found[p] /\ saw' = saw /\ member' = member /\ setting' = setting
      BY <1>1 DEF call
    <2>2. Standing(p)'
      BY <2>1 DEF IInv, Standing
    <2>3. Adding(p)' /\ Removing(p)'
      BY <2>1, SameLists DEF IInv, Adding, Removing, Undisturbed
    <2>4. Asking(p)'
      <3>1. HasAccess(req[p].user, req[p].role)' <=> HasAccess(req[p].user, req[p].role)
        BY <2>1, SameLists DEF HasAccess
      <3>2. QED
        BY <1>1, <2>1, <3>1 DEF IInv, Asking, Undisturbed
    <2>5. QED
      BY <2>2, <2>3, <2>4 DEF Stands
  <1>10. QED
    BY <1>6, <1>7, <1>8, <1>9 DEF IInv, Stands

-----------------------------------------------------------------------------
(* Theorems.                                                               *)

LEMMA InitKeeps == Init => IInv
  <1> SUFFICES ASSUME Init PROVE IInv
    OBVIOUS
  <1>1. NoEntry \in [value : BOOLEAN, ttl : 0 .. AuthTtl] /\ ~Known(NoEntry)
        /\ AuthTtl + 1 \in 0 .. AuthTtl + 1
    BY AccessAssumption DEF NoEntry, Known
  <1>2. TypeOK
    <2>1. <<>> \in Seq(Group \cup {Nil})
      OBVIOUS
    <2>2. QED
      BY <1>1, <2>1 DEF Init, TypeOK, Label
  <1>3. Remembered
    BY <1>1 DEF Init, Remembered
  <1>4. Counted
    <2>1. \A a \in Access : a[1] \in User /\ a[2] \in Role
      BY DEF Access
    <2>2. \A a \in Access : AuthGroups(a[2]) \subseteq Group
      BY <1>2, <2>1, Lists
    <2>3. \A a \in Access : ~HasAccess(a[1], a[2])
      BY <2>1, <2>2 DEF Init, HasAccess
    <2>4. QED
      BY <2>3 DEF Counted
  <1>5. ASSUME NEW p \in Proc PROVE Standing(p) /\ Adding(p) /\ Removing(p) /\ Asking(p)
    BY DEF Init, Standing, Adding, Removing, Asking
  <1>6. QED
    BY <1>2, <1>3, <1>4, <1>5 DEF IInv

\* A step lets nobody in but by a fresh decision.
Admits == \A p \in Proc : pc[p] # "granted" /\ pc'[p] = "granted" => gone[Key(p)'] <= AuthTtl

LEMMA NextDoes == IInv /\ [Next]_vars => IInv' /\ Admits
  <1> SUFFICES ASSUME IInv, [Next]_vars PROVE IInv' /\ Admits
    OBVIOUS
  <1>1. CASE UNCHANGED vars
    <2>1. UNCHANGED <<member, cache, pc, req, tasks, todo, found, saw, gone, setting>>
      BY <1>1 DEF vars, call
    <2>2. TypeOK' /\ Remembered' /\ Counted'
      BY <2>1 DEF IInv, TypeOK, Remembered, Counted, HasAccess, AuthGroups
    <2>3. \A p \in Proc : Standing(p)' /\ Adding(p)' /\ Removing(p)' /\ Asking(p)'
      BY <2>1, SameLists
      DEF IInv, Standing, Adding, Removing, Asking, Undisturbed, HasAccess, Key
    <2>4. QED
      BY <2>1, <2>2, <2>3 DEF IInv, Admits
  <1>2. ASSUME NEW p \in Proc, Check(p) \/ Keep(p) PROVE IInv' /\ Admits
    BY <1>2, CheckDoes, KeepDoes DEF Admits
  <1>3. ASSUME NEW p \in Proc, NEW g \in Group,
               Post(p, g) \/ Again(p, g) \/ Members(p, g) \/ PageFails(p, g)
        PROVE  IInv' /\ Admits
    <2>1. \A q \in Proc : pc'[q] = pc[q] \/ pc'[q] \in {"error", "ok"}
      BY <1>3 DEF Post, Again, Members, PageFails, Then, Ended, IInv, TypeOK
    <2>2. QED
      BY <1>3, <2>1, TaskStepKeeps DEF Admits
  <1>4. ASSUME NEW p \in Proc, AddUser(p) \/ RemoveUser(p) PROVE IInv' /\ Admits
    <2>1. \A q \in Proc : pc'[q] = pc[q] \/ pc'[q] \in {"adding", "list", "choose"}
      BY <1>4 DEF AddUser, RemoveUser, Start, Goto, IInv, TypeOK
    <2>2. QED
      BY <1>4, <2>1, AddUserKeeps, RemoveUserKeeps DEF Admits
  <1>5. ASSUME NEW p \in Proc, CallStep(p), ~Keep(p) PROVE IInv' /\ Admits
    <2>1. \A q \in Proc : pc'[q] = pc[q]
            \/ pc'[q] \in {"error", "ok", "delete", "keep", "idle"}
      BY <1>5 DEF CallStep, Choose, ListOne, Listed, Delete, Visited, Removed, Ask, End,
                  Goto, IInv, TypeOK
    <2>2. QED
      BY <1>5, <2>1, ChooseKeeps, ListOneKeeps, ListedKeeps, DeleteKeeps, RemovedKeeps,
         AskKeeps, EndKeeps
      DEF CallStep, Admits
  <1>6. CASE Tick
    BY <1>6, TickKeeps DEF Tick, call, Admits
  <1>7. QED
    BY <1>1, <1>2, <1>3, <1>4, <1>5, <1>6 DEF Next, TaskStep

\* The invariant of the runs: every request is where its operation leads it, and
\* what it has found is true unless another request has touched its user.
THEOREM Invariance == Spec => []IInv
  BY InitKeeps, NextDoes, PTL DEF Spec

\* An addition or a removal that is answered with success holds: for any access
\* lists and any number of requests.
THEOREM SuccessIsTrue == Spec => []AnswersHold
  <1>1. IInv => AnswersHold
    <2> SUFFICES ASSUME IInv PROVE AnswersHold
      OBVIOUS
    <2>1. AddedIsIn
      <3> SUFFICES ASSUME NEW p \in Proc, pc[p] = "ok", req[p].op = "add", Undisturbed(p),
                          NEW g \in AddTo(req[p].role)
                   PROVE  member[g][req[p].user] # Nil
        BY DEF AddedIsIn
      <3>1. req[p] # Nil /\ req[p].role \in Role /\ \A h \in Group : tasks[p][h] = "none"
        BY DEF IInv, Standing, TypeOK, Request
      <3>2. g \in Group
        BY <3>1, Lists DEF IInv
      <3>3. QED
        BY <3>1, <3>2 DEF IInv, Adding
    <2>2. RemovedIsOut
      <3> SUFFICES ASSUME NEW p \in Proc, pc[p] = "ok", req[p].op = "remove", saw[p] = {},
                          Plain(setting.admins), Plain(setting.viewers)
                   PROVE  \A g \in AddTo("admin") : member[g][req[p].user] = Nil
        BY DEF RemovedIsOut
      <3>1. req[p] # Nil
        BY DEF IInv, Standing
      <3>2. QED
        BY <3>1 DEF IInv, Removing
    <2>3. QED
      BY <2>1, <2>2 DEF AnswersHold, IInv
  <1>2. QED
    BY <1>1, Invariance, PTL

\* Nobody who has access is turned away by what is remembered.
THEOREM NobodyTurnedAway == Spec => []NewcomerEnters
  <1>1. IInv => NewcomerEnters
    BY DEF IInv, Asking, NewcomerEnters
  <1>2. QED
    BY <1>1, Invariance, PTL

\* Nobody is let in by a decision that is outdated for longer than decisions
\* are remembered.
THEOREM LossIsNoticed == Spec => LossTakesEffect
  <1>1. IInv /\ [Next]_vars => [Admits]_vars
    BY NextDoes
  <1>2. Spec => [][Admits]_vars
    BY <1>1, Invariance, PTL DEF Spec
  <1>3. QED
    BY <1>2 DEF LossTakesEffect, Admits
=============================================================================
