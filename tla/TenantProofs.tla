---------------------------- MODULE TenantProofs ----------------------------
(***************************************************************************)
(* Theorems about Tenant, for any number of requests, instances and        *)
(* subprojects and any number of creations.                                *)
(***************************************************************************)
EXTENDS Tenant, TLAPS

\* The ways a request moves keep the types of its own state.
CallOK ==
  /\ pc \in [Proc -> Label]
  /\ req \in [Proc -> Request \cup {Nil}]
  /\ got \in [Proc -> Version \cup {None}]
  /\ known \in [Proc -> SUBSET Answer]

LEMMA EndTypes ==
  ASSUME CallOK, NEW p \in Proc, End(p)
  PROVE  CallOK'
  BY DEF CallOK, End, Goto, Take, Label, Version, None

LEMMA GoTypes ==
  ASSUME CallOK, NEW p \in Proc, NEW l \in Label, Go(p, l)
  PROVE  CallOK'
  BY DEF CallOK, Go, Goto

LEMMA TakeTypes ==
  ASSUME CallOK, NEW p \in Proc, NEW l \in Label, NEW v \in Version \cup {None},
         Goto(p, l), Take(p, v), UNCHANGED <<req, known>>
  PROVE  CallOK'
  BY DEF CallOK, Goto, Take

\* The ways a request goes on: it moves, goes on with a tenant, or ends.
LEMMA WithFacts ==
  ASSUME NEW p \in Proc, NEW v, With(p, v)
  PROVE  \/ End(p)
         \/ \E l \in {"list", "findSub", "findApp"} :
              Goto(p, l) /\ Take(p, v) /\ UNCHANGED <<req, known>>
  BY DEF With

\* A request past its lookup has a version, and with it a project.
LEMMA WhereFacts ==
  ASSUME TypeOK, Hands, NEW p \in Proc, pc[p] \in Past
  PROVE  got[p] \in Version /\ Where(p) \in Project
  BY TenantAssumption DEF TypeOK, Hands, Setting, Home, Where, None, Past

\* Subprojects stay where they are when only the versions made go up.
LEMMA SubsStay ==
  ASSUME TypeOK, Versions, subs' = subs, setting' = setting, made' \in {made, made + 1},
         NEW j \in Project, NEW s \in Sub
  PROVE  /\ subs'[j][s].of <= made'
         /\ subs'[j][s].of # None => Home(subs[j][s].of)' = j
  <1>1. subs[j][s].of \in Nat /\ made \in Nat /\ subs[j][s].of <= made
    BY TenantAssumption DEF TypeOK, Versions, Version, None
  <1>2. subs'[j][s].of <= made'
    BY <1>1
  <1>3. subs[j][s].of # None => Home(subs[j][s].of) = j
    BY DEF Versions
  <1>4. subs'[j][s].of # None => Home(subs[j][s].of)' = j
    BY <1>3 DEF Home
  <1>5. QED
    BY <1>2, <1>4

\* The invariant holds at the start.
LEMMA InitInv == Init => IInv
  <1> SUFFICES ASSUME Init PROVE IInv
    OBVIOUS
  <1> USE TenantAssumption DEF Init, None, NoSub, Version
  <1>1. TypeOK
    BY DEF TypeOK, Label, Answer
  <1>2. Versions /\ Hands /\ Looked /\ Known
    BY DEF Versions, Hands, Looked, Known, At, Past
  <1>3. OwnDeletionSeen /\ NothingAbandoned /\ AnswersStand
    BY DEF OwnDeletionSeen, NothingAbandoned, AnswersStand, At
  <1>4. QED
    BY <1>1, <1>2, <1>3 DEF IInv

\* A request begins with what has been answered so far.
LEMMA BeginKeeps == ASSUME IInv, NEW p \in Proc, Begin(p) PROVE IInv'
  <1> USE TenantAssumption
      DEF IInv, Begin, At, Goto, Go, Take, End, On, Home, Where, None, Version, call, history
  <1>1. TypeOK'
    BY DEF TypeOK, Label, Answer, Known, Request
  <1>2. Versions'
    BY DEF TypeOK, Versions, Known, Request
  <1>3. Hands'
    BY DEF TypeOK, Hands, Past, Versions, Known, Request
  <1>4. Looked'
    BY DEF TypeOK, Looked, NoSub
  <1>5. Known'
    BY DEF TypeOK, Known
  <1>6. OwnDeletionSeen'
    BY DEF TypeOK, OwnDeletionSeen, Hands, Known, Request
  <1>7. NothingAbandoned'
    BY DEF TypeOK, NothingAbandoned, Looked, Versions, NoSub
  <1>8. AnswersStand'
    BY DEF TypeOK, AnswersStand, Known, Versions, Answer
  <1>9. QED
    BY <1>1, <1>2, <1>3, <1>4, <1>5, <1>6, <1>7, <1>8

\* A request ends with an error.
LEMMA RefuseKeeps == ASSUME IInv, NEW p \in Proc, Refuse(p) PROVE IInv'
  <1> USE TenantAssumption
      DEF IInv, Refuse, At, Goto, Go, Take, End, On, Home, Where, None, Version, call, history
  <1>1. TypeOK'
    BY DEF TypeOK, Label, Answer, Known, Request
  <1>2. Versions'
    BY DEF TypeOK, Versions, Known, Request
  <1>3. Hands'
    BY DEF TypeOK, Hands, Past, Versions, Known, Request
  <1>4. Looked'
    BY DEF TypeOK, Looked, NoSub
  <1>5. Known'
    BY DEF TypeOK, Known
  <1>6. OwnDeletionSeen'
    BY DEF TypeOK, OwnDeletionSeen, Hands, Known, Request
  <1>7. NothingAbandoned'
    BY DEF TypeOK, NothingAbandoned, Looked, Versions, NoSub
  <1>8. AnswersStand'
    BY DEF TypeOK, AnswersStand, Known, Versions, Answer
  <1>9. QED
    BY <1>1, <1>2, <1>3, <1>4, <1>5, <1>6, <1>7, <1>8

\* The memory answers with a version that is not gone.
LEMMA LookKeeps == ASSUME IInv, NEW p \in Proc, Look(p) PROVE IInv'
  <1> USE TenantAssumption
      DEF IInv, Look, At, Goto, Go, Take, End, On, Home, Where, None, Version, call, history
  <1>0. \/ Go(p, "read")
        \/ End(p)
        \/ \E l \in {"list", "findSub", "findApp"} :
             Goto(p, l) /\ Take(p, cache[On(p)]) /\ UNCHANGED <<req, known>>
    BY WithFacts DEF Look
  <1>h. On(p) \in Inst
    BY DEF TypeOK, Known, Request
  <1>c. CallOK'
    <2>1. CallOK /\ cache[On(p)] \in Version \cup {None}
      BY <1>h DEF TypeOK, CallOK
    <2>2. CASE Go(p, "read")
      BY <2>1, <2>2, GoTypes DEF Label
    <2>3. CASE End(p)
      BY <2>1, <2>3, EndTypes
    <2>4. ASSUME NEW l \in {"list", "findSub", "findApp"},
                 Goto(p, l), Take(p, cache[On(p)]), UNCHANGED <<req, known>>
          PROVE  CallOK'
      BY <2>1, <2>4, TakeTypes DEF Label
    <2>5. QED
      BY <1>0, <2>2, <2>3, <2>4
  <1>1. TypeOK'
    BY <1>c DEF TypeOK, CallOK
  <1>2. Versions'
    <2>1. cache[On(p)] <= made /\ 0 <= made
      BY <1>h DEF TypeOK, Versions
    <2>2. \A q \in Proc : got'[q] <= made
      BY <1>0, <2>1 DEF TypeOK, Versions
    <2>3. QED
      BY <2>2 DEF TypeOK, Versions
  <1>3. Hands'
    BY <1>0 DEF TypeOK, Hands, Past, Versions, Known, Request
  <1>4. Looked'
    BY <1>0 DEF TypeOK, Looked, NoSub
  <1>5. Known'
    BY <1>0 DEF TypeOK, Known
  <1>6. OwnDeletionSeen'
    BY <1>0 DEF TypeOK, OwnDeletionSeen, Hands, Known, Request
  <1>7. NothingAbandoned'
    BY <1>0 DEF TypeOK, NothingAbandoned, Looked, Versions, NoSub
  <1>8. AnswersStand'
    BY <1>0 DEF TypeOK, AnswersStand, Known, Versions, Answer
  <1>9. QED
    BY <1>1, <1>2, <1>3, <1>4, <1>5, <1>6, <1>7, <1>8

\* What the journal has is not gone, nor known to a creation that goes on.
LEMMA ReadKeeps == ASSUME IInv, NEW p \in Proc, Read(p) PROVE IInv'
  <1> USE TenantAssumption
      DEF IInv, Read, At, Goto, Go, Take, End, On, Home, Where, None, Version, call, history
  <1>0. \/ Goto(p, "keep") /\ Take(p, tenant) /\ UNCHANGED <<req, known>>
        \/ Go(p, "save")
        \/ End(p)
    BY DEF Read
  <1>c. CallOK'
    BY <1>0, EndTypes, GoTypes, TakeTypes DEF TypeOK, CallOK, Label
  <1>1. TypeOK'
    BY <1>c DEF TypeOK, CallOK
  <1>2. Versions'
    BY DEF TypeOK, Versions, Known, Request
  <1>3. Hands'
    BY DEF TypeOK, Hands, Past, Versions, Known, Request
  <1>4. Looked'
    BY DEF TypeOK, Looked, NoSub
  <1>5. Known'
    BY DEF TypeOK, Known
  <1>6. OwnDeletionSeen'
    BY DEF TypeOK, OwnDeletionSeen, Hands, Known, Request
  <1>7. NothingAbandoned'
    BY DEF TypeOK, NothingAbandoned, Looked, Versions, NoSub
  <1>8. AnswersStand'
    BY DEF TypeOK, AnswersStand, Known, Versions, Answer
  <1>9. QED
    BY <1>1, <1>2, <1>3, <1>4, <1>5, <1>6, <1>7, <1>8

\* A version put into memory is not gone.
LEMMA KeepKeeps == ASSUME IInv, NEW p \in Proc, Keep(p) PROVE IInv'
  <1> USE TenantAssumption
      DEF IInv, Keep, At, Goto, Go, Take, End, On, Home, Where, None, Version, call, history
  <1>0. \/ End(p)
        \/ \E l \in {"list", "findSub", "findApp"} :
             Goto(p, l) /\ Take(p, got[p]) /\ UNCHANGED <<req, known>>
    BY WithFacts DEF Keep
  <1>1. TypeOK'
    BY <1>0 DEF TypeOK, Label, Answer, Known, Request
  <1>2. Versions'
    BY <1>0 DEF TypeOK, Versions, Known, Request
  <1>3. Hands'
    BY <1>0 DEF TypeOK, Hands, Past, Versions, Known, Request
  <1>4. Looked'
    BY <1>0 DEF TypeOK, Looked, NoSub
  <1>5. Known'
    BY <1>0 DEF TypeOK, Known
  <1>6. OwnDeletionSeen'
    BY <1>0 DEF TypeOK, OwnDeletionSeen, Hands, Known, Request
  <1>7. NothingAbandoned'
    BY <1>0 DEF TypeOK, NothingAbandoned, Looked, Versions, NoSub
  <1>8. AnswersStand'
    BY <1>0 DEF TypeOK, AnswersStand, Known, Versions, Answer
  <1>9. QED
    BY <1>1, <1>2, <1>3, <1>4, <1>5, <1>6, <1>7, <1>8

\* A new version is gone nowhere, and known to nobody.
LEMMA SaveKeeps == ASSUME IInv, NEW p \in Proc, Save(p) PROVE IInv'
  <1> USE TenantAssumption
      DEF IInv, Save, At, Goto, Go, Take, End, On, Home, Where, None, Version, call, history
  <1>1. TypeOK'
    BY DEF TypeOK, Label, Answer, Known, Request
  <1>v. made + 1 \in Version /\ made \in Nat
    BY DEF TypeOK
  <1>2. Versions'
    <2>1. tenant' <= made' /\ tenant' \notin erased'
      BY <1>v DEF TypeOK, Versions
    <2>2. \A v \in Version : v \in erased' \/ v \in answered' => v <= made'
      BY <1>v DEF Versions
    <2>3. \A i \in Inst : cache'[i] <= made' /\ gone'[i] \subseteq erased'
      BY <1>v DEF TypeOK, Versions
    <2>4. \A q \in Proc : got'[q] <= made'
      BY <1>v DEF TypeOK, Versions
    <2>5. \A j \in Project, s \in Sub :
            /\ subs'[j][s].of <= made'
            /\ subs'[j][s].of # None => Home(subs[j][s].of)' = j
      BY SubsStay
    <2>6. QED
      BY <2>1, <2>2, <2>3, <2>4, <2>5 DEF Versions
  <1>3. Hands'
    BY DEF TypeOK, Hands, Past, Versions, Known, Request
  <1>4. Looked'
    BY DEF TypeOK, Looked, NoSub
  <1>5. Known'
    BY DEF TypeOK, Known
  <1>6. OwnDeletionSeen'
    BY DEF TypeOK, OwnDeletionSeen, Hands, Known, Request
  <1>7. NothingAbandoned'
    BY DEF TypeOK, NothingAbandoned, Looked, Versions, NoSub
  <1>8. AnswersStand'
    BY DEF TypeOK, AnswersStand, Known, Versions, Answer
  <1>9. QED
    BY <1>1, <1>2, <1>3, <1>4, <1>5, <1>6, <1>7, <1>8

\* So is it when it is put into memory.
LEMMA RememberKeeps == ASSUME IInv, NEW p \in Proc, Remember(p) PROVE IInv'
  <1> USE TenantAssumption
      DEF IInv, Remember, At, Goto, Go, Take, End, On, Home, Where, None, Version, call, history
  <1>h. On(p) \in Inst /\ got[p] \in Version
    BY WhereFacts DEF TypeOK, Known, Request, Past
  <1>c. CallOK'
    BY EndTypes DEF TypeOK, CallOK
  <1>1. TypeOK'
    BY <1>h, <1>c DEF TypeOK, CallOK, Answer
  <1>2. Versions'
    BY DEF TypeOK, Versions, Known, Request
  <1>3. Hands'
    BY DEF TypeOK, Hands, Past, Versions, Known, Request
  <1>4. Looked'
    BY DEF TypeOK, Looked, NoSub
  <1>5. Known'
    BY <1>h DEF TypeOK, Known, Answer
  <1>6. OwnDeletionSeen'
    BY DEF TypeOK, OwnDeletionSeen, Hands, Known, Request
  <1>7. NothingAbandoned'
    BY DEF TypeOK, NothingAbandoned, Looked, Versions, NoSub
  <1>8. AnswersStand'
    BY DEF TypeOK, AnswersStand, Known, Versions, Answer
  <1>9. QED
    BY <1>1, <1>2, <1>3, <1>4, <1>5, <1>6, <1>7, <1>8

\* A deletion goes on when there is no subproject.
LEMMA ListKeeps == ASSUME IInv, NEW p \in Proc, List(p) PROVE IInv'
  <1> USE TenantAssumption
      DEF IInv, List, At, Goto, Go, Take, End, On, Home, Where, None, Version, call, history
  <1>1. TypeOK'
    BY DEF TypeOK, Label, Answer, Known, Request
  <1>2. Versions'
    BY DEF TypeOK, Versions, Known, Request
  <1>3. Hands'
    BY DEF TypeOK, Hands, Past, Versions, Known, Request
  <1>4. Looked'
    BY DEF TypeOK, Looked, NoSub
  <1>5. Known'
    BY DEF TypeOK, Known
  <1>6. OwnDeletionSeen'
    BY DEF TypeOK, OwnDeletionSeen, Hands, Known, Request
  <1>7. NothingAbandoned'
    BY DEF TypeOK, NothingAbandoned, Looked, Versions, NoSub
  <1>8. AnswersStand'
    BY DEF TypeOK, AnswersStand, Known, Versions, Answer
  <1>9. QED
    BY <1>1, <1>2, <1>3, <1>4, <1>5, <1>6, <1>7, <1>8

\* What subprojects there are when the record goes are late.
LEMMA EraseKeeps == ASSUME IInv, NEW p \in Proc, Erase(p) PROVE IInv'
  <1> USE TenantAssumption
      DEF IInv, Erase, At, Goto, Go, Take, End, On, Home, Where, None, Version, call, history
  <1>h. On(p) \in Inst
    BY DEF TypeOK, Known, Request
  <1>c. CallOK'
    BY EndTypes, TakeTypes DEF TypeOK, CallOK, Label
  <1>1. TypeOK'
    BY <1>c DEF TypeOK, CallOK
  <1>2. Versions'
    <2>1. tenant' <= made' /\ tenant' \notin erased'
      BY DEF TypeOK, Versions
    <2>2. \A v \in Version : v \in erased' \/ v \in answered' => v <= made'
      BY DEF TypeOK, Versions
    <2>3. \A i \in Inst : cache'[i] <= made' /\ gone'[i] \subseteq erased'
      BY DEF TypeOK, Versions
    <2>4. \A q \in Proc : got'[q] <= made'
      BY DEF TypeOK, Versions
    <2>5. \A j \in Project, s \in Sub :
            /\ subs'[j][s].of <= made'
            /\ subs'[j][s].of # None => Home(subs[j][s].of)' = j
      BY SubsStay
    <2>6. QED
      BY <2>1, <2>2, <2>3, <2>4, <2>5 DEF Versions
  <1>3. Hands'
    BY DEF TypeOK, Hands, Past, Versions, Known, Request
  <1>4. Looked'
    BY DEF TypeOK, Looked, NoSub
  <1>5. Known'
    BY DEF TypeOK, Known
  <1>6. OwnDeletionSeen'
    BY DEF TypeOK, OwnDeletionSeen, Hands, Known, Request
  <1>7. NothingAbandoned'
    BY DEF TypeOK, NothingAbandoned, Looked, Versions, NoSub
  <1>8. AnswersStand'
    BY DEF TypeOK, AnswersStand, Known, Versions, Answer
  <1>9. QED
    BY <1>1, <1>2, <1>3, <1>4, <1>5, <1>6, <1>7, <1>8

\* The version that is gone is neither in memory nor at hand.
LEMMA ForgetKeeps == ASSUME IInv, NEW p \in Proc, Forget(p) PROVE IInv'
  <1> USE TenantAssumption
      DEF IInv, Forget, At, Goto, Go, Take, End, On, Home, Where, None, Version, call, history
  <1>1. TypeOK'
    BY DEF TypeOK, Label, Answer, Known, Request, Gone, AtHand
  <1>2. Versions'
    BY DEF TypeOK, Versions, Known, Request, Hands, Gone
  <1>3. Hands'
    BY DEF TypeOK, Hands, Past, Versions, Known, Request, Gone, AtHand
  <1>4. Looked'
    BY DEF TypeOK, Looked, NoSub, Gone, AtHand
  <1>5. Known'
    BY DEF TypeOK, Known, Gone, AtHand
  <1>6. OwnDeletionSeen'
    BY DEF TypeOK, OwnDeletionSeen, Hands, Known, Request, Gone, AtHand
  <1>7. NothingAbandoned'
    BY DEF TypeOK, NothingAbandoned, Looked, Versions, NoSub, Gone, AtHand
  <1>8. AnswersStand'
    BY DEF TypeOK, AnswersStand, Known, Versions, Answer, Gone, AtHand
  <1>9. QED
    BY <1>1, <1>2, <1>3, <1>4, <1>5, <1>6, <1>7, <1>8

\* Looking for a subproject changes only the request.
LEMMA FindSubKeeps == ASSUME IInv, NEW p \in Proc, FindSub(p) PROVE IInv'
  <1> USE TenantAssumption
      DEF IInv, FindSub, At, Goto, Go, Take, End, On, Home, Where, None, Version, call, history
  <1>1. TypeOK'
    BY DEF TypeOK, Label, Answer, Known, Request
  <1>2. Versions'
    BY DEF TypeOK, Versions, Known, Request
  <1>3. Hands'
    BY DEF TypeOK, Hands, Past, Versions, Known, Request
  <1>4. Looked'
    BY DEF TypeOK, Looked, NoSub
  <1>5. Known'
    BY DEF TypeOK, Known
  <1>6. OwnDeletionSeen'
    BY DEF TypeOK, OwnDeletionSeen, Hands, Known, Request
  <1>7. NothingAbandoned'
    BY DEF TypeOK, NothingAbandoned, Looked, Versions, NoSub
  <1>8. AnswersStand'
    BY DEF TypeOK, AnswersStand, Known, Versions, Answer
  <1>9. QED
    BY <1>1, <1>2, <1>3, <1>4, <1>5, <1>6, <1>7, <1>8

\* A subproject written next to a deletion is late.
LEMMA SaveSubKeeps == ASSUME IInv, NEW p \in Proc, SaveSub(p) PROVE IInv'
  <1> USE TenantAssumption
      DEF IInv, SaveSub, At, Goto, Go, Take, End, On, Home, Where, None, Version, call, history
  <1>h. got[p] \in Version /\ Where(p) \in Project /\ req[p].sub \in Sub
    BY WhereFacts DEF TypeOK, Known, Request, Past
  <1>l. Late(got[p]) \in BOOLEAN
    BY DEF Late
  <1>s. \A j \in Project, s \in Sub : subs'[j][s] =
          IF j = Where(p) /\ s = req[p].sub
            THEN [of |-> got[p], late |-> Late(got[p])] ELSE subs[j][s]
    BY <1>h DEF TypeOK
  <1>1. TypeOK'
    BY DEF TypeOK, Label, Answer, Known, Request, Late
  <1>2. Versions'
    BY SMTT(60) DEF TypeOK, Versions, Known, Request, Late
  <1>3. Hands'
    BY DEF TypeOK, Hands, Past, Versions, Known, Request, Late
  <1>4. Looked'
    <2>1. \A q \in Proc : pc'[q] = "erase" => q # p /\ pc[q] = "erase" /\ got'[q] = got[q]
      BY DEF TypeOK
    <2>2. \A q \in Proc : pc[q] = "erase" => Where(q) \in Project
      BY WhereFacts DEF Past
    <2>3. \A q \in Proc : pc[q] = "erase" /\ Where(q) = Where(p) => Late(got[p])
      BY DEF Late
    <2>4. QED
      BY <2>1, <2>2, <2>3, <1>s, <1>h, <1>l DEF Looked, NoSub
  <1>5. Known'
    BY DEF TypeOK, Known, Late
  <1>6. OwnDeletionSeen'
    BY DEF TypeOK, OwnDeletionSeen, Hands, Known, Request, Late
  <1>7. NothingAbandoned'
    <2>1. got[p] \in erased => Late(got[p])
      BY DEF Late
    <2>2. QED
      BY <2>1, <1>s, <1>h, <1>l DEF NothingAbandoned
  <1>8. AnswersStand'
    BY DEF TypeOK, AnswersStand, Known, Versions, Answer, Late
  <1>9. QED
    BY <1>1, <1>2, <1>3, <1>4, <1>5, <1>6, <1>7, <1>8

\* Removing a subproject leaves none to abandon.
LEMMA DropSubKeeps == ASSUME IInv, NEW p \in Proc, DropSub(p) PROVE IInv'
  <1> USE TenantAssumption
      DEF IInv, DropSub, At, Goto, Go, Take, End, On, Home, Where, None, Version, call, history
  <1>h. Where(p) \in Project /\ req[p].sub \in Sub
    BY WhereFacts DEF TypeOK, Known, Request, Past
  <1>c. CallOK'
    BY EndTypes DEF TypeOK, CallOK
  <1>1. TypeOK'
    BY <1>h, <1>c DEF TypeOK, CallOK, NoSub
  <1>s. \A j \in Project, s \in Sub : subs'[j][s] =
          IF j = Where(p) /\ s = req[p].sub THEN NoSub ELSE subs[j][s]
    BY <1>h DEF TypeOK
  <1>2. Versions'
    <2>1. \A q \in Proc : got'[q] <= made
      BY DEF TypeOK, Versions
    <2>2. \A j \in Project, s \in Sub :
            /\ subs'[j][s].of <= made
            /\ subs'[j][s].of # None => Home(subs'[j][s].of) = j
      BY <1>s DEF TypeOK, Versions, NoSub
    <2>3. tenant <= made /\ tenant \notin erased
      BY DEF Versions
    <2>4. QED
      BY <2>1, <2>2, <2>3 DEF Versions
  <1>3. Hands'
    BY DEF TypeOK, Hands, Past, Versions, Known, Request
  <1>4. Looked'
    BY DEF TypeOK, Looked, NoSub
  <1>5. Known'
    BY DEF TypeOK, Known
  <1>6. OwnDeletionSeen'
    BY DEF TypeOK, OwnDeletionSeen, Hands, Known, Request
  <1>7. NothingAbandoned'
    BY DEF TypeOK, NothingAbandoned, Looked, Versions, NoSub
  <1>8. AnswersStand'
    BY DEF TypeOK, AnswersStand, Known, Versions, Answer
  <1>9. QED
    BY <1>1, <1>2, <1>3, <1>4, <1>5, <1>6, <1>7, <1>8

\* A registration goes on only where no trust was answered.
LEMMA FindAppKeeps == ASSUME IInv, NEW p \in Proc, FindApp(p) PROVE IInv'
  <1> USE TenantAssumption
      DEF IInv, FindApp, At, Goto, Go, Take, End, On, Home, Where, None, Version, call, history
  <1>0. Go(p, "saveApp") \/ End(p)
    BY DEF FindApp
  <1>1. TypeOK'
    BY <1>0 DEF TypeOK, Label, Answer, Known, Request
  <1>2. Versions'
    BY DEF TypeOK, Versions, Known, Request
  <1>3. Hands'
    BY DEF TypeOK, Hands, Past, Versions, Known, Request
  <1>4. Looked'
    BY DEF TypeOK, Looked, NoSub
  <1>5. Known'
    BY DEF TypeOK, Known
  <1>6. OwnDeletionSeen'
    BY DEF TypeOK, OwnDeletionSeen, Hands, Known, Request
  <1>7. NothingAbandoned'
    BY DEF TypeOK, NothingAbandoned, Looked, Versions, NoSub
  <1>8. AnswersStand'
    <2>1. Where(p) \in Project
      BY WhereFacts DEF Past
    <2>2. Go(p, "saveApp") /\ req[p].op = "register" => Where(p) \notin known[p]
      <3>1. CASE req[p].op = "register" /\ app[Where(p)] # "none"
        BY <3>1 DEF TypeOK, FindApp, Label
      <3>2. CASE req[p].op = "register" /\ app[Where(p)] = "none"
        BY <2>1, <3>2 DEF Known
      <3>3. QED
        BY <3>1, <3>2
    <2>3. QED
      BY <1>0, <2>2 DEF TypeOK, AnswersStand
  <1>9. QED
    BY <1>1, <1>2, <1>3, <1>4, <1>5, <1>6, <1>7, <1>8

\* A trust that is answered has a record.
LEMMA SaveAppKeeps == ASSUME IInv, NEW p \in Proc, SaveApp(p) PROVE IInv'
  <1> USE TenantAssumption
      DEF IInv, SaveApp, At, Goto, Go, Take, End, On, Home, Where, None, Version, call, history
  <1>h. Where(p) \in Project /\ Where(p) \notin Version
    BY WhereFacts DEF Past
  <1>c. CallOK'
    BY EndTypes DEF TypeOK, CallOK
  <1>1. TypeOK'
    BY <1>h, <1>c DEF TypeOK, CallOK, Answer
  <1>2. Versions'
    <2>1. \A v \in Version : v \in answered' => v \in answered
      BY <1>h
    <2>2. \A q \in Proc : got'[q] <= made
      BY DEF TypeOK, Versions
    <2>3. QED
      BY <2>1, <2>2 DEF Versions
  <1>3. Hands'
    BY DEF TypeOK, Hands, Past, Versions, Known, Request
  <1>4. Looked'
    BY DEF TypeOK, Looked, NoSub
  <1>5. Known'
    BY DEF TypeOK, Known
  <1>6. OwnDeletionSeen'
    BY DEF TypeOK, OwnDeletionSeen, Hands, Known, Request
  <1>7. NothingAbandoned'
    BY DEF TypeOK, NothingAbandoned, Looked, Versions, NoSub
  <1>8. AnswersStand'
    BY DEF TypeOK, AnswersStand, Known, Versions, Answer
  <1>9. QED
    BY <1>1, <1>2, <1>3, <1>4, <1>5, <1>6, <1>7, <1>8

\* The memory of an instance may forget at any time.
LEMMA LapseKeeps == ASSUME IInv, NEW i \in Inst, Lapse(i) PROVE IInv'
  <1> USE TenantAssumption DEF IInv, Lapse, At, On, Home, Where, None, Version, call, history
  <1>1. TypeOK' /\ Versions' /\ OwnDeletionSeen'
    BY DEF TypeOK, Versions, OwnDeletionSeen
  <1>2. Hands' /\ Looked' /\ Known' /\ NothingAbandoned' /\ AnswersStand'
    BY DEF Hands, Looked, Known, NothingAbandoned, AnswersStand
  <1>3. QED
    BY <1>1, <1>2

\* A stutter changes nothing.
LEMMA StutterKeeps == ASSUME IInv, UNCHANGED vars PROVE IInv'
  <1> USE DEF IInv, At, On, Home, Where, vars, call, history
  <1>1. TypeOK' /\ Versions' /\ Hands' /\ Looked' /\ Known'
    BY DEF TypeOK, Versions, Hands, Looked, Known
  <1>2. OwnDeletionSeen' /\ NothingAbandoned' /\ AnswersStand'
    BY DEF OwnDeletionSeen, NothingAbandoned, AnswersStand
  <1>3. QED
    BY <1>1, <1>2

\* Every step keeps the invariant.
LEMMA StepKeeps == IInv /\ [Next]_vars => IInv'
  <1> SUFFICES ASSUME IInv, [Next]_vars PROVE IInv'
    OBVIOUS
  <1>1. CASE \E p \in Proc : Step(p)
    <2>1. PICK p \in Proc : Step(p)
      BY <1>1
    <2>2. CASE Begin(p) \/ Refuse(p) \/ Look(p) \/ Read(p) \/ Keep(p)
      BY <2>2, BeginKeeps, RefuseKeeps, LookKeeps, ReadKeeps, KeepKeeps
    <2>3. CASE Save(p) \/ Remember(p) \/ List(p) \/ Erase(p) \/ Forget(p)
      BY <2>3, SaveKeeps, RememberKeeps, ListKeeps, EraseKeeps, ForgetKeeps
    <2>4. CASE FindSub(p) \/ SaveSub(p) \/ DropSub(p)
      BY <2>4, FindSubKeeps, SaveSubKeeps, DropSubKeeps
    <2>5. CASE FindApp(p) \/ SaveApp(p)
      BY <2>5, FindAppKeeps, SaveAppKeeps
    <2>6. QED
      BY <2>1, <2>2, <2>3, <2>4, <2>5 DEF Step
  <1>2. CASE \E i \in Inst : Lapse(i)
    BY <1>2, LapseKeeps
  <1>3. CASE UNCHANGED vars
    BY <1>3, StutterKeeps
  <1>4. QED
    BY <1>1, <1>2, <1>3 DEF Next

\* The inductive invariant holds in every behaviour of tenants, subprojects
\* and applications.
THEOREM Invariance == Spec => []IInv
  BY InitInv, StepKeeps, PTL DEF Spec

\* An instance does not serve a tenant that it has deleted itself, unless one
\* of its own calls was still to put it into the memory (TenantDAO).
THEOREM DeletionSeen == Spec => []OwnDeletionSeen
  <1>1. IInv => OwnDeletionSeen
    BY DEF IInv
  <1>2. QED
    BY Invariance, <1>1, PTL

\* A deleted tenant leaves no subproject that its deletion could have found
\* (TenantHandler.delete).
THEOREM NoneAbandoned == Spec => []NothingAbandoned
  <1>1. IInv => NothingAbandoned
    BY DEF IInv
  <1>2. QED
    BY Invariance, <1>1, PTL

\* No creation and no registration undoes what was answered before it began
\* (TenantHandler.create, AppHandler.registerApp).
THEOREM AnswersAreKept == Spec => []AnswersStand
  <1>1. IInv => AnswersStand
    BY DEF IInv
  <1>2. QED
    BY Invariance, <1>1, PTL
=============================================================================
