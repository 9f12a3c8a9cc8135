----------------------------- MODULE CloudProofs -----------------------------
(***************************************************************************)
(* Theorems about the parts that each cloud implements behind an interface *)
(* of the service: Journal, for any finite set of keys, any number of      *)
(* clients and tags, any sizes of pages and queues and all databases, and  *)
(* Credentials, for any number of requests, subprojects, datasets and      *)
(* tokens, any lives of tokens and all clouds.                             *)
(***************************************************************************)
EXTENDS Credentials, Journal, FiniteSetTheorems, WellFoundedInduction, TLAPS

-----------------------------------------------------------------------------
(* Last elements.                                                          *)

\* Each set of natural numbers has a smallest one.
LEMMA Smallest ==
  ASSUME NEW S \in SUBSET Nat, S # {} PROVE \E n \in S : \A m \in S : n =< m
  <1> DEFINE Less == {e \in Nat \X Nat : e[1] < e[2]}
  <1>1. IsWellFoundedOn(Less, Nat)
    BY NatLessThanWellFounded DEF OpToRel
  <1>2. \A m, n \in Nat : m < n => <<m, n>> \in Less
    OBVIOUS
  <1> HIDE DEF Less
  <1>3. PICK n \in S : \A m \in S : ~(<<m, n>> \in Less)
    BY <1>1, WFMin
  <1>4. \A m \in S : m \in Nat /\ ~(m < n)
    BY <1>2, <1>3
  <1>5. n \in Nat
    BY <1>3
  <1>6. QED
    BY <1>3, <1>4, <1>5

\* R orders the elements of S.
Orders(R, S) ==
  /\ \A a, b \in S : a # b => <<a, b>> \in R \/ <<b, a>> \in R
  /\ \A a, b, d \in S : <<a, b>> \in R /\ <<b, d>> \in R => <<a, d>> \in R

Ends(R, S) == \E k \in S : \A a \in S \ {k} : <<a, k>> \in R

\* A finite set with a total order has a last element: a smallest subset
\* without one would have a last element once one of its own is removed.
LEMMA HasLast ==
  ASSUME NEW S, IsFiniteSet(S), S # {}, NEW R, Orders(R, S)
  PROVE  Ends(R, S)
  <1> DEFINE Last(X, k) == k \in X /\ \A a \in X \ {k} : <<a, k>> \in R
             Bad   == {X \in SUBSET S : X # {} /\ ~\E k \in X : Last(X, k)}
             Sizes == {n \in Nat : \E X \in Bad : Cardinality(X) = n}
  <1> SUFFICES ASSUME S \in Bad PROVE FALSE
    BY DEF Ends
  <1>1. \A X \in Bad : IsFiniteSet(X) /\ Cardinality(X) \in Nat
    BY FS_Subset, FS_CardinalityType
  <1>2. Sizes # {} /\ Sizes \subseteq Nat
    BY <1>1
  <1>3. PICK n \in Sizes : \A m \in Sizes : n =< m
    BY <1>2, Smallest
  <1>4. n \in Nat /\ \A m \in Sizes : m \in Nat /\ n =< m
    BY <1>2, <1>3
  <1>5. PICK X \in Bad : Cardinality(X) = n
    OBVIOUS
  <1>6. PICK x \in X : TRUE
    OBVIOUS
  <1> DEFINE Y == X \ {x}
  <1>7. Y # {}
    <2> SUFFICES ASSUME Y = {} PROVE Last(X, x)
      OBVIOUS
    <2> QED
      OBVIOUS
  <1>8. Cardinality(Y) = n - 1 /\ n - 1 \in Nat
    <2>1. IsFiniteSet(X) /\ IsFiniteSet(Y)
      BY <1>1, FS_RemoveElement
    <2>2. Cardinality(X) \in Nat /\ Cardinality(Y) \in Nat
      BY <2>1, FS_CardinalityType
    <2>3. Cardinality(Y) = Cardinality(X) - 1
      BY <1>6, <2>1, FS_RemoveElement
    <2> QED
      BY <1>5, <2>2, <2>3
  <1>9. Y \notin Bad
    <2>1. n - 1 \notin Sizes
      <3> HIDE DEF Sizes
      <3> QED
        BY <1>4, <1>8
    <2> QED
      BY <2>1, <1>8
  <1>10. PICK l \in Y : Last(Y, l)
    BY <1>7, <1>9
  <1> USE DEF Orders
  <1>11. CASE <<x, l>> \in R
    <2>1. Last(X, l)
      BY <1>10, <1>11
    <2> QED
      BY <2>1
  <1>12. CASE <<l, x>> \in R
    <2>1. Last(X, x)
      BY <1>10, <1>12
    <2> QED
      BY <2>1
  <1> QED
    BY <1>10, <1>11, <1>12

\* Keys are positive numbers, and finitely many.
LEMMA KeyFacts ==
  /\ Key \subseteq Nat \ {0} /\ None \notin Key /\ IsFiniteSet(Key)
  /\ \A t \in SUBSET Tag : t # Absent
  BY JournalAssumption DEF Key, Absent

\* The last row of a page is one of its rows, and no other comes after it.
LEMMA LastOfFacts ==
  ASSUME Ordered, NEW K \in SUBSET Present, K # {}
  PROVE  LastOf(K) \in K /\ \A a \in K \ {LastOf(K)} : Earlier(a, LastOf(K))
  <1> USE DEF Is
  <1>1. IsFiniteSet(K) /\ K \subseteq Nat
    BY KeyFacts, FS_Subset DEF Present
  <1>2. \E k \in K : \A a \in K \ {k} : Earlier(a, k)
    <2>1. CASE Is({"postgres"})
      <3>1. Orders(older, K)
        BY <2>1 DEF Ordered, Orders
      <3>2. Ends(older, K)
        BY <1>1, <3>1, HasLast
      <3> QED
        BY <3>2, <2>1 DEF Earlier, Ends
    <2>2. CASE ~Is({"postgres"})
      <3> DEFINE R == {e \in K \X K : e[1] < e[2]}
      <3>1. Orders(R, K)
        BY <1>1 DEF Orders
      <3>2. \A a, b \in K : <<a, b>> \in R => a < b
        OBVIOUS
      <3> HIDE DEF R
      <3>3. Ends(R, K)
        BY <1>1, <3>1, HasLast
      <3> QED
        BY <3>2, <3>3, <2>2 DEF Earlier, Ends
    <2> QED
      BY <2>1, <2>2
  <1> QED
    BY <1>2 DEF LastOf
-----------------------------------------------------------------------------
(* Operations.                                                             *)

\* The last operation on a key is the one after which there is no other.
LEMMA LastOnIs ==
  ASSUME NEW s \in Seq(Operation), NEW k, NEW i \in DOMAIN s, s[i].key = k,
         \A j \in DOMAIN s : j > i => s[j].key # k
  PROVE  LastOn(s, k) = s[i]
  <1> DEFINE Is_(m) == s[m].key = k /\ \A j \in DOMAIN s : j > m => s[j].key # k
  <1>1. \A m \in DOMAIN s : Is_(m) => m = i
    <2>1. DOMAIN s \subseteq Nat
      OBVIOUS
    <2> QED
      BY <2>1
  <1>2. (CHOOSE m \in DOMAIN s : Is_(m)) = i
    BY <1>1
  <1> QED
    BY <1>2 DEF LastOn

\* There is one for each of the keys.
LEMMA LastOnFacts ==
  ASSUME NEW s \in Seq(Operation), NEW k \in KeysOf(s)
  PROVE  \E i \in DOMAIN s : /\ s[i].key = k /\ \A j \in DOMAIN s : j > i => s[j].key # k
                             /\ LastOn(s, k) = s[i]
  <1>1. DOMAIN s \subseteq Nat /\ Len(s) \in Nat /\ \A i \in DOMAIN s : i =< Len(s)
    OBVIOUS
  <1> DEFINE On == {n \in Nat : \E i \in DOMAIN s : n = Len(s) - i /\ s[i].key = k}
  <1>2. On # {}
    <2>1. PICK i \in DOMAIN s : s[i].key = k
      BY DEF KeysOf
    <2>2. Len(s) - i \in On
      BY <1>1, <2>1
    <2> QED
      BY <2>2
  <1>3. PICK n \in On : \A m \in On : n =< m
    BY <1>2, Smallest
  <1>4. PICK i \in DOMAIN s : n = Len(s) - i /\ s[i].key = k
    BY <1>3
  <1>5. \A j \in DOMAIN s : j > i => s[j].key # k
    <2> SUFFICES ASSUME NEW j \in DOMAIN s, j > i, s[j].key = k PROVE FALSE
      OBVIOUS
    <2>1. Len(s) - j \in On /\ Len(s) - j < n
      BY <1>1, <1>4
    <2> QED
      BY <1>1, <1>3, <2>1
  <1> QED
    BY <1>4, <1>5, LastOnIs

\* The keys of operations, and what the last of them leaves, have their types.
LEMMA ContentType ==
  ASSUME NEW s \in Seq(Operation)
  PROVE  /\ KeysOf(s) \in SUBSET Key
         /\ \A k \in KeysOf(s) : Content(LastOn(s, k)) \in (SUBSET Tag) \cup {Absent}
  <1>1. \A i \in DOMAIN s : s[i] \in Operation
    OBVIOUS
  <1>2. KeysOf(s) \in SUBSET Key
    BY <1>1 DEF KeysOf, Operation
  <1>3. ASSUME NEW k \in KeysOf(s)
        PROVE  Content(LastOn(s, k)) \in (SUBSET Tag) \cup {Absent}
    <2>1. LastOn(s, k) \in Operation
      BY <1>1, LastOnFacts
    <2>2. \A o \in Operation : Content(o) \in (SUBSET Tag) \cup {Absent}
      <3> TAKE o \in Operation
      <3>1. o.tags \in SUBSET Tag
        BY DEF Operation
      <3> QED
        BY <3>1 DEF Content
    <2> QED
      BY <2>1, <2>2
  <1> QED
    BY <1>2, <1>3

\* One operation.
LEMMA Single ==
  ASSUME NEW o \in Operation
  PROVE  <<o>> \in Seq(Operation) /\ KeysOf(<<o>>) = {o.key} /\ LastOn(<<o>>, o.key) = o
  <1>1. <<o>> \in Seq(Operation) /\ DOMAIN <<o>> = {1} /\ <<o>>[1] = o
    OBVIOUS
  <1>2. LastOn(<<o>>, o.key) = <<o>>[1]
    <2> DEFINE s == <<o>>
    <2>1. s \in Seq(Operation) /\ 1 \in DOMAIN s /\ s[1].key = o.key
      BY <1>1
    <2>2. \A j \in DOMAIN s : ~(j > 1)
      BY <1>1
    <2> HIDE DEF s
    <2>3. LastOn(s, o.key) = s[1]
      BY <2>1, <2>2, LastOnIs
    <2> QED
      BY <2>3 DEF s
  <1> QED
    BY <1>1, <1>2 DEF KeysOf

\* A sequence that has a length is not the empty one.
LEMMA NotEmpty == ASSUME NEW s, Len(s) # 0 PROVE s # <<>>
  <1> DEFINE e == <<>>
  <1>1. Len(e) = 0
    OBVIOUS
  <1> HIDE DEF e
  <1>2. s # e
    BY <1>1
  <1> QED
    BY <1>2 DEF e

\* The first m operations are the first n and those from there on; the last one
\* on a key is among the latter, if one of them is on it.
LEMMA Longer ==
  ASSUME NEW s \in Seq(Operation), NEW m \in 0..Len(s), NEW n \in 0..m
  PROVE  LET a == SubSeq(s, 1, n)
             b == SubSeq(s, n + 1, m)
             d == SubSeq(s, 1, m)
         IN /\ a \in Seq(Operation) /\ b \in Seq(Operation) /\ d \in Seq(Operation)
            /\ KeysOf(d) = KeysOf(a) \cup KeysOf(b)
            /\ \A k \in KeysOf(b) : LastOn(d, k) = LastOn(b, k)
            /\ \A k \in KeysOf(a) \ KeysOf(b) : LastOn(d, k) = LastOn(a, k)
  <1> DEFINE a == SubSeq(s, 1, n)
             b == SubSeq(s, n + 1, m)
             d == SubSeq(s, 1, m)
  <1>1. /\ a \in Seq(Operation) /\ Len(a) = n /\ DOMAIN a = 1..n
        /\ \A i \in 1..n : a[i] = s[i]
    OBVIOUS
  <1>2. /\ b \in Seq(Operation) /\ Len(b) = m - n /\ DOMAIN b = 1..(m - n)
        /\ \A i \in 1..(m - n) : b[i] = s[n + i]
    OBVIOUS
  <1>3. /\ d \in Seq(Operation) /\ Len(d) = m /\ DOMAIN d = 1..m
        /\ \A i \in 1..m : d[i] = s[i]
    OBVIOUS
  <1> HIDE DEF a, b, d
  <1>4. \A i \in 1..n : i \in DOMAIN d /\ d[i] = a[i]
    BY <1>1, <1>3
  <1>5. \A i \in 1..(m - n) : n + i \in DOMAIN d /\ d[n + i] = b[i]
    BY <1>2, <1>3
  <1>6. \A j \in DOMAIN d : j \in DOMAIN a \/ (j - n \in DOMAIN b /\ d[j] = b[j - n])
    <2> SUFFICES ASSUME NEW j \in DOMAIN d, j \notin DOMAIN a
                 PROVE  j - n \in DOMAIN b /\ d[j] = b[j - n]
      OBVIOUS
    <2>1. j - n \in 1..(m - n) /\ n + (j - n) = j
      BY <1>1, <1>3
    <2> QED
      BY <2>1, <1>2, <1>5
  <1>7. KeysOf(d) = KeysOf(a) \cup KeysOf(b)
    <2>1. ASSUME NEW k \in KeysOf(d) PROVE k \in KeysOf(a) \cup KeysOf(b)
      <3>1. PICK j \in DOMAIN d : k = d[j].key
        BY DEF KeysOf
      <3> QED
        BY <3>1, <1>1, <1>4, <1>6 DEF KeysOf
    <2>2. KeysOf(a) \subseteq KeysOf(d)
      BY <1>1, <1>4 DEF KeysOf
    <2>3. KeysOf(b) \subseteq KeysOf(d)
      BY <1>2, <1>5 DEF KeysOf
    <2> QED
      BY <2>1, <2>2, <2>3
  <1>8. ASSUME NEW k \in KeysOf(b) PROVE LastOn(d, k) = LastOn(b, k)
    <2>1. PICK i \in DOMAIN b : /\ b[i].key = k /\ LastOn(b, k) = b[i]
                                /\ \A j \in DOMAIN b : j > i => b[j].key # k
      BY <1>2, LastOnFacts
    <2>2. n + i \in DOMAIN d /\ d[n + i] = b[i]
      BY <1>2, <1>5
    <2>3. ASSUME NEW j \in DOMAIN d, j > n + i PROVE d[j].key # k
      <3>1. j - n \in DOMAIN b /\ j - n > i /\ d[j] = b[j - n]
        BY <1>1, <1>2, <1>3, <1>6, <2>3
      <3> QED
        BY <2>1, <3>1
    <2> QED
      BY <1>3, <2>1, <2>2, <2>3, LastOnIs
  <1>9. ASSUME NEW k \in KeysOf(a) \ KeysOf(b) PROVE LastOn(d, k) = LastOn(a, k)
    <2>1. PICK i \in DOMAIN a : /\ a[i].key = k /\ LastOn(a, k) = a[i]
                                /\ \A j \in DOMAIN a : j > i => a[j].key # k
      BY <1>1, LastOnFacts
    <2>2. i \in DOMAIN d /\ d[i] = a[i]
      BY <1>1, <1>4
    <2>3. ASSUME NEW j \in DOMAIN d, j > i PROVE d[j].key # k
      <3>1. CASE j \in DOMAIN a
        BY <1>1, <1>4, <2>1, <2>3, <3>1
      <3>2. CASE j - n \in DOMAIN b /\ d[j] = b[j - n]
        BY <3>2 DEF KeysOf
      <3> QED
        BY <1>6, <3>1, <3>2
    <2> QED
      BY <1>3, <2>1, <2>2, <2>3, LastOnIs
  <1> QED
    BY <1>1, <1>2, <1>3, <1>7, <1>8, <1>9 DEF a, b, d
-----------------------------------------------------------------------------
(* What becomes of the record of a call.                                   *)

\* What a call has asked for, and what it has got, is the same in w and c.
Alike(w, c) ==
  /\ w.op = c.op /\ w.ops = c.ops /\ w.tags = c.tags /\ w.caller = c.caller
  /\ w.got = c.got /\ w.again = c.again /\ w.cut = c.cut

\* A call that watches a change does not move.
LEMMA WatchFacts ==
  ASSUME NEW c \in Call, NEW K, NEW T
  PROVE  LET w == Watch(c, K, T)
         IN /\ w \in Call /\ Alike(w, c)
            /\ w.pc = c.pc /\ w.todo = c.todo /\ w.left = c.left /\ w.wrote = c.wrote
            /\ w.ans = c.ans
            /\ w.mine = c.mine \ K
            /\ w.kept = {k \in c.kept : T[k] # Absent /\ c.tags \subseteq T[k]}
            /\ w.cursor = IF Is({"postgres"}) /\ c.cursor \in Key /\ T[c.cursor] = Absent
                          THEN None ELSE c.cursor
  BY DEF Call, Watch, Alike

\* The answer ends a call.
LEMMA AnswerFacts ==
  ASSUME NEW c \in Call, NEW a \in {"ok", "error", "absent"}
  PROVE  LET w == Answer(c, a)
         IN /\ w \in Call /\ Alike(w, c)
            /\ w.pc = "done" /\ w.ans = a /\ w.kept = c.kept /\ w.wrote = c.wrote
            /\ w.mine = c.mine /\ w.cursor = c.cursor
  <1>1. <<>> \in Seq(Operation)
    OBVIOUS
  <1>2. Answer(c, a) \in Call
    <2> DEFINE e == <<>>
               w == Answer(c, a)
               x == [c EXCEPT !.pc = "done", !.todo = e]
               y == [x EXCEPT !.left = {}, !.doc = "none"]
    <2>1. w = [y EXCEPT !.ans = a]
      BY DEF Answer, Call
    <2>2. e \in Seq(Operation)
      BY <1>1
    <2> HIDE DEF e, w
    <2>3. x \in Call
      BY <2>2 DEF Call
    <2> HIDE DEF x
    <2>4. y \in Call
      BY <2>3 DEF Call
    <2> HIDE DEF y
    <2>5. w \in Call
      BY <2>1, <2>4 DEF Call
    <2> QED
      BY <2>5 DEF w
  <1>3. Alike(Answer(c, a), c)
    BY DEF Call, Answer, Alike
  <1> QED
    BY <1>2, <1>3 DEF Call, Answer

\* A call with operations left to make makes them, or ends.
LEMMA RestFacts ==
  ASSUME NEW c \in Call, c.todo # <<>>
  PROVE  LET w == Rest(c)
         IN /\ w \in Call /\ Alike(w, c)
            /\ w.kept = c.kept /\ w.wrote = c.wrote /\ w.mine = c.mine
            /\ w.cursor = c.cursor
            /\ \/ Len(c.todo) = 1 /\ w.pc = "done" /\ w.ans = "ok"
               \/ Len(c.todo) > 1 /\ w.pc = "apply" /\ w.todo = Tail(c.todo)
  <1>1. c.todo \in Seq(Operation)
    BY DEF Call
  <1>2. CASE Len(c.todo) = 1
    <2>1. Rest(c) = Answer(c, "ok")
      BY <1>2 DEF Rest
    <2> QED
      BY <1>2, <2>1, AnswerFacts
  <1>3. CASE Len(c.todo) # 1
    <2>0. \A s \in Seq(Operation) :
            s # <<>> /\ Len(s) # 1 => Len(s) > 1 /\ Tail(s) \in Seq(Operation)
      <3> SUFFICES ASSUME NEW s \in Seq(Operation), s # <<>>, Len(s) # 1
                   PROVE  Len(s) > 1 /\ Tail(s) \in Seq(Operation)
        OBVIOUS
      <3>1. Len(s) \in Nat /\ Len(s) # 0 /\ \A n \in Nat : n # 0 /\ n # 1 => n > 1
        OBVIOUS
      <3>2. Tail(s) \in Seq(Operation)
        OBVIOUS
      <3> QED
        BY <3>1, <3>2
    <2>1. Len(c.todo) > 1 /\ Tail(c.todo) \in Seq(Operation)
      BY <1>1, <1>3, <2>0
    <2>2. Rest(c) = [c EXCEPT !.pc = "apply", !.todo = Tail(c.todo), !.doc = "none"]
      BY <1>3 DEF Rest
    <2> QED
      BY <2>1, <2>2 DEF Call, Alike
  <1> QED
    BY <1>2, <1>3

\* The call d is the listing c with the records of K.
Takes(d, c, K) ==
  /\ d \in Call /\ c \in Call
  /\ d.pc = c.pc /\ d.op = c.op /\ d.tags = c.tags /\ d.kept = c.kept
  /\ d.cursor = c.cursor /\ (c.cut => d.cut)
  /\ d.got = c.got \cup K /\ d.again = c.again \cup (c.got \cap K)

\* So it is with a page, whether it misses some or not.
LEMMA TookFacts ==
  ASSUME NEW c \in Call, NEW K \in SUBSET Key
  PROVE  Takes(Took(c, K), c, K)
  BY DEF Call, Took, Takes

LEMMA CutFacts ==
  ASSUME NEW c, NEW d, NEW K, Takes(d, c, K)
  PROVE  Takes([d EXCEPT !.cut = TRUE], c, K) /\ [d EXCEPT !.cut = TRUE].cut
  BY DEF Call, Takes
-----------------------------------------------------------------------------
(* Changes of the table, and the calls that watch them.                    *)

\* The table changes under the keys K only, and at most one row is new where
\* the rows have ids.
Changes(K) ==
  /\ table' \in [Key -> (SUBSET Tag) \cup {Absent}]
  /\ \A k \in Key \ K : table'[k] = table[k]
  /\ Store(table')
  /\ Is({"postgres"}) => \A a, b \in K : a = b

\* The ids remain a total order.
LEMMA StoreKeeps ==
  ASSUME JTypeOK, Ordered, NEW K \in SUBSET Key, Changes(K)
  PROVE  older' \subseteq Present' \X Present' /\ Ordered'
  <1> USE DEF Is
  <1>0. scenario' = scenario /\ older' = IF Is({"postgres"}) THEN Numbered(table') ELSE {}
    BY DEF Changes, Store
  <1>1. CASE ~Is({"postgres"})
    BY <1>0, <1>1 DEF Ordered
  <1>2. CASE Is({"postgres"})
    <2>1. \A a, b : <<a, b>> \in older' <=>
            /\ a \in Present' /\ b \in Present'
            /\ <<a, b>> \in older \/ (a \in Present /\ b \notin Present)
      BY <1>0, <1>2 DEF Numbered, Present
    <2>2. older' \subseteq Present' \X Present'
      BY <1>0, <1>2 DEF Numbered, Present
    <2>3. older \subseteq Present \X Present
      BY DEF JTypeOK
    <2>4. \A a, b \in Present' : a \notin Present /\ b \notin Present => a = b
      BY <1>2 DEF Changes, Present
    <2>5. /\ \A a, b \in Present : a # b => <<a, b>> \in older \/ <<b, a>> \in older
          /\ \A a, b \in Present : ~(<<a, b>> \in older /\ <<b, a>> \in older)
          /\ \A a, b, d \in Present :
               <<a, b>> \in older /\ <<b, d>> \in older => <<a, d>> \in older
      BY <1>2 DEF Ordered
    <2>6. ASSUME NEW a \in Present', NEW b \in Present', a # b
          PROVE  <<a, b>> \in older' \/ <<b, a>> \in older'
      BY <2>1, <2>4, <2>5, <2>6
    <2>7. ASSUME NEW a \in Present', NEW b \in Present'
          PROVE  ~(<<a, b>> \in older' /\ <<b, a>> \in older')
      BY <2>1, <2>3, <2>5
    <2>8. ASSUME NEW a \in Present', NEW b \in Present', NEW d \in Present',
                 <<a, b>> \in older', <<b, d>> \in older'
          PROVE  <<a, d>> \in older'
      BY <2>1, <2>3, <2>5, <2>8
    <2>9. Is({"postgres"})'
      BY <1>0, <1>2
    <2> QED
      BY <2>2, <2>6, <2>7, <2>8, <2>9 DEF Ordered
  <1> QED
    BY <1>1, <1>2

\* A call that only watches keeps what it has.
LEMMA WatchKeeps ==
  ASSUME JInv, NEW q \in Client, NEW K \in SUBSET Key, Changes(K),
         client'[q] = Watch(client[q], K, table')
  PROVE  client'[q] \in Call /\ Tracked(client[q])'
  <1> DEFINE c == client[q]
             w == client'[q]
  <1>0. /\ scenario' = scenario /\ \A k \in Key \ K : table'[k] = table[k]
        /\ older' = IF Is({"postgres"}) THEN Numbered(table') ELSE {}
    BY DEF Changes, Store
  <1>1. c \in Call /\ Tracked(c)
    BY DEF JInv, JTypeOK
  <1>2. /\ w \in Call /\ Alike(w, c)
        /\ w.pc = c.pc /\ w.todo = c.todo /\ w.left = c.left /\ w.wrote = c.wrote
        /\ w.ans = c.ans
        /\ w.mine = c.mine \ K
        /\ w.kept = {k \in c.kept : table'[k] # Absent /\ c.tags \subseteq table'[k]}
        /\ w.cursor = IF Is({"postgres"}) /\ c.cursor \in Key /\ table'[c.cursor] = Absent
                      THEN None ELSE c.cursor
    BY <1>1, WatchFacts
  <1>3. /\ c.mine \in SUBSET Key /\ c.kept \in SUBSET Key /\ c.ops \in Seq(Operation)
        /\ c.cursor \in {0, None} \cup Key
    BY <1>1 DEF Call
  <1> USE DEF Alike
  <1> HIDE DEF c, w
  <1>4. /\ Is({"postgres"})' = Is({"postgres"}) /\ Is({"cloudant"})' = Is({"cloudant"})
        /\ Is({"dynamo"})' = Is({"dynamo"}) /\ Is({"datastore"})' = Is({"datastore"})
        /\ Truthful' = Truthful
    BY <1>0 DEF Is, Truthful
  <1>5. \A s : (\A k \in c.mine \cap KeysOf(s) : table[k] = Content(LastOn(s, k))) =>
               \A k \in w.mine \cap KeysOf(s) : table'[k] = Content(LastOn(s, k))
    BY <1>0, <1>2, <1>3
  <1>6. Labelled(client[q])'
    BY <1>1, <1>2, <1>4 DEF Tracked, Labelled, c, w
  <1>7. InOrder(client[q])'
    <2> SUFFICES ASSUME Truthful, w.pc \in {"get", "apply"}
                 PROVE  \E n \in 0..Len(w.ops) : Reached(client[q], n)'
      BY <1>4 DEF InOrder, w
    <2>1. PICK n \in 0..Len(c.ops) : Reached(c, n)
      BY <1>1, <1>2 DEF Tracked, InOrder
    <2>2. Reached(client[q], n)'
      BY <1>2, <1>4, <1>5, <2>1 DEF Reached, Holds, w
    <2> QED
      BY <1>2, <2>1, <2>2
  <1>8. Minded(client[q])'
    BY <1>2 DEF Minded, w
  <1>9. Paged(client[q])'
    <2> SUFFICES ASSUME w.pc \in {"page", "scan"}
                 PROVE  Paged(client[q])'
      BY DEF Paged, w
    <2>1. /\ c.cursor = 0 => c.got = {}
          /\ c.again \cap c.kept = {}
          /\ Is({"cloudant"}) => c.cursor = 0
          /\ ~Is({"postgres"}) =>
               c.cursor # None /\ c.again = {} /\ \A k \in c.got : k =< c.cursor
          /\ c.cursor \in Key =>
               /\ Is({"postgres"}) => c.cursor \in Present
               /\ \A k \in c.kept \cap c.got : k = c.cursor \/ Earlier(k, c.cursor)
               /\ ~c.cut => \A k \in c.kept \ c.got : Earlier(c.cursor, k)
      BY <1>1, <1>2 DEF Tracked, Paged
    <2>2. None # 0 /\ 0 \notin Key /\ None \notin Key
      BY KeyFacts, JournalAssumption
    <2>0. PICK x : x = c.cursor
      OBVIOUS
    <2>3. ASSUME w.cursor \in Key
          PROVE  /\ w.cursor = c.cursor
                 /\ Is({"postgres"}) => w.cursor \in Present'
                 /\ \A k \in w.kept : Earlier(k, x) => Earlier(k, x)'
                 /\ \A k \in w.kept : Earlier(x, k) => Earlier(x, k)'
      <3>1. w.cursor = c.cursor /\ (Is({"postgres"}) => table'[c.cursor] # Absent)
        BY <1>2, <2>2, <2>3
      <3>2. CASE ~Is({"postgres"})
        BY <1>4, <2>0, <3>1, <3>2 DEF Earlier
      <3>3. CASE Is({"postgres"})
        BY <1>0, <1>2, <1>3, <1>4, <2>3, <2>0, <3>1, <3>3 DEF Earlier, Numbered, Present
      <3> QED
        BY <3>1, <3>2, <3>3
    <2>4. w.kept \subseteq c.kept
      BY <1>2
    <2>5. w.cursor = 0 => w.got = {}
      BY <1>2, <2>1, <2>2
    <2>6. w.again \cap w.kept = {} /\ (Is({"cloudant"})' => w.cursor = 0)
      BY <1>2, <1>4, <2>1, <2>2, <2>4
    <2>7. ~Is({"postgres"})' =>
            w.cursor # None /\ w.again = {} /\ \A k \in w.got : k =< w.cursor
      BY <1>2, <1>4, <2>1
    <2>8. w.cursor \in Key =>
            /\ Is({"postgres"})' => w.cursor \in Present'
            /\ \A k \in w.kept \cap w.got : k = w.cursor \/ Earlier(k, x)'
            /\ ~w.cut => \A k \in w.kept \ w.got : Earlier(x, k)'
      BY <1>2, <1>4, <2>1, <2>3, <2>4, <2>0
    <2>9. w.cursor \in Key => w.cursor = x
      BY <2>3, <2>0
    <2> QED
      BY <2>5, <2>6, <2>7, <2>8, <2>9 DEF Paged, w, Earlier
  <1>10. Erasing(client[q])'
    BY <1>1, <1>2, <1>4 DEF Tracked, Erasing, w
  <1>11. Answered(client[q])'
    BY <1>1, <1>2, <1>4, <1>5 DEF Tracked, Answered, Holds, w
  <1> QED
    BY <1>2, <1>6, <1>7, <1>8, <1>9, <1>10, <1>11 DEF Tracked, w
-----------------------------------------------------------------------------
(* A step is one of a client and leaves the others what they have.         *)

LEMMA TrackedStays ==
  ASSUME NEW q \in Client, NEW c, Tracked(c), client'[q] = c,
         UNCHANGED <<scenario, table, older>>
  PROVE  Tracked(client[q])'
  <1> USE DEF Is, Truthful
  <1>1. Labelled(client[q])' /\ Minded(client[q])' /\ Erasing(client[q])'
    BY DEF Tracked, Labelled, Minded, Erasing
  <1>2. InOrder(client[q])'
    BY DEF Tracked, InOrder, Reached, Holds
  <1>3. Paged(client[q])'
    BY DEF Tracked, Paged, Earlier, Present
  <1>4. Answered(client[q])'
    BY DEF Tracked, Answered, Holds
  <1> QED
    BY <1>1, <1>2, <1>3, <1>4 DEF Tracked

\* A step without a change of the table.
LEMMA ContinueKeeps ==
  ASSUME JInv, NEW p \in Client, NEW c \in Call, Continue(p, c),
         detached' \in SUBSET Key, queue' \in [Client -> Seq(Operation)],
         \A q \in Client : Len(queue'[q]) =< QueueMax,
         Tracked(c)
  PROVE  JInv'
  <1>1. /\ client' = [client EXCEPT ![p] = c]
        /\ scenario' = scenario /\ table' = table /\ older' = older
    BY DEF Continue
  <1>2. client' \in [Client -> Call]
    BY <1>1 DEF JInv, JTypeOK
  <1>3. JTypeOK'
    BY <1>1, <1>2 DEF JInv, JTypeOK, Present
  <1>4. Ordered'
    BY <1>1 DEF JInv, Ordered, Present, Is
  <1>5. ASSUME NEW q \in Client PROVE Tracked(client[q])'
    <2>1. CASE q # p
      <3>1. client'[q] = client[q]
        BY <1>1, <2>1 DEF JInv, JTypeOK
      <3> QED
        BY <1>1, <3>1, TrackedStays DEF JInv
    <2>2. CASE q = p
      <3>1. client'[p] = c
        BY <1>1 DEF JInv, JTypeOK
      <3> QED
        BY <1>1, <2>2, <3>1, TrackedStays
    <2> QED
      BY <2>1, <2>2
  <1> QED
    BY <1>3, <1>4, <1>5 DEF JInv

\* A commit that succeeds empties its queue, others leave the queues alone.
LEMMA ClearedFacts ==
  ASSUME JTypeOK, NEW p \in Client, NEW c
  PROVE  /\ Cleared(p, c) \in [Client -> Seq(Operation)]
         /\ \A q \in Client : Len(Cleared(p, c)[q]) =< QueueMax
  <1>1. [queue EXCEPT ![p] = <<>>] \in [Client -> Seq(Operation)]
    BY DEF JTypeOK
  <1>2. Len(<<>>) = 0 /\ 0 =< QueueMax
    BY JournalAssumption
  <1>3. \A q \in Client : Len([queue EXCEPT ![p] = <<>>][q]) =< QueueMax
    BY <1>2 DEF JTypeOK
  <1> QED
    BY <1>1, <1>3 DEF Cleared, JTypeOK

LEMMA SentKeeps ==
  ASSUME JInv, NEW p \in Client, NEW c \in Call, NEW D \in SUBSET Key, Sent(p, D, c),
         Tracked(c)
  PROVE  JInv'
  <1>1. JTypeOK
    BY DEF JInv
  <1> QED
    BY <1>1, ClearedFacts, ContinueKeeps DEF Sent

LEMMA CalledKeeps ==
  ASSUME JInv, NEW p \in Client, NEW c \in Call, Called(p, c), Tracked(c)
  PROVE  JInv'
  BY ContinueKeeps DEF Called, JInv, JTypeOK

\* What a client does to the table, and what becomes of its own call.
LEMMA WroteFacts ==
  ASSUME JInv, NEW p \in Client, NEW c \in Call, NEW s \in Seq(Operation), Wrote(p, s, c),
         Is({"postgres"}) => Len(s) = 1
  PROVE  LET w == client'[p]
         IN /\ Changes(KeysOf(s))
            /\ \A k \in KeysOf(s) : table'[k] = Content(LastOn(s, k))
            /\ w \in Call /\ Alike(w, c)
            /\ w.pc = c.pc /\ w.todo = c.todo /\ w.left = c.left /\ w.ans = c.ans
            /\ w.wrote = c.wrote \cup KeysOf(s) /\ w.mine = c.mine \cup KeysOf(s)
            /\ w.kept = {k \in c.kept : table'[k] # Absent /\ c.tags \subseteq table'[k]}
  <1>0. Store(table') /\ table' = TableAfter(s)
    BY DEF Wrote, Write, Store
  <1>1. KeysOf(s) \in SUBSET Key
    BY ContentType
  <1>2. /\ table' \in [Key -> (SUBSET Tag) \cup {Absent}]
        /\ \A k \in Key \ KeysOf(s) : table'[k] = table[k]
        /\ \A k \in KeysOf(s) : table'[k] = Content(LastOn(s, k))
    <2>1. \A k \in KeysOf(s) : Content(LastOn(s, k)) \in (SUBSET Tag) \cup {Absent}
      BY ContentType
    <2>2. \A k \in Key : table[k] \in (SUBSET Tag) \cup {Absent}
      BY DEF JInv, JTypeOK
    <2> QED
      BY <1>0, <1>1, <2>1, <2>2 DEF TableAfter
  <1>3. Is({"postgres"}) => \A a, b \in KeysOf(s) : a = b
    <2> SUFFICES ASSUME Len(s) = 1 PROVE \A a, b \in KeysOf(s) : a = b
      OBVIOUS
    <2>1. DOMAIN s = {1}
      OBVIOUS
    <2> QED
      BY <2>1 DEF KeysOf
  <1>4. Changes(KeysOf(s))
    BY <1>0, <1>2, <1>3 DEF Changes
  <1> DEFINE e == {}
             w == Watch(c, e, table')
             v == client'[p]
  <1>5. v = [w EXCEPT !.wrote = @ \cup KeysOf(s), !.mine = @ \cup KeysOf(s)]
    BY <1>0 DEF Wrote, Write
  <1> HIDE DEF e
  <1>6. /\ w \in Call /\ Alike(w, c)
        /\ w.pc = c.pc /\ w.todo = c.todo /\ w.left = c.left /\ w.wrote = c.wrote
        /\ w.ans = c.ans
        /\ w.mine = c.mine \ e
        /\ w.kept = {k \in c.kept : table'[k] # Absent /\ c.tags \subseteq table'[k]}
    BY WatchFacts
  <1> HIDE DEF w, v
  <1>7. v \in Call
    BY <1>1, <1>5, <1>6 DEF Call
  <1>8. /\ Alike(v, w) /\ v.pc = w.pc /\ v.todo = w.todo /\ v.left = w.left
        /\ v.ans = w.ans /\ v.kept = w.kept
        /\ v.wrote = w.wrote \cup KeysOf(s) /\ v.mine = w.mine \cup KeysOf(s)
    BY <1>5, <1>6 DEF Call, Alike
  <1>9. Alike(v, c) /\ v.wrote = c.wrote \cup KeysOf(s) /\ v.mine = c.mine \cup KeysOf(s)
    BY <1>6, <1>8 DEF Alike, e
  <1> QED
    BY <1>2, <1>4, <1>6, <1>7, <1>8, <1>9 DEF v

\* A step with one.
LEMMA WroteKeeps ==
  ASSUME JInv, NEW p \in Client, NEW c \in Call, NEW s \in Seq(Operation), Wrote(p, s, c),
         Is({"postgres"}) => Len(s) = 1,
         Tracked(client[p])'
  PROVE  JInv'
  <1>1. Changes(KeysOf(s)) /\ client'[p] \in Call
    BY WroteFacts
  <1>2. KeysOf(s) \in SUBSET Key
    BY ContentType
  <1>3. JTypeOK /\ Ordered
    BY DEF JInv
  <1>4. older' \subseteq Present' \X Present' /\ Ordered'
    BY <1>1, <1>2, <1>3, StoreKeeps
  <1>5. ASSUME NEW q \in Client PROVE client'[q] \in Call /\ Tracked(client[q])'
    <2>1. CASE q = p
      BY <1>1, <2>1
    <2>2. CASE q # p
      <3>1. table' = TableAfter(s)
        BY DEF Wrote, Write, Store
      <3>2. client'[q] = Watch(client[q], KeysOf(s), table')
        BY <2>2, <3>1 DEF Wrote, Write
      <3> QED
        BY <1>1, <1>2, <3>2, WatchKeeps
    <2> QED
      BY <2>1, <2>2
  <1>6. client' \in [Client -> Call]
    <2>1. client' = [q \in Client |-> client'[q]]
      BY DEF Wrote, Write
    <2> QED
      BY <1>5, <2>1
  <1>7. detached' \in SUBSET Key
    BY <1>3 DEF Wrote, Write, JTypeOK
  <1>8. queue' \in [Client -> Seq(Operation)] /\ \A q \in Client : Len(queue'[q]) =< QueueMax
    BY <1>3, ClearedFacts DEF Wrote
  <1>9. table' \in [Key -> (SUBSET Tag) \cup {Absent}] /\ scenario' = scenario
    BY <1>1 DEF Changes, Store
  <1>10. JTypeOK'
    BY <1>3, <1>4, <1>6, <1>7, <1>8, <1>9 DEF JTypeOK
  <1> QED
    BY <1>4, <1>5, <1>10 DEF JInv
-----------------------------------------------------------------------------
(* Calls.                                                                  *)

LEMMA IdleFacts == Idle \in Call /\ Tracked(Idle)
  <1>1. <<>> \in Seq(Operation) /\ 0 \notin Key
    BY KeyFacts
  <1>2. Idle \in Call
    BY <1>1 DEF Idle, Call
  <1>3. Tracked(Idle)
    BY DEF Idle, Tracked, Labelled, InOrder, Minded, Paged, Erasing, Answered
  <1> QED
    BY <1>2, <1>3

LEMMA ReplyKeeps == ASSUME JInv, NEW p \in Client, Reply(p) PROVE JInv'
  <1>1. Continue(p, Idle) /\ UNCHANGED <<detached, queue>>
    BY DEF Reply, Continue
  <1> QED
    BY <1>1, IdleFacts, ContinueKeeps DEF JInv, JTypeOK

\* A call that has all of its operations to make.
LEMMA OperationsKeep ==
  ASSUME JInv, NEW p \in Client, NEW op \in {"save", "delete", "commit"},
         NEW s \in Seq(Operation), s # <<>>, NEW l \in {"get", "apply"},
         Called(p, [Apply(op, s) EXCEPT !.pc = l])
  PROVE  JInv'
  <1> DEFINE c == [Apply(op, s) EXCEPT !.pc = l]
  <1>1. c = [Idle EXCEPT !.pc = l, !.op = op, !.ops = s, !.todo = s]
    BY DEF Apply, Idle
  <1>2. /\ c.pc = l /\ c.op = op /\ c.ops = s /\ c.todo = s /\ c.wrote = {}
        /\ c.mine = {} /\ c.kept = {}
    BY <1>1 DEF Idle
  <1>3. Called(p, c)
    OBVIOUS
  <1> HIDE DEF c
  <1>4. c \in Call
    BY <1>1, IdleFacts DEF Call
  <1>5. InOrder(c)
    <2>1. /\ SubSeq(s, 0 + 1, Len(s)) = s /\ SubSeq(s, 1, 0) = <<>> /\ 0 \in 0..Len(s)
          /\ DOMAIN <<>> = {}
      OBVIOUS
    <2>2. KeysOf(<<>>) = {}
      BY <2>1 DEF KeysOf
    <2>3. Reached(c, 0)
      BY <1>2, <2>1, <2>2 DEF Reached, Holds
    <2> QED
      BY <1>2, <2>1, <2>3 DEF InOrder
  <1>6. Tracked(c)
    BY <1>2, <1>5 DEF Tracked, Labelled, Minded, Paged, Erasing, Answered
  <1> QED
    BY <1>3, <1>4, <1>6, CalledKeeps

\* The operations of a save.
LEMMA SavingFacts ==
  ASSUME NEW s, s \in Seq(Key), s # <<>>, NEW t \in SUBSET Tag
  PROVE  Saving(s, t) \in Seq(Operation) /\ Saving(s, t) # <<>>
  <1>1. Len(s) \in Nat /\ Len(s) # 0 /\ DOMAIN s = 1..Len(s)
    OBVIOUS
  <1>2. \A i \in 1..Len(s) : [kind |-> "save", key |-> s[i], tags |-> t] \in Operation
    BY <1>1 DEF Operation
  <1>3. Saving(s, t) = [i \in 1..Len(s) |-> [kind |-> "save", key |-> s[i], tags |-> t]]
    BY <1>1 DEF Saving
  <1>4. Saving(s, t) \in [1..Len(s) -> Operation]
    BY <1>2, <1>3
  <1>5. Saving(s, t) \in Seq(Operation) /\ Len(Saving(s, t)) = Len(s)
    BY <1>1, <1>4
  <1> QED
    BY <1>1, <1>5

LEMMA ApplyIs ==
  ASSUME NEW op, NEW s PROVE Apply(op, s) = [Apply(op, s) EXCEPT !.pc = "apply"]
  BY DEF Apply, Idle

\* The keys of a new dataset and of those there are, and the tags a scenario gives them.
LEMMA NewKeyFacts == ASSUME JInv PROVE NewKey \cup Present \subseteq Key
  <1>1. scenario \in Scenario
    BY JournalAssumption DEF JInv, JTypeOK
  <1>2. scenario.keys \in SUBSET Key
    BY <1>1 DEF Scenario, Key
  <1>3. NewKey \subseteq scenario.keys
    BY DEF NewKey
  <1> QED
    BY <1>2, <1>3 DEF Present

LEMMA TagFacts == ASSUME JInv PROVE SUBSET scenario.tags \subseteq SUBSET Tag
  <1>1. scenario \in Scenario
    BY JournalAssumption DEF JInv, JTypeOK
  <1> QED
    BY <1>1 DEF Scenario

LEMMA SaveKeeps == ASSUME JInv, NEW p \in Client, Save(p) PROVE JInv'
  <1>1. PICK k \in NewKey \cup Present, t \in SUBSET Tag :
          Called(p, Apply("save", Saving(<<k>>, t)))
    BY TagFacts DEF Save
  <1>2. k \in Key
    BY NewKeyFacts
  <1>3. <<k>> \in Seq(Key) /\ <<k>> # <<>>
    BY <1>2
  <1>4. Saving(<<k>>, t) \in Seq(Operation) /\ Saving(<<k>>, t) # <<>>
    BY <1>3, SavingFacts
  <1> DEFINE s == Saving(<<k>>, t)
  <1>5. Called(p, [Apply("save", s) EXCEPT !.pc = "apply"])
    BY <1>1, ApplyIs
  <1> HIDE DEF s
  <1>6. s \in Seq(Operation) /\ s # <<>>
    BY <1>4 DEF s
  <1> QED
    BY <1>5, <1>6, OperationsKeep

LEMMA SaveAllKeeps == ASSUME JInv, NEW p \in Client, SaveAll(p) PROVE JInv'
  <1>1. PICK s \in [1..Cardinality(Present) -> Present], t \in SUBSET Tag :
          Called(p, Apply("save", Saving(s, t)))
    BY TagFacts DEF SaveAll
  <1>2. Cardinality(Present) \in Nat /\ Cardinality(Present) > 1
    <2>1. IsFiniteSet(Present)
      BY KeyFacts, FS_Subset DEF Present
    <2> QED
      BY <2>1, FS_CardinalityType DEF SaveAll
  <1>3. s \in Seq(Key) /\ s # <<>>
    <2> DEFINE n == Cardinality(Present)
    <2>1. s \in [1..n -> Key]
      BY DEF Present
    <2> HIDE DEF n
    <2>2. n \in Nat /\ n > 1
      BY <1>2 DEF n
    <2>3. s \in Seq(Key) /\ Len(s) = n
      BY <2>1, <2>2
    <2> QED
      BY <2>2, <2>3
  <1>4. Saving(s, t) \in Seq(Operation) /\ Saving(s, t) # <<>>
    BY <1>3, SavingFacts
  <1> QED
    BY <1>1, <1>4, ApplyIs, OperationsKeep

LEMMA DeletionFacts ==
  ASSUME NEW k \in Key PROVE Deletion(k) \in Operation /\ Deletion(k).key = k
  BY DEF Deletion, Operation

LEMMA DeleteKeeps == ASSUME JInv, NEW p \in Client, Delete(p) PROVE JInv'
  <1>1. PICK k \in Present : Called(p, [Apply("delete", <<Deletion(k)>>) EXCEPT !.pc = "get"])
    BY DEF Delete, Deletion
  <1>2. <<Deletion(k)>> \in Seq(Operation) /\ <<Deletion(k)>> # <<>>
    BY DeletionFacts DEF Present
  <1> QED
    BY <1>1, <1>2, OperationsKeep

LEMMA CommitKeeps == ASSUME JInv, NEW p \in Client, Commit(p) PROVE JInv'
  <1>1. queue[p] # <<>> /\ queue[p] \in Seq(Operation)
    BY DEF Commit, JInv, JTypeOK
  <1>2. Called(p, Apply("commit", queue[p]))
    BY DEF Commit
  <1> QED
    BY <1>1, <1>2, ApplyIs, OperationsKeep

LEMMA ListKeeps == ASSUME JInv, NEW p \in Client, List(p) PROVE JInv'
  <1>1. PICK t \in SUBSET Tag, v \in {"list", "ls", "all"} :
          Called(p, [Idle EXCEPT !.pc = IF Is({"dynamo"}) THEN "scan" ELSE "page",
                       !.op = "list", !.tags = t, !.caller = v,
                       !.kept = {k \in Present : t \subseteq table[k]}])
    BY TagFacts DEF List
  <1>2. PICK l \in {"scan", "page"} : l = IF Is({"dynamo"}) THEN "scan" ELSE "page"
    OBVIOUS
  <1>3. PICK K \in SUBSET Present : K = {k \in Present : t \subseteq table[k]}
    OBVIOUS
  <1> DEFINE c == [Idle EXCEPT !.pc = l, !.op = "list", !.tags = t, !.caller = v, !.kept = K]
  <1>4. Called(p, c)
    BY <1>1, <1>2, <1>3
  <1>5. /\ c.pc = l /\ c.op = "list" /\ c.tags = t /\ c.kept = K /\ c.cursor = 0
        /\ c.got = {} /\ c.again = {}
    BY DEF Idle
  <1> DEFINE d == c
  <1>6. d = [Idle EXCEPT !.pc = l, !.op = "list", !.tags = t, !.caller = v, !.kept = K]
    OBVIOUS
  <1> HIDE DEF c, d
  <1>7. K \in SUBSET Key
    BY DEF Present
  <1>8. d \in Call
    BY <1>6, <1>7, IdleFacts DEF Call
  <1>9. 0 \notin Key /\ 0 # None
    BY KeyFacts, JournalAssumption
  <1>10. Tracked(c)
    BY <1>2, <1>3, <1>5, <1>9
       DEF Tracked, Labelled, InOrder, Minded, Paged, Erasing, Answered, Present
  <1> QED
    BY <1>4, <1>8, <1>10, CalledKeeps DEF d

LEMMA DeleteAllKeeps == ASSUME JInv, NEW p \in Client, DeleteAll(p) PROVE JInv'
  <1>1. PICK K \in Victims :
          Called(p, [Idle EXCEPT !.pc = "erase", !.op = "deleteAll", !.left = K,
                       !.kept = Present])
    BY DEF DeleteAll
  <1>2. PICK P : P = Present
    OBVIOUS
  <1>3. /\ K \in SUBSET Key /\ (Truthful => K = P) /\ P \in SUBSET Key
        /\ \A k \in P : table[k] # Absent
    BY <1>2 DEF Victims, CloudantBuild, Full, Beginnings, Present, Truthful
  <1> DEFINE c == [Idle EXCEPT !.pc = "erase", !.op = "deleteAll", !.left = K, !.kept = P]
  <1>4. Called(p, c)
    BY <1>1, <1>2
  <1>5. c.pc = "erase" /\ c.op = "deleteAll" /\ c.left = K /\ c.kept = P /\ c.tags = {}
    BY DEF Idle
  <1> DEFINE d == c
  <1>6. d = [Idle EXCEPT !.pc = "erase", !.op = "deleteAll", !.left = K, !.kept = P]
    OBVIOUS
  <1> HIDE DEF c, d
  <1>7. d \in Call
    BY <1>3, <1>6, IdleFacts DEF Call
  <1>8. Tracked(c)
    BY <1>3, <1>5 DEF Tracked, Labelled, InOrder, Minded, Paged, Erasing, Answered
  <1> QED
    BY <1>4, <1>7, <1>8, CalledKeeps DEF d

\* The queue of a transaction grows within its bound, or is emptied.
LEMMA QueueKeeps ==
  ASSUME JInv, NEW p \in Client, NEW o \in Operation, Enqueue(p, o)
  PROVE  JInv'
  <1> DEFINE s == Append(queue[p], o)
  <1>1. s \in Seq(Operation) /\ Len(s) =< QueueMax
    <2>1. queue[p] \in Seq(Operation) /\ Len(queue[p]) < QueueMax
      BY DEF Enqueue, JInv, JTypeOK
    <2>2. s \in Seq(Operation) /\ Len(s) = Len(queue[p]) + 1 /\ Len(queue[p]) \in Nat
      BY <2>1
    <2> QED
      BY <2>1, <2>2, JournalAssumption
  <1>2. queue' = [queue EXCEPT ![p] = s]
    BY DEF Enqueue
  <1> HIDE DEF s
  <1>3. JTypeOK'
    BY <1>1, <1>2 DEF Enqueue, JInv, JTypeOK, Present
  <1>4. \A q \in Client : Tracked(client[q])'
    BY TrackedStays DEF Enqueue, JInv
  <1> QED
    BY <1>3, <1>4 DEF Enqueue, JInv, Ordered, Present, Is

LEMMA TransactionKeeps ==
  ASSUME JInv, NEW p \in Client, TransactionSave(p) \/ TransactionDelete(p)
  PROVE  JInv'
  <1>1. CASE TransactionSave(p)
    <2>1. PICK k \in NewKey \cup Present, t \in SUBSET Tag :
            Enqueue(p, [kind |-> "save", key |-> k, tags |-> t])
      BY <1>1, TagFacts DEF TransactionSave
    <2>2. k \in Key
      BY NewKeyFacts
    <2>3. [kind |-> "save", key |-> k, tags |-> t] \in Operation
      BY <2>2 DEF Operation
    <2> QED
      BY <2>1, <2>3, QueueKeeps
  <1>2. CASE TransactionDelete(p)
    <2>1. PICK k \in Present : Enqueue(p, Deletion(k))
      BY <1>2 DEF TransactionDelete
    <2> QED
      BY <2>1, DeletionFacts, QueueKeeps DEF Present
  <1> QED
    BY <1>1, <1>2

LEMMA RollbackKeeps == ASSUME JInv, NEW p \in Client, Rollback(p) PROVE JInv'
  <1>1. queue' \in [Client -> Seq(Operation)] /\ \A q \in Client : Len(queue'[q]) =< QueueMax
    <2>1. [queue EXCEPT ![p] = <<>>] \in [Client -> Seq(Operation)]
      BY DEF JInv, JTypeOK
    <2>2. Len(<<>>) = 0 /\ 0 =< QueueMax
      BY JournalAssumption
    <2> QED
      BY <2>1, <2>2 DEF Rollback, JInv, JTypeOK
  <1>2. JTypeOK'
    BY <1>1 DEF Rollback, JInv, JTypeOK, Present
  <1>3. \A q \in Client : Tracked(client[q])'
    BY TrackedStays DEF Rollback, JInv
  <1> QED
    BY <1>2, <1>3 DEF Rollback, JInv, Ordered, Present, Is
-----------------------------------------------------------------------------
(* Steps of a call.                                                        *)

\* A call that ends without a change of the table.
LEMMA AnswerKeeps ==
  ASSUME JInv, NEW p \in Client, NEW c \in Call, Minded(c),
         NEW a \in {"ok", "error", "absent"}, NEW D \in SUBSET Key,
         Sent(p, D, Answer(c, a)), Answered(Answer(c, a))
  PROVE  JInv'
  <1> DEFINE w == Answer(c, a)
  <1>1. w \in Call /\ w.pc = "done" /\ w.kept = c.kept /\ w.tags = c.tags
    BY AnswerFacts DEF Alike
  <1> HIDE DEF w
  <1>2. Tracked(w)
    BY <1>1 DEF Tracked, Labelled, InOrder, Minded, Paged, Erasing, w
  <1> QED
    BY <1>1, <1>2, SentKeeps DEF w

\* What is known of a call with operations to make.
LEMMA TodoFacts ==
  ASSUME JInv, NEW p \in Client, client[p].pc \in {"get", "apply", "insert"}
  PROVE  LET c == client[p]
         IN /\ c \in Call /\ Tracked(c) /\ c.ops \in Seq(Operation)
            /\ c.todo \in Seq(Operation) /\ c.todo # <<>> /\ Head(c.todo) \in Operation
            /\ Head(c.todo).key \in Key /\ c.op \in {"save", "delete", "commit"}
            /\ Len(c.todo) \in Nat \ {0}
            /\ detached \in SUBSET Key
  <1> DEFINE c == client[p]
  <1>1. c \in Call /\ Tracked(c) /\ detached \in SUBSET Key
    BY DEF JInv, JTypeOK
  <1>2. c.todo \in Seq(Operation) /\ c.ops \in Seq(Operation)
    BY <1>1 DEF Call
  <1>3. c.op \in {"save", "delete", "commit"} /\ c.todo # <<>>
    BY <1>1 DEF Tracked, Labelled
  <1>4. \A s \in Seq(Operation) : s # <<>> => Head(s) \in Operation /\ Len(s) \in Nat \ {0}
    OBVIOUS
  <1>5. \A o \in Operation : o.key \in Key
    BY DEF Operation
  <1> QED
    BY <1>1, <1>2, <1>3, <1>4, <1>5

LEMMA GetKeeps == ASSUME JInv, NEW p \in Client, Get(p) PROVE JInv'
  <1> DEFINE c == client[p]
  <1>0. c.pc = "get"
    BY DEF Get
  <1>1. /\ c \in Call /\ Tracked(c) /\ c.op \in {"save", "delete", "commit"}
        /\ c.todo # <<>> /\ detached \in SUBSET Key
    BY <1>0, TodoFacts
  <1>2. CASE Sent(p, detached, Answer(c, "absent"))
    <2>1. Answered(Answer(c, "absent"))
      BY <1>1, AnswerFacts DEF Answered, Alike
    <2> QED
      BY <1>1, <1>2, <2>1, AnswerKeeps DEF Tracked
  <1>3. CASE Sent(p, detached, [c EXCEPT !.pc = "apply"])
    <2> DEFINE w == [c EXCEPT !.pc = "apply"]
    <2>1. w \in Call
      BY <1>1 DEF Call
    <2>2. /\ w.pc = "apply" /\ w.op = c.op /\ w.ops = c.ops /\ w.todo = c.todo
          /\ w.kept = c.kept /\ w.tags = c.tags /\ w.wrote = c.wrote /\ w.mine = c.mine
      BY <1>1 DEF Call
    <2>3. Sent(p, detached, w)
      BY <1>3
    <2> HIDE DEF c, w
    <2>4. Tracked(w)
      <3>1. InOrder(w)
        BY <1>0, <1>1, <2>2 DEF Tracked, InOrder, Reached
      <3> QED
        BY <1>1, <2>2, <3>1 DEF Tracked, Labelled, Minded, Paged, Erasing, Answered
    <2> QED
      BY <1>1, <2>1, <2>3, <2>4, SentKeeps
  <1> QED
    BY <1>2, <1>3 DEF Get, Passed

LEMMA CloudantArrayKeeps == ASSUME JInv, NEW p \in Client, CloudantArray(p) PROVE JInv'
  <1>1. client[p] \in Call /\ Minded(client[p]) /\ detached \in SUBSET Key
    BY DEF JInv, JTypeOK, Tracked
  <1>2. client[p].op = "save" /\ Is({"cloudant"})
    BY DEF CloudantArray
  <1>3. Answered(Answer(client[p], "ok"))
    BY <1>1, <1>2, AnswerFacts DEF Answered, Alike, Truthful
  <1> QED
    BY <1>1, <1>3, AnswerKeeps DEF CloudantArray, Passed

LEMMA CloudantReadKeeps == ASSUME JInv, NEW p \in Client, CloudantRead(p) PROVE JInv'
  <1> DEFINE c == client[p]
  <1>1. /\ c \in Call /\ Tracked(c) /\ c.op \in {"save", "delete", "commit"}
        /\ c.todo # <<>> /\ detached \in SUBSET Key
    BY TodoFacts DEF CloudantRead
  <1>2. PICK d \in {"absent", "found"} :
          Sent(p, detached, [c EXCEPT !.pc = "insert", !.doc = d])
    BY DEF CloudantRead, Passed
  <1> DEFINE w == [c EXCEPT !.pc = "insert", !.doc = d]
  <1>3. w \in Call
    BY <1>1 DEF Call
  <1>4. /\ w.pc = "insert" /\ w.op = c.op /\ w.todo = c.todo
        /\ w.kept = c.kept /\ w.tags = c.tags
    BY <1>1 DEF Call
  <1>5. Sent(p, detached, w) /\ Is({"cloudant"})
    BY <1>2 DEF CloudantRead
  <1> HIDE DEF c, w
  <1>6. Tracked(w)
    BY <1>1, <1>4, <1>5
       DEF Tracked, Labelled, InOrder, Minded, Paged, Erasing, Answered, Truthful
  <1> QED
    BY <1>1, <1>3, <1>5, <1>6, SentKeeps

\* A journal whose answers are not to be believed goes on with the rest of a call,
\* whatever it has made of its operations.
LEMMA LooseRest ==
  ASSUME JInv, NEW p \in Client, client[p].pc \in {"apply", "insert"}, ~Truthful
  PROVE  LET w == Rest(client[p])
         IN /\ w \in Call /\ Labelled(w) /\ Tracked(w)
            /\ w.pc \in {"apply", "done"} /\ w.op \in {"save", "delete", "commit"}
  <1> DEFINE c == client[p]
             w == Rest(client[p])
  <1>1. /\ c \in Call /\ Tracked(c) /\ c.todo \in Seq(Operation)
        /\ c.op \in {"save", "delete", "commit"} /\ c.todo # <<>>
    BY TodoFacts
  <1>2. \A s \in Seq(Operation) : Len(s) > 1 => Tail(s) # <<>>
    <2> SUFFICES ASSUME NEW s \in Seq(Operation), Len(s) > 1 PROVE Tail(s) # <<>>
      OBVIOUS
    <2>1. PICK r : r = Tail(s)
      OBVIOUS
    <2>2. Len(r) = Len(s) - 1 /\ Len(s) \in Nat
      BY <2>1
    <2>3. Len(r) # 0
      <3>1. \A n \in Nat : n > 1 => n - 1 # 0
        OBVIOUS
      <3> QED
        BY <2>2, <3>1
    <2> QED
      BY <2>1, <2>3, NotEmpty
  <1>3. /\ w \in Call /\ Alike(w, c) /\ w.kept = c.kept
        /\ \/ w.pc = "done"
           \/ w.pc = "apply" /\ w.todo # <<>>
    BY <1>1, <1>2, RestFacts
  <1> HIDE DEF c, w
  <1>4. Labelled(w)
    BY <1>1, <1>3 DEF Labelled, Alike
  <1>5. Tracked(w)
    BY <1>1, <1>3, <1>4 DEF Tracked, InOrder, Minded, Paged, Erasing, Answered, Alike
  <1> QED
    BY <1>1, <1>3, <1>4, <1>5 DEF Alike, c, w

\* It writes something and goes on, or answers with an error.
LEMMA LooseWrite ==
  ASSUME JInv, NEW p \in Client, client[p].pc \in {"apply", "insert"}, ~Truthful,
         ~Is({"postgres"}), NEW s \in Seq(Operation), NEW r,
         r = Rest(client[p]) \/ r = Answer(client[p], "error"), Wrote(p, s, r)
  PROVE  JInv'
  <1> DEFINE c == client[p]
             w == client'[p]
  <1>1. /\ c \in Call /\ Tracked(c) /\ c.op \in {"save", "delete", "commit"}
    BY TodoFacts
  <1>2. /\ r \in Call /\ Labelled(r) /\ r.pc \in {"apply", "done"}
        /\ r.op \in {"save", "delete", "commit"}
    <2>1. CASE r = Rest(c)
      BY <2>1, LooseRest
    <2>2. CASE r = Answer(c, "error")
      BY <1>1, <2>2, AnswerFacts DEF Labelled, Alike
    <2> QED
      BY <2>1, <2>2
  <1>3. /\ w \in Call /\ Alike(w, r) /\ w.pc = r.pc /\ w.todo = r.todo
        /\ w.kept = {k \in r.kept : table'[k] # Absent /\ r.tags \subseteq table'[k]}
    BY <1>2, WroteFacts
  <1>4. scenario' = scenario
    BY DEF Wrote, Write, Store
  <1>5. ~Truthful'
    BY <1>4 DEF Truthful, Is
  <1> HIDE DEF w, c
  <1>6. Labelled(client[p])'
    BY <1>2, <1>3, <1>4 DEF Labelled, Alike, Is, w
  <1>7. Minded(client[p])'
    BY <1>3 DEF Minded, Alike, w
  <1>8. (InOrder(client[p]) /\ Paged(client[p]) /\ Erasing(client[p]))'
    BY <1>2, <1>3, <1>5 DEF InOrder, Paged, Erasing, w
  <1>9. Answered(client[p])'
    BY <1>2, <1>3, <1>5 DEF Answered, Alike, w
  <1>10. Tracked(client[p])'
    BY <1>6, <1>7, <1>8, <1>9 DEF Tracked
  <1> QED
    BY <1>2, <1>10, WroteKeeps

LEMMA CloudantDestroyKeeps == ASSUME JInv, NEW p \in Client, CloudantDestroy(p) PROVE JInv'
  <1> DEFINE c == client[p]
             k == Head(c.todo).key
  <1>1. /\ c \in Call /\ Tracked(c) /\ c.op \in {"save", "delete", "commit"}
        /\ k \in Key /\ detached \in SUBSET Key
    BY TodoFacts DEF CloudantDestroy
  <1>2. c.pc = "apply" /\ Is({"cloudant"})
    BY DEF CloudantDestroy
  <1>3. CASE Sent(p, detached \cup {k}, Rest(c))
    <2>1. Rest(c) \in Call /\ Tracked(Rest(c))
      BY <1>2, LooseRest DEF Truthful
    <2> QED
      BY <1>1, <1>3, <2>1, SentKeeps
  <1>4. CASE Sent(p, detached, Answer(c, "error"))
    <2>1. Answered(Answer(c, "error"))
      BY <1>1, <1>2, AnswerFacts DEF Answered, Alike, Truthful
    <2> QED
      BY <1>1, <1>4, <2>1, AnswerKeeps DEF Tracked
  <1> QED
    BY <1>3, <1>4 DEF CloudantDestroy, Passed

LEMMA CloudantInsertKeeps == ASSUME JInv, NEW p \in Client, CloudantInsert(p) PROVE JInv'
  <1> DEFINE c == client[p]
             o == Head(c.todo)
  <1>1. /\ c \in Call /\ Tracked(c) /\ c.op \in {"save", "delete", "commit"}
        /\ o \in Operation /\ detached \in SUBSET Key
    BY TodoFacts DEF CloudantInsert
  <1>2. c.pc = "insert" /\ Is({"cloudant"}) /\ ~Is({"postgres"})
    BY <1>1 DEF CloudantInsert, Tracked, Labelled, Is
  <1> DEFINE r == Rest(c)
  <1>3. /\ r \in Call /\ Tracked(r) /\ Labelled(r)
        /\ r.pc \in {"apply", "done"} /\ r.op \in {"save", "delete", "commit"}
    BY <1>2, LooseRest DEF Truthful
  <1>4. CASE Wrote(p, <<o>>, r)
    <2>1. <<o>> \in Seq(Operation) /\ ~Truthful /\ r = Rest(client[p])
      BY <1>1, <1>2 DEF Truthful
    <2> HIDE DEF r
    <2> QED
      BY <1>2, <1>4, <2>1, LooseWrite
  <1>5. CASE Sent(p, detached, Answer(c, "error"))
    <2>1. Answered(Answer(c, "error"))
      BY <1>1, <1>2, AnswerFacts DEF Answered, Alike, Truthful
    <2> QED
      BY <1>1, <1>5, <2>1, AnswerKeeps DEF Tracked
  <1>6. CASE Sent(p, detached, r)
    BY <1>1, <1>3, <1>6, SentKeeps
  <1> QED
    BY <1>4, <1>5, <1>6 DEF CloudantInsert, Passed
-----------------------------------------------------------------------------
(* Operations made in their order.                                         *)

\* What is left to make of operations, and the next m of it.
LEMMA Next_ ==
  ASSUME NEW s \in Seq(Operation), NEW n \in 0..Len(s), NEW t,
         t = SubSeq(s, n + 1, Len(s)), t # <<>>, NEW m \in 1..Len(t)
  PROVE  /\ Len(t) = Len(s) - n /\ n + m \in 0..Len(s) /\ n \in 0..(n + m)
         /\ SubSeq(t, 1, m) = SubSeq(s, n + 1, n + m)
         /\ SubSeq(t, 1, m) \in Seq(Operation) /\ Len(SubSeq(t, 1, m)) = m
         /\ SubSeq(t, m, Len(t)) \in Seq(Operation) /\ SubSeq(t, m, Len(t)) # <<>>
         /\ Len(SubSeq(t, m, Len(t))) = Len(t) - m + 1
         /\ SubSeq(s, 1, Len(s)) = s
         /\ m = 1 /\ Len(t) > 1 =>
              Tail(SubSeq(t, m, Len(t))) = SubSeq(s, n + m + 1, Len(s))
  <1>1. t \in Seq(Operation) /\ Len(s) \in Nat
    OBVIOUS
  <1>2. Len(t) = Len(s) - n /\ n \in Nat /\ \A i \in 1..Len(t) : t[i] = s[n + i]
    OBVIOUS
  <1>3. n + m \in 0..Len(s) /\ n \in 0..(n + m) /\ m \in Nat /\ m > 0
    BY <1>1, <1>2
  <1>4. SubSeq(t, 1, m) \in Seq(Operation) /\ Len(SubSeq(t, 1, m)) = m
    BY <1>1
  <1>5. /\ SubSeq(t, m, Len(t)) \in Seq(Operation)
        /\ Len(SubSeq(t, m, Len(t))) = Len(t) - m + 1
    BY <1>1, <1>3
  <1>6. SubSeq(t, m, Len(t)) # <<>>
    <2>1. Len(<<>>) = 0 /\ Len(t) \in Nat /\ m =< Len(t)
      BY <1>1
    <2>2. Len(t) - m + 1 # 0
      BY <1>3, <2>1
    <2> QED
      BY <1>5, <2>1, <2>2
  <1>7. SubSeq(t, 1, m) = SubSeq(s, n + 1, n + m)
    BY <1>1, <1>2, <1>3
  <1>8. SubSeq(s, 1, Len(s)) = s
    OBVIOUS
  <1>9. ASSUME m = 1, Len(t) > 1
        PROVE  Tail(SubSeq(t, m, Len(t))) = SubSeq(s, n + m + 1, Len(s))
    <2>1. SubSeq(t, 1, Len(t)) = t
      BY <1>1
    <2>2. Tail(t) \in Seq(Operation) /\ Len(Tail(t)) = Len(t) - 1
      BY <1>1, <1>9
    <2>3. \A i \in 1..(Len(t) - 1) : Tail(t)[i] = t[i + 1]
      BY <1>1, <1>9
    <2> DEFINE u == SubSeq(s, n + 1 + 1, Len(s))
    <2>4. u \in Seq(Operation) /\ Len(u) = Len(s) - n - 1
      BY <1>1, <1>2, <1>9
    <2>5. \A i \in 1..(Len(t) - 1) : u[i] = s[n + 1 + i]
      BY <1>1, <1>2, <1>9
    <2>6. \A i \in 1..(Len(t) - 1) : i + 1 \in 1..Len(t) /\ n + (i + 1) = n + 1 + i
      BY <1>1, <1>2
    <2>7. \A i \in 1..(Len(t) - 1) : Tail(t)[i] = u[i]
      BY <1>2, <2>3, <2>5, <2>6
    <2>8. Len(u) = Len(t) - 1
      BY <1>2, <2>4, <1>1
    <2> HIDE DEF u
    <2>9. \A x, y \in Seq(Operation) :
            Len(x) = Len(y) /\ (\A i \in 1..Len(x) : x[i] = y[i]) => x = y
      OBVIOUS
    <2>10. Tail(t) = u
      BY <2>2, <2>4, <2>7, <2>8, <2>9
    <2> QED
      BY <1>9, <2>1, <2>10 DEF u
  <1> QED
    BY <1>2, <1>3, <1>4, <1>5, <1>6, <1>7, <1>8, <1>9

\* A request is the next one of its call, or all that is left of it on Datastore.
LEMMA TogetherFacts ==
  ASSUME JInv, ~Is({"cloudant"}), NEW t \in Seq(Operation), t # <<>>
  PROVE  /\ Together(t) \in 1..Len(t)
         /\ ~Is({"datastore"}) => Together(t) = 1
         /\ Is({"datastore"}) => Together(t) = Len(t)
         /\ Is({"postgres"}) => Together(t) = 1
  <1>1. scenario.db \in Database
    BY JournalAssumption DEF JInv, JTypeOK, Scenario
  <1>2. Len(t) \in Nat /\ Len(t) # 0
    OBVIOUS
  <1>3. CASE Is({"datastore"})
    <2>1. Together(t) = Len(t)
      BY <1>3 DEF Together, DatastoreSave, Is
    <2> QED
      BY <1>2, <1>3, <2>1 DEF Is
  <1>4. CASE ~Is({"datastore"})
    <2>1. Together(t) = 1
      BY <1>1, <1>4 DEF Database, Is, Together, CosmosSave, DynamoSave, PostgresSave
    <2> QED
      BY <1>2, <1>4, <2>1
  <1> QED
    BY <1>3, <1>4

\* With the next request a call that has made n of its operations has made more.
LEMMA Advances ==
  ASSUME JInv, NEW p \in Client, NEW c \in Call, ~Is({"cloudant"}), c.todo # <<>>,
         NEW n \in 0..Len(c.ops), Reached(c, n), NEW d \in Call,
         d.ops = c.ops, d.wrote = c.wrote, d.mine = c.mine,
         Wrote(p, SubSeq(c.todo, 1, Together(c.todo)), d)
  PROVE  LET m == Together(c.todo)
             s == SubSeq(c.todo, 1, m)
             w == client'[p]
         IN /\ s \in Seq(Operation) /\ (Is({"postgres"}) => Len(s) = 1)
            /\ m \in 1..Len(c.todo) /\ n + m \in 0..Len(c.ops)
            /\ Len(c.todo) = Len(c.ops) - n
            /\ w.wrote = KeysOf(SubSeq(c.ops, 1, n + m))
            /\ \A k \in w.mine \cap KeysOf(SubSeq(c.ops, 1, n + m)) :
                 table'[k] = Content(LastOn(SubSeq(c.ops, 1, n + m), k))
            /\ Is({"datastore"}) => n = 0 /\ m = Len(c.ops)
            /\ ~Is({"datastore"}) => m = 1
  <1> DEFINE m == Together(c.todo)
             s == SubSeq(c.todo, 1, m)
             w == client'[p]
  <1>1. c.ops \in Seq(Operation) /\ c.todo \in Seq(Operation) /\ c.mine \in SUBSET Key
    BY DEF Call
  <1>2. c.todo = SubSeq(c.ops, n + 1, Len(c.ops))
    BY DEF Reached
  <1>14. Wrote(p, s, d)
    OBVIOUS
  <1>3. m \in 1..Len(c.todo) /\ (Is({"postgres"}) => m = 1)
    BY <1>1, TogetherFacts
  <1> HIDE DEF m
  <1>0. PICK o, t : o = c.ops /\ t = c.todo
    OBVIOUS
  <1>4. /\ Len(c.todo) = Len(c.ops) - n /\ n + m \in 0..Len(c.ops) /\ n \in 0..(n + m)
        /\ s = SubSeq(c.ops, n + 1, n + m) /\ s \in Seq(Operation) /\ Len(s) = m
    <2>1. /\ o \in Seq(Operation) /\ n \in 0..Len(o) /\ t = SubSeq(o, n + 1, Len(o))
          /\ t # <<>> /\ m \in 1..Len(t)
      BY <1>0, <1>1, <1>2, <1>3
    <2>2. /\ Len(t) = Len(o) - n /\ n + m \in 0..Len(o) /\ n \in 0..(n + m)
          /\ SubSeq(t, 1, m) = SubSeq(o, n + 1, n + m)
          /\ SubSeq(t, 1, m) \in Seq(Operation) /\ Len(SubSeq(t, 1, m)) = m
      BY <2>1, Next_
    <2> QED
      BY <1>0, <2>2
  <1>12. Is({"datastore"}) => n = 0 /\ m = Len(c.ops)
    <2> SUFFICES ASSUME Is({"datastore"}) PROVE n = 0 /\ m = Len(c.ops)
      OBVIOUS
    <2>1. n = 0 /\ m = Len(c.todo)
      BY <1>1, TogetherFacts DEF Reached, m
    <2> QED
      BY <1>1, <1>4, <2>1
  <1> HIDE DEF s
  <1>15. PICK a, b : a = SubSeq(c.ops, 1, n) /\ b = SubSeq(c.ops, 1, n + m)
    OBVIOUS
  <1>5. /\ a \in Seq(Operation) /\ b \in Seq(Operation)
        /\ KeysOf(b) = KeysOf(a) \cup KeysOf(s)
        /\ \A k \in KeysOf(s) : LastOn(b, k) = LastOn(s, k)
        /\ \A k \in KeysOf(a) \ KeysOf(s) : LastOn(b, k) = LastOn(a, k)
    <2>1. o \in Seq(Operation) /\ n + m \in 0..Len(o) /\ n \in 0..(n + m)
      BY <1>0, <1>1, <1>4
    <2>2. PICK r : r = n + m
      OBVIOUS
    <2>3. /\ SubSeq(o, 1, n) \in Seq(Operation) /\ SubSeq(o, 1, r) \in Seq(Operation)
          /\ KeysOf(SubSeq(o, 1, r)) =
               KeysOf(SubSeq(o, 1, n)) \cup KeysOf(SubSeq(o, n + 1, r))
          /\ \A k \in KeysOf(SubSeq(o, n + 1, r)) :
               LastOn(SubSeq(o, 1, r), k) = LastOn(SubSeq(o, n + 1, r), k)
          /\ \A k \in KeysOf(SubSeq(o, 1, n)) \ KeysOf(SubSeq(o, n + 1, r)) :
               LastOn(SubSeq(o, 1, r), k) = LastOn(SubSeq(o, 1, n), k)
      BY <2>1, <2>2, Longer
    <2>4. a = SubSeq(o, 1, n) /\ b = SubSeq(o, 1, r) /\ s = SubSeq(o, n + 1, r)
      BY <1>0, <1>4, <1>15, <2>2
    <2> QED
      BY <2>3, <2>4
  <1>6. c.wrote = KeysOf(a) /\ \A k \in c.mine \cap KeysOf(a) : table[k] = Content(LastOn(a, k))
    BY <1>15 DEF Reached, Holds
  <1>7. /\ Changes(KeysOf(s))
        /\ \A k \in KeysOf(s) : table'[k] = Content(LastOn(s, k))
        /\ w.wrote = c.wrote \cup KeysOf(s) /\ w.mine = c.mine \cup KeysOf(s)
    <2>1. /\ Changes(KeysOf(s))
          /\ \A k \in KeysOf(s) : table'[k] = Content(LastOn(s, k))
          /\ client'[p].wrote = d.wrote \cup KeysOf(s)
          /\ client'[p].mine = d.mine \cup KeysOf(s)
      <3>1. s \in Seq(Operation) /\ (Is({"postgres"}) => Len(s) = 1)
        BY <1>3, <1>4
      <3> QED
        BY <1>14, <3>1, WroteFacts
    <2> QED
      BY <2>1
  <1>8. \A k \in Key \ KeysOf(s) : table'[k] = table[k]
    BY <1>7 DEF Changes
  <1> HIDE DEF w
  <1>9. \A k \in w.mine \cap KeysOf(b) : table'[k] = Content(LastOn(b, k))
    BY <1>1, <1>5, <1>6, <1>7, <1>8
  <1>11. w.wrote = KeysOf(b)
    BY <1>5, <1>6, <1>7
  <1>13. ~Is({"datastore"}) => m = 1
    BY <1>1, TogetherFacts DEF m
  <1> QED
    BY <1>3, <1>4, <1>9, <1>11, <1>12, <1>13, <1>15 DEF w, s, m
\* What is left of a call after its next request.
LEMMA NextRest ==
  ASSUME JInv, NEW p \in Client, NEW c \in Call, ~Is({"cloudant"}), c.todo # <<>>,
         NEW n \in 0..Len(c.ops), Reached(c, n)
  PROVE  LET m == Together(c.todo)
             d == Rest([c EXCEPT !.todo = SubSeq(@, m, Len(@))])
         IN /\ d \in Call /\ Alike(d, c)
            /\ d.kept = c.kept /\ d.wrote = c.wrote /\ d.mine = c.mine
            /\ \/ d.pc = "done" /\ d.ans = "ok" /\ n + m = Len(c.ops)
               \/ /\ d.pc = "apply" /\ ~Is({"datastore"})
                  /\ d.todo = SubSeq(c.ops, n + m + 1, Len(c.ops))
                  /\ d.todo # <<>>
  <1>0. PICK m : m = Together(c.todo)
    OBVIOUS
  <1>1. PICK o, t : o = c.ops /\ t = c.todo
    OBVIOUS
  <1>2. /\ o \in Seq(Operation) /\ t \in Seq(Operation) /\ n \in 0..Len(o)
        /\ t = SubSeq(o, n + 1, Len(o)) /\ t # <<>>
    BY <1>1 DEF Call, Reached
  <1>3. /\ m \in 1..Len(t) /\ (~Is({"datastore"}) => m = 1)
        /\ (Is({"datastore"}) => m = Len(t))
    BY <1>0, <1>1, <1>2, TogetherFacts
  <1>4. PICK r : r = SubSeq(t, m, Len(t))
    OBVIOUS
  <1>5. /\ Len(t) = Len(o) - n /\ r \in Seq(Operation) /\ r # <<>>
        /\ Len(r) = Len(t) - m + 1
        /\ m = 1 /\ Len(t) > 1 => Tail(r) = SubSeq(o, n + m + 1, Len(o))
    <2>1. m \in 1..Len(t)
      BY <1>3
    <2>2. Len(t) = Len(o) - n /\ SubSeq(t, m, Len(t)) \in Seq(Operation)
      BY <1>2, <2>1, Next_
    <2>3. Len(SubSeq(t, m, Len(t))) = Len(t) - m + 1
      BY <1>2, <2>1, Next_
    <2>4. SubSeq(t, m, Len(t)) # <<>>
      <3>1. Len(t) \in Nat
        BY <1>2
      <3>2. Len(t) - m + 1 # 0
        BY <2>1, <3>1
      <3> QED
        BY <2>2, <2>3, <3>2, NotEmpty
    <2>5. m = 1 /\ Len(t) > 1 =>
            Tail(SubSeq(t, m, Len(t))) = SubSeq(o, n + m + 1, Len(o))
      BY <1>2, <2>1, Next_
    <2> QED
      BY <1>4, <2>2, <2>3, <2>4, <2>5
  <1>6. PICK v : v = [c EXCEPT !.todo = r]
    OBVIOUS
  <1>7. v \in Call /\ v.todo = r /\ Alike(v, c)
        /\ v.kept = c.kept /\ v.wrote = c.wrote /\ v.mine = c.mine
    BY <1>5, <1>6 DEF Call, Alike
  <1>8. PICK d : d = Rest(v)
    OBVIOUS
  <1>9. /\ d \in Call /\ Alike(d, v)
        /\ d.kept = v.kept /\ d.wrote = v.wrote /\ d.mine = v.mine
        /\ \/ Len(r) = 1 /\ d.pc = "done" /\ d.ans = "ok"
           \/ Len(r) > 1 /\ d.pc = "apply" /\ d.todo = Tail(r)
    BY <1>5, <1>7, <1>8, RestFacts
  <1>10. Len(o) \in Nat /\ Len(t) \in Nat /\ n \in Nat /\ m \in Nat
    <2>1. Len(o) \in Nat /\ Len(t) \in Nat
      BY <1>2
    <2>2. n \in 0..Len(o) /\ m \in 1..Len(t)
      BY <1>2, <1>3
    <2> QED
      BY <2>1, <2>2
  <1>11. Len(r) = 1 => n + m = Len(o)
    <2>1. PICK x, y, z : x = Len(o) /\ y = Len(t) /\ z = Len(r)
      OBVIOUS
    <2>2. z = y - m + 1 /\ y = x - n
      BY <1>5, <2>1
    <2>3. x \in Nat /\ y \in Nat /\ n \in Nat /\ m \in Nat
      BY <1>10, <2>1
    <2>4. z = 1 => n + m = x
      BY <2>2, <2>3
    <2> QED
      BY <2>1, <2>4
  <1>12. Len(r) > 1 => m = 1 /\ Len(t) > 1 /\ ~Is({"datastore"})
    BY <1>3, <1>5, <1>10
  <1>13. Len(r) > 1 => Tail(r) # <<>>
    <2> SUFFICES ASSUME Len(r) > 1 PROVE Tail(r) # <<>>
      OBVIOUS
    <2>1. PICK u : u = Tail(r)
      OBVIOUS
    <2>2. Len(u) = Len(r) - 1 /\ Len(r) \in Nat
      BY <1>5, <2>1
    <2>3. Len(u) # 0
      <3>1. \A k \in Nat : k > 1 => k - 1 # 0
        OBVIOUS
      <3> QED
        BY <2>2, <3>1
    <2> QED
      BY <2>1, <2>3, NotEmpty
  <1>14. /\ d \in Call /\ Alike(d, c)
         /\ d.kept = c.kept /\ d.wrote = c.wrote /\ d.mine = c.mine
    BY <1>7, <1>9 DEF Alike
  <1>15. \/ d.pc = "done" /\ d.ans = "ok" /\ n + m = Len(o)
         \/ /\ d.pc = "apply" /\ ~Is({"datastore"}) /\ d.todo # <<>>
            /\ d.todo = SubSeq(o, n + m + 1, Len(o))
    BY <1>5, <1>9, <1>11, <1>12, <1>13
  <1>16. d = Rest([c EXCEPT !.todo = SubSeq(@, m, Len(@))])
    BY <1>1, <1>4, <1>6, <1>8
  <1> QED
    BY <1>0, <1>1, <1>14, <1>15, <1>16

\* The next request of a call, where answers can be believed.
LEMMA TruthfulPerform ==
  ASSUME JInv, NEW p \in Client, Perform(p), Truthful PROVE JInv'
  <1> DEFINE c == client[p]
             m == Together(c.todo)
             s == SubSeq(c.todo, 1, m)
             d == Rest([c EXCEPT !.todo = SubSeq(@, m, Len(@))])
             w == client'[p]
  <1>0. c.pc = "apply" /\ ~Is({"cloudant"})
    BY DEF Perform
  <1>1. /\ c \in Call /\ Tracked(c) /\ c.op \in {"save", "delete", "commit"}
        /\ c.ops \in Seq(Operation) /\ c.todo # <<>> /\ detached \in SUBSET Key
    BY <1>0, TodoFacts
  <1>2. PICK n \in 0..Len(c.ops) : Reached(c, n)
    BY <1>0, <1>1 DEF Tracked, InOrder
  <1>3. CASE Sent(p, detached, Answer(c, "error"))
    <2>1. Answered(Answer(c, "error"))
      BY <1>1, <1>2, AnswerFacts DEF Answered, Alike, Reached
    <2> QED
      BY <1>1, <1>3, <2>1, AnswerKeeps DEF Tracked
  <1>4. CASE Wrote(p, s, d)
    <2>1. /\ d \in Call /\ Alike(d, c)
          /\ d.kept = c.kept /\ d.wrote = c.wrote /\ d.mine = c.mine
          /\ \/ d.pc = "done" /\ d.ans = "ok" /\ n + m = Len(c.ops)
             \/ /\ d.pc = "apply" /\ ~Is({"datastore"})
                /\ d.todo = SubSeq(c.ops, n + m + 1, Len(c.ops))
                /\ d.todo # <<>>
      BY <1>0, <1>1, <1>2, NextRest
    <2> HIDE DEF d
    <2>2. d.ops = c.ops
      BY <2>1 DEF Alike
    <2>3. /\ s \in Seq(Operation) /\ (Is({"postgres"}) => Len(s) = 1)
          /\ m \in 1..Len(c.todo) /\ n + m \in 0..Len(c.ops)
          /\ Len(c.todo) = Len(c.ops) - n
          /\ w.wrote = KeysOf(SubSeq(c.ops, 1, n + m))
          /\ \A k \in w.mine \cap KeysOf(SubSeq(c.ops, 1, n + m)) :
               table'[k] = Content(LastOn(SubSeq(c.ops, 1, n + m), k))
          /\ Is({"datastore"}) => n = 0 /\ m = Len(c.ops)
          /\ ~Is({"datastore"}) => m = 1
      BY <1>0, <1>1, <1>2, <1>4, <2>1, <2>2, Advances
    <2> HIDE DEF s
    <2>4. PICK l \in 0..Len(c.ops) : l = n + m
      BY <2>3
    <2> HIDE DEF m
    <2>5. /\ w \in Call /\ Alike(w, d) /\ w.pc = d.pc /\ w.todo = d.todo /\ w.ans = d.ans
          /\ w.kept = {k \in d.kept : table'[k] # Absent /\ d.tags \subseteq table'[k]}
      BY <1>4, <2>1, <2>3, WroteFacts
    <2>6. scenario' = scenario
      BY <1>4 DEF Wrote, Write, Store
    <2>7. Truthful' = Truthful /\ Is({"datastore"})' = Is({"datastore"})
      BY <2>6 DEF Is, Truthful
    <2>8. SubSeq(c.ops, 1, Len(c.ops)) = c.ops
      BY <1>1
    <2>9. /\ w.op = c.op /\ w.ops = c.ops /\ w.tags = d.tags
          /\ w.wrote = KeysOf(SubSeq(c.ops, 1, l))
          /\ \A k \in w.mine \cap KeysOf(SubSeq(c.ops, 1, l)) :
               table'[k] = Content(LastOn(SubSeq(c.ops, 1, l), k))
          /\ \/ w.pc = "done" /\ w.ans = "ok" /\ l = Len(c.ops)
             \/ /\ w.pc = "apply" /\ ~Is({"datastore"}) /\ w.todo # <<>>
                /\ w.todo = SubSeq(c.ops, l + 1, Len(c.ops))
      BY <2>1, <2>2, <2>3, <2>4, <2>5 DEF Alike
    <2> HIDE DEF w, c
    <2>10. Labelled(client[p])'
      BY <1>1, <2>9 DEF Labelled, w
    <2>11. InOrder(client[p])'
      BY <2>7, <2>9 DEF InOrder, Reached, Holds, w
    <2>12. Minded(client[p])'
      BY <2>5, <2>9 DEF Minded, w
    <2>13. Paged(client[p])' /\ Erasing(client[p])'
      BY <2>9 DEF Paged, Erasing, w
    <2>14. Answered(client[p])'
      BY <1>1, <2>8, <2>9 DEF Answered, Holds, w
    <2>15. Tracked(client[p])'
      BY <2>10, <2>11, <2>12, <2>13, <2>14 DEF Tracked
    <2> QED
      BY <1>4, <2>1, <2>3, <2>15, WroteKeeps
  <1> QED
    BY <1>3, <1>4 DEF Perform, Passed

LEMMA PerformKeeps == ASSUME JInv, NEW p \in Client, Perform(p) PROVE JInv'
  <1>1. CASE Truthful
    BY <1>1, TruthfulPerform
  <1>2. CASE ~Truthful
    <2> DEFINE c == client[p]
               t == c.todo
               s == SubSeq(t, 1, Together(t))
    <2>1. c.pc = "apply" /\ Is({"sidecar"}) /\ ~Is({"cloudant"})
      BY <1>2 DEF Perform, Truthful
    <2>2. /\ c \in Call /\ t \in Seq(Operation) /\ t # <<>> /\ Tracked(c)
          /\ c.op \in {"save", "delete", "commit"} /\ detached \in SUBSET Key
      BY <2>1, TodoFacts
    <2>3. Together(t) = 1 /\ ~Is({"postgres"}) /\ ~Is({"datastore"})
      BY <2>1, <2>2, TogetherFacts DEF Is
    <2>4. SubSeq(t, 1, Len(t)) = t /\ s \in Seq(Operation)
      BY <2>2, <2>3
    <2>5. [c EXCEPT !.todo = SubSeq(@, Together(t), Len(@))] = c
      BY <2>2, <2>3, <2>4 DEF Call
    <2>6. CASE Wrote(p, s, Rest(c))
      BY <1>2, <2>1, <2>3, <2>4, <2>6, LooseWrite
    <2>7. CASE Sent(p, detached, Answer(c, "error"))
      <3>1. Answered(Answer(c, "error"))
        BY <1>2, <2>2, AnswerFacts DEF Answered, Alike
      <3> QED
        BY <2>2, <2>7, <3>1, AnswerKeeps DEF Tracked
    <2> QED
      BY <2>5, <2>6, <2>7 DEF Perform, Passed
  <1> QED
    BY <1>1, <1>2

LEMMA FaultKeeps == ASSUME JInv, NEW p \in Client, Fault(p) PROVE JInv'
  <1> DEFINE c == client[p]
             s == SubSeq(c.todo, 1, Together(c.todo))
             w == client'[p]
  <1>0. c.pc \in {"apply", "insert"} /\ (c.pc = "insert" => Is({"cloudant"}))
    BY DEF Fault, JInv, Tracked, Labelled
  <1>1. /\ c \in Call /\ Tracked(c) /\ c.op \in {"save", "delete", "commit"}
        /\ c.ops \in Seq(Operation) /\ c.todo # <<>> /\ detached \in SUBSET Key
    BY <1>0, TodoFacts
  <1>2. Truthful => \E n \in 0..Len(c.ops) : Reached(c, n)
    BY <1>0, <1>1 DEF Tracked, InOrder, Truthful
  <1>3. CASE Sent(p, detached, Answer(c, "error"))
    <2>1. Answered(Answer(c, "error"))
      BY <1>1, <1>2, AnswerFacts DEF Answered, Alike, Reached
    <2> QED
      BY <1>1, <1>3, <2>1, AnswerKeeps DEF Tracked
  <1>4. CASE (c.pc = "insert" \/ Is({"sidecar"})) /\ Sent(p, detached, Rest(c))
    <2>0. ~Truthful
      BY <1>0, <1>4 DEF Fault, Truthful
    <2>1. Rest(c) \in Call /\ Tracked(Rest(c))
      BY <1>0, <2>0, LooseRest
    <2> QED
      BY <1>1, <1>4, <2>1, SentKeeps
  <1>6. CASE ~Truthful /\ ~Is({"cloudant"}) /\ Wrote(p, s, Answer(c, "error"))
    <2>1. ~Is({"postgres"}) /\ Together(c.todo) \in 1..Len(c.todo)
      <3>1. c.todo \in Seq(Operation)
        BY <1>1 DEF Call
      <3> QED
        BY <1>1, <1>6, <3>1, TogetherFacts DEF Truthful, Is
    <2>2. s \in Seq(Operation)
      BY <1>1, <2>1 DEF Call
    <2> HIDE DEF s
    <2> QED
      BY <1>0, <1>6, <2>1, <2>2, LooseWrite
  <1>5. CASE Truthful /\ ~Is({"cloudant"}) /\ Wrote(p, s, Answer(c, "error"))
    <2> DEFINE d == Answer(c, "error")
    <2>1. /\ d \in Call /\ Alike(d, c) /\ d.pc = "done" /\ d.ans = "error"
          /\ d.wrote = c.wrote /\ d.mine = c.mine
      BY <1>1, AnswerFacts
    <2>2. Wrote(p, s, d)
      BY <1>5
    <2> HIDE DEF d
    <2>3. PICK n \in 0..Len(c.ops) : Reached(c, n)
      BY <1>2, <1>5
    <2>4. d.ops = c.ops
      BY <2>1 DEF Alike
    <2>5. /\ s \in Seq(Operation) /\ (Is({"postgres"}) => Len(s) = 1)
          /\ n + Together(c.todo) \in 0..Len(c.ops)
          /\ w.wrote = KeysOf(SubSeq(c.ops, 1, n + Together(c.todo)))
          /\ Is({"datastore"}) => n = 0 /\ Together(c.todo) = Len(c.ops)
      BY <1>1, <1>5, <2>1, <2>2, <2>3, <2>4, Advances
    <2>6. PICK l \in 0..Len(c.ops) :
            /\ w.wrote = KeysOf(SubSeq(c.ops, 1, l))
            /\ Is({"datastore"}) => l = Len(c.ops)
      BY <1>1, <2>5
    <2> HIDE DEF s
    <2>7. /\ Alike(w, d) /\ w.pc = d.pc /\ w.ans = d.ans
          /\ w.kept = {k \in d.kept : table'[k] # Absent /\ d.tags \subseteq table'[k]}
      BY <2>1, <2>2, <2>5, WroteFacts
    <2>8. /\ w.pc = "done" /\ w.ans = "error" /\ w.op = c.op /\ w.ops = c.ops
          /\ w.tags = d.tags
      BY <2>1, <2>7 DEF Alike
    <2>9. scenario' = scenario
      BY <2>2 DEF Wrote, Write, Store
    <2>10. Is({"datastore"})' = Is({"datastore"})
      BY <2>9 DEF Is
    <2> HIDE DEF w, c
    <2>11. /\ Labelled(client[p])' /\ InOrder(client[p])' /\ Paged(client[p])'
           /\ Erasing(client[p])'
      BY <2>8 DEF Labelled, InOrder, Paged, Erasing, w
    <2>12. Minded(client[p])'
      BY <2>7, <2>8 DEF Minded, w
    <2>13. Answered(client[p])'
      BY <1>1, <2>6, <2>8, <2>10 DEF Answered, w
    <2>14. Tracked(client[p])'
      BY <2>11, <2>12, <2>13 DEF Tracked
    <2> QED
      BY <2>1, <2>2, <2>5, <2>14, WroteKeeps
  <1> QED
    BY <1>3, <1>4, <1>5, <1>6 DEF Fault, Passed
-----------------------------------------------------------------------------
(* Listings.                                                               *)

\* A page that holds as many rows as it can.
LEMMA FullFacts ==
  ASSUME NEW R \in SUBSET Present, NEW K \in Full(R)
  PROVE  /\ K \in Beginnings(R) /\ K \in SUBSET R
         /\ K = {} => R = {}
         /\ ~(Cardinality(R) > Limit) => K = R
  <1>1. K \in Beginnings(R) /\ K \in SUBSET R /\ Cardinality(K) = Upto(Limit, Cardinality(R))
    BY DEF Full, Beginnings
  <1>2. IsFiniteSet(R)
    BY KeyFacts, FS_Subset DEF Present
  <1>3. Cardinality(R) \in Nat /\ Limit \in Nat \ {0}
    BY <1>2, FS_CardinalityType, JournalAssumption
  <1>4. Cardinality(K) = Cardinality(R) => K = R
    BY <1>1, <1>2, FS_Subset
  <1>5. ASSUME K = {} PROVE R = {}
    <2>1. Cardinality(K) = 0
      BY <1>5, FS_EmptySet
    <2>2. Cardinality(R) = 0
      BY <1>1, <1>3, <2>1 DEF Upto
    <2> QED
      BY <1>2, <2>2, FS_EmptySet
  <1>6. ~(Cardinality(R) > Limit) => Cardinality(K) = Cardinality(R)
    BY <1>1, <1>3 DEF Upto
  <1> QED
    BY <1>1, <1>4, <1>5, <1>6

\* K is a beginning of the rows R that the listing c has yet to see, M what it takes
\* of K, d the listing with it.
Piece(d, c, R, K, M) ==
  /\ R \in SUBSET Present /\ K \in Beginnings(R) /\ M \in SUBSET K
  /\ c.kept \cap K \subseteq M
  /\ Takes(d, c, M)
  /\ \A k \in R : c.cursor = 0 \/ (c.cursor \in Key /\ Earlier(c.cursor, k))
  /\ ~d.cut => c.kept \ c.got \subseteq R

\* What a listing has with the next piece.
LEMMA PieceFacts ==
  ASSUME JInv, NEW p \in Client, client[p].pc \in {"page", "scan"},
         NEW d, NEW R, NEW K, NEW M, Piece(d, client[p], R, K, M)
  PROVE  /\ d.op = "list" /\ Minded(d)
         /\ d.again \cap d.kept = {} /\ (~Is({"postgres"}) => d.again = {})
         /\ ~d.cut => d.kept \ d.got \subseteq R \ K
  <1> DEFINE c == client[p]
  <1>1. c \in Call /\ Tracked(c) /\ c.op = "list"
    BY DEF JInv, JTypeOK, Tracked, Labelled
  <1>2. /\ c.cursor = 0 => c.got = {}
        /\ c.again \cap c.kept = {}
        /\ ~Is({"postgres"}) => c.again = {} /\ \A k \in c.got : k =< c.cursor
        /\ c.cursor \in Key => \A k \in c.kept \cap c.got : k = c.cursor \/ Earlier(k, c.cursor)
        /\ c.cursor \in Key /\ Is({"postgres"}) => c.cursor \in Present
    BY <1>1 DEF Tracked, Paged
  <1>3. c.got \in SUBSET Key /\ M \in SUBSET Key /\ R \in SUBSET Present
    BY <1>1 DEF Call, Piece, Beginnings, Present
  <1>4. /\ d.op = c.op /\ d.tags = c.tags /\ d.kept = c.kept
        /\ d.got = c.got \cup M /\ d.again = c.again \cup (c.got \cap M)
    BY DEF Piece, Takes
  <1> HIDE DEF c
  <1>5. M \subseteq R /\ \A k \in R : c.cursor = 0 \/ (c.cursor \in Key /\ Earlier(c.cursor, k))
    BY DEF Piece, Beginnings, c
  <1>6. Minded(d)
    BY <1>1, <1>4 DEF Tracked, Minded
  <1>7. ASSUME ~Is({"postgres"}) PROVE c.got \cap M = {}
    <2> SUFFICES ASSUME NEW k \in c.got \cap M PROVE FALSE
      OBVIOUS
    <2>1. c.cursor \in Key /\ c.cursor < k /\ k =< c.cursor
      BY <1>2, <1>5, <1>7 DEF Earlier
    <2>2. c.cursor \in Nat /\ k \in Nat
      BY <1>3, <2>1, KeyFacts
    <2> QED
      BY <2>1, <2>2
  <1>8. ASSUME Is({"postgres"}) PROVE c.got \cap M \cap c.kept = {}
    <2> SUFFICES ASSUME NEW k \in c.got \cap M \cap c.kept PROVE FALSE
      OBVIOUS
    <2>1. c.cursor \in Key /\ Earlier(c.cursor, k) /\ (k = c.cursor \/ Earlier(k, c.cursor))
      BY <1>2, <1>5
    <2>2. k \in Present /\ c.cursor \in Present
      BY <1>2, <1>3, <1>5, <1>8, <2>1
    <2> QED
      BY <1>8, <2>1, <2>2 DEF JInv, Ordered, Earlier
  <1>9. d.again \cap d.kept = {} /\ (~Is({"postgres"}) => d.again = {})
    BY <1>2, <1>4, <1>7, <1>8
  <1>10. ~d.cut => d.kept \ d.got \subseteq R \ K
    BY <1>4 DEF Piece, c
  <1> QED
    BY <1>1, <1>4, <1>6, <1>9, <1>10

\* A listing that ends with a piece has all of them or misses some.
LEMMA PieceEnds ==
  ASSUME JInv, NEW p \in Client, client[p].pc \in {"page", "scan"},
         NEW d, NEW R, NEW K, NEW M, Piece(d, client[p], R, K, M), d.cut \/ K = R,
         Sent(p, detached, Answer(d, "ok"))
  PROVE  JInv'
  <1>1. /\ d.op = "list" /\ Minded(d)
        /\ d.again \cap d.kept = {} /\ (~Is({"postgres"}) => d.again = {})
        /\ ~d.cut => d.kept \ d.got \subseteq R \ K
    BY PieceFacts
  <1>2. detached \in SUBSET Key /\ d \in Call
    BY DEF JInv, JTypeOK, Piece, Takes
  <1>3. ~d.cut => d.kept \subseteq d.got
    BY <1>1
  <1>4. Answered(Answer(d, "ok"))
    BY <1>1, <1>2, <1>3, AnswerFacts DEF Answered, Alike
  <1> QED
    BY <1>1, <1>2, <1>4, AnswerKeeps

\* One that goes on does so after the last row of the piece ...
LEMMA PieceMoves ==
  ASSUME JInv, NEW p \in Client, client[p].pc \in {"page", "scan"}, ~Is({"cloudant"}),
         NEW d, NEW R, NEW K, NEW M, Piece(d, client[p], R, K, M), K # {},
         Sent(p, detached, [d EXCEPT !.cursor = LastOf(K)])
  PROVE  JInv'
  <1> DEFINE c == client[p]
             x == LastOf(K)
             w == [d EXCEPT !.cursor = x]
  <1>0. /\ d.op = "list" /\ Minded(d)
        /\ d.again \cap d.kept = {} /\ (~Is({"postgres"}) => d.again = {})
        /\ ~d.cut => d.kept \ d.got \subseteq R \ K
    BY PieceFacts
  <1>1. /\ d \in Call /\ c \in Call /\ d.pc = c.pc
        /\ d.got = c.got \cup M /\ d.kept = c.kept
    BY DEF Piece, Takes
  <1>2. Sent(p, detached, w) /\ detached \in SUBSET Key
    BY DEF JInv, JTypeOK
  <1>3. Tracked(c) /\ Ordered /\ c.pc \in {"page", "scan"}
    BY DEF JInv
  <1>4. /\ K \in SUBSET R /\ R \in SUBSET Present /\ M \in SUBSET K /\ K \in Beginnings(R)
        /\ \A k \in R : c.cursor = 0 \/ (c.cursor \in Key /\ Earlier(c.cursor, k))
    BY DEF Piece, Beginnings
  <1> HIDE DEF c
  <1>5. x \in K /\ \A a \in K \ {x} : Earlier(a, x)
    BY <1>3, <1>4, LastOfFacts
  <1> HIDE DEF x
  <1>6. x \in Key /\ x \in Present /\ x \in Nat /\ x # 0 /\ x # None
    BY <1>4, <1>5, KeyFacts DEF Present
  <1>7. w \in Call
    BY <1>1, <1>6 DEF Call
  <1>8. /\ w.pc = d.pc /\ w.op = d.op /\ w.cut = d.cut /\ w.got = d.got /\ w.kept = d.kept
        /\ w.again = d.again /\ w.tags = d.tags /\ w.cursor = x
    BY <1>1 DEF Call
  <1> HIDE DEF w
  <1>9. \A k \in R \ K : Earlier(x, k)
    BY <1>4, <1>5 DEF Beginnings
  <1>10. c.cursor = 0 \/ (c.cursor \in Key /\ Earlier(c.cursor, x))
    BY <1>4, <1>5
  <1>11. /\ c.cursor = 0 => c.got = {}
         /\ ~Is({"postgres"}) => \A k \in c.got : k =< c.cursor
         /\ c.cursor \in Key =>
              \A k \in c.kept \cap c.got : k = c.cursor \/ Earlier(k, c.cursor)
         /\ c.cursor \in Key /\ Is({"postgres"}) => c.cursor \in Present
    BY <1>3 DEF Tracked, Paged
  <1>12. ASSUME ~Is({"postgres"}), NEW k \in d.got PROVE k =< x
    <2>1. k \in Nat
      BY <1>1, <1>12, KeyFacts DEF Call
    <2>2. CASE k \in M
      BY <1>4, <1>5, <1>6, <1>12, <2>1, <2>2 DEF Earlier
    <2>3. CASE k \in c.got
      <3>1. c.cursor \in Key /\ k =< c.cursor /\ c.cursor < x
        BY <1>10, <1>11, <1>12, <2>3 DEF Earlier
      <3>2. c.cursor \in Nat
        BY <3>1, KeyFacts
      <3> QED
        BY <1>6, <2>1, <3>1, <3>2
    <2> QED
      BY <1>1, <1>12, <2>2, <2>3
  <1>13. ASSUME NEW k \in d.kept \cap d.got PROVE k = x \/ Earlier(k, x)
    <2>1. CASE k \in M
      BY <1>4, <1>5, <2>1
    <2>2. CASE k \in c.got /\ ~Is({"postgres"})
      <3>1. k =< x /\ k \in Nat
        BY <1>1, <1>12, <1>13, <2>2, KeyFacts DEF Call
      <3> QED
        BY <1>6, <2>2, <3>1 DEF Earlier
    <2>3. CASE k \in c.got /\ Is({"postgres"})
      <3>1. c.cursor \in Key /\ Earlier(c.cursor, x) /\ c.cursor \in Present
        BY <1>10, <1>11, <2>3
      <3>2. k = c.cursor \/ Earlier(k, c.cursor)
        BY <1>1, <1>11, <1>13, <2>3, <3>1
      <3>3. k \in Present
        BY <1>0, <1>1, <1>13 DEF Minded, Present, Call
      <3> QED
        BY <1>3, <1>6, <2>3, <3>1, <3>2, <3>3 DEF Ordered, Earlier
    <2> QED
      BY <1>1, <1>13, <2>1, <2>2, <2>3
  <1>14. Paged(w)
    BY <1>0, <1>1, <1>6, <1>8, <1>9, <1>12, <1>13 DEF Paged
  <1>15. Labelled(w)
    BY <1>0, <1>1, <1>3, <1>8 DEF Tracked, Labelled
  <1>16. Tracked(w)
    BY <1>0, <1>1, <1>3, <1>8, <1>14, <1>15
       DEF Tracked, InOrder, Minded, Erasing, Answered
  <1> QED
    BY <1>2, <1>7, <1>16, SentKeeps

\* ... and where it was, if the piece is empty.
LEMMA PieceStays ==
  ASSUME JInv, NEW p \in Client, client[p].pc \in {"page", "scan"},
         NEW d, Takes(d, client[p], {}),
         Sent(p, detached, [d EXCEPT !.cursor = client[p].cursor])
  PROVE  JInv'
  <1> DEFINE c == client[p]
  <1>1. Tracked(c) /\ detached \in SUBSET Key /\ c.pc \in {"page", "scan"}
    BY DEF JInv, JTypeOK
  <1>2. /\ c \in Call /\ d \in Call /\ d.pc = c.pc /\ d.op = c.op /\ d.tags = c.tags
        /\ d.kept = c.kept /\ d.cursor = c.cursor /\ (c.cut => d.cut)
        /\ d.got = c.got /\ d.again = c.again
    BY DEF Takes
  <1> HIDE DEF c
  <1>3. [d EXCEPT !.cursor = c.cursor] = d
    BY <1>2 DEF Call
  <1>4. Paged(d)
    BY <1>1, <1>2 DEF Tracked, Paged
  <1>5. Tracked(d)
    BY <1>1, <1>2, <1>4 DEF Tracked, Labelled, InOrder, Minded, Erasing, Answered
  <1> QED
    BY <1>1, <1>2, <1>3, <1>5, SentKeeps DEF c
\* Where the clouds other than PostgreSQL and Cloudant go on.
LEMMA BeyondFacts ==
  ASSUME JInv, NEW p \in Client, client[p].pc \in {"page", "scan"},
         ~Is({"postgres"}), ~Is({"cloudant"})
  PROVE  LET c == client[p]
             R == Beyond(c.cursor)
         IN /\ c \in Call /\ Minded(c) /\ c.cursor # None /\ c.cursor \in {0} \cup Key
            /\ R \in SUBSET Present
            /\ \A k \in R : c.cursor = 0 \/ (c.cursor \in Key /\ Earlier(c.cursor, k))
            /\ ~c.cut => c.kept \ c.got \subseteq R
            /\ c.kept \subseteq Matching(Present, c.tags)
  <1> DEFINE c == client[p]
             R == Beyond(c.cursor)
  <1>1. c \in Call /\ Tracked(c) /\ c.kept \in SUBSET Key /\ c.cursor \in {0, None} \cup Key
    BY DEF JInv, JTypeOK, Call
  <1>2. /\ c.cursor # None
        /\ c.cursor \in Key => (~c.cut => \A k \in c.kept \ c.got : c.cursor < k)
    BY <1>1 DEF Tracked, Paged, Earlier
  <1> HIDE DEF c
  <1>3. R \in SUBSET Present
    BY DEF Beyond
  <1>4. \A k \in R : c.cursor = 0 \/ (c.cursor \in Key /\ Earlier(c.cursor, k))
    BY <1>1, <1>2, KeyFacts DEF Beyond, Earlier, Present
  <1>5. c.kept \subseteq Present /\ c.kept \subseteq Matching(Present, c.tags)
    BY <1>1 DEF Tracked, Minded, Present, Matching, Matches
  <1>6. ASSUME ~c.cut PROVE c.kept \ c.got \subseteq R
    <2> SUFFICES ASSUME NEW k \in c.kept \ c.got PROVE k > c.cursor
      BY <1>5 DEF Beyond
    <2>1. k \in Nat /\ k > 0
      <3>1. k \in Nat /\ k # 0
        BY <1>1, KeyFacts
      <3> QED
        BY <3>1
    <2>2. CASE c.cursor = 0
      BY <2>1, <2>2
    <2>3. CASE c.cursor \in Key
      <3>1. c.cursor < k /\ c.cursor \in Nat
        BY <1>2, <1>6, <2>3, KeyFacts
      <3> QED
        BY <2>1, <3>1
    <2> QED
      BY <1>1, <1>2, <2>2, <2>3
  <1> QED
    BY <1>1, <1>2, <1>3, <1>4, <1>5, <1>6 DEF Tracked, c

\* The page g of the listing c: what it is a beginning of, and where it says to go on.
Served(c, g, R) ==
  /\ R \in SUBSET Present /\ g.keys \in Beginnings(R)
  /\ \A k \in R : c.cursor = 0 \/ (c.cursor \in Key /\ Earlier(c.cursor, k))
  /\ ~c.cut /\ ~Misses(c, g) => c.kept \ c.got \subseteq R
  /\ \/ g.next = None /\ (g.keys = R \/ Misses(c, g))
     \/ g.keys = {} /\ g.next = c.cursor /\ c.cursor # None
     \/ g.keys # {} /\ g.next = LastOf(g.keys) /\ ~Is({"cloudant"})

LEMMA CosmosServed ==
  ASSUME JInv, NEW p \in Client, client[p].pc = "page", Is({"cosmos", "sidecar"}),
         NEW g \in CosmosPage(client[p])
  PROVE  Served(client[p], g, CosmosRows(client[p]))
  <1> DEFINE c == client[p]
             R == CosmosRows(c)
  <1>1. ~Is({"postgres"}) /\ ~Is({"cloudant"})
    BY DEF Is
  <1>2. /\ c.cursor # None
        /\ \A k \in Beyond(c.cursor) :
             c.cursor = 0 \/ (c.cursor \in Key /\ Earlier(c.cursor, k))
        /\ ~c.cut => c.kept \ c.got \subseteq Beyond(c.cursor)
        /\ c.kept \subseteq Matching(Present, c.tags)
    BY <1>1, BeyondFacts
  <1>3. /\ R \in SUBSET Present /\ R \subseteq Beyond(c.cursor)
        /\ Matching(Present, c.tags) \cap Beyond(c.cursor) \subseteq R
    BY DEF CosmosRows, Matching, Beyond
  <1>4. PICK K \in Beginnings(R) :
          /\ g = [keys |-> K,
                  next |-> IF K = R THEN None
                           ELSE IF K = {} THEN c.cursor ELSE LastOf(K)]
    BY DEF CosmosPage
  <1>5. /\ g.keys = K
        /\ g.next = IF K = R THEN None ELSE IF K = {} THEN c.cursor ELSE LastOf(K)
    BY <1>4
  <1> HIDE DEF c, R
  <1>6. ~c.cut => c.kept \ c.got \subseteq R
    BY <1>2, <1>3
  <1>7. Served(c, g, R)
    BY <1>1, <1>2, <1>3, <1>4, <1>5, <1>6 DEF Served
  <1> QED
    BY <1>7 DEF c, R

LEMMA DatastoreServed ==
  ASSUME JInv, NEW p \in Client, client[p].pc = "page", Is({"datastore"}),
         NEW g \in DatastorePage(client[p])
  PROVE  Served(client[p], g, DatastoreRows(client[p]))
  <1> DEFINE c == client[p]
             R == DatastoreRows(c)
  <1>1. ~Is({"postgres"}) /\ ~Is({"cloudant"})
    BY DEF Is
  <1>2. /\ c.cursor # None
        /\ \A k \in Beyond(c.cursor) :
             c.cursor = 0 \/ (c.cursor \in Key /\ Earlier(c.cursor, k))
        /\ ~c.cut => c.kept \ c.got \subseteq Beyond(c.cursor)
        /\ c.kept \subseteq Matching(Present, c.tags)
    BY <1>1, BeyondFacts
  <1>3. /\ R \in SUBSET Present /\ R \subseteq Beyond(c.cursor)
        /\ Matching(Present, c.tags) \cap Beyond(c.cursor) \subseteq R
    BY DEF DatastoreRows, Matching, Beyond
  <1>4. PICK K \in Full(R) : g = [keys |-> K, next |-> IF K = R THEN None ELSE LastOf(K)]
    BY DEF DatastorePage
  <1>5. g.keys = K /\ g.next = IF K = R THEN None ELSE LastOf(K)
    BY <1>4
  <1> HIDE DEF c, R
  <1>6. ~c.cut => c.kept \ c.got \subseteq R
    BY <1>2, <1>3
  <1>7. K \in Beginnings(R) /\ (K = {} => R = {})
    BY <1>3, FullFacts
  <1>8. Served(c, g, R)
    BY <1>1, <1>2, <1>3, <1>5, <1>6, <1>7 DEF Served
  <1> QED
    BY <1>8 DEF c, R

LEMMA PostgresServed ==
  ASSUME JInv, NEW p \in Client, client[p].pc = "page", Is({"postgres"}),
         NEW g \in PostgresPage(client[p])
  PROVE  Served(client[p], g, PostgresRows(client[p]))
  <1> DEFINE c == client[p]
             R == PostgresRows(c)
             A == Matching(Present, c.tags)
             B == {k \in A : k = c.cursor \/ Earlier(c.cursor, k)}
  <1>1. ~Is({"cloudant"})
    BY DEF Is
  <1>2. c \in Call /\ Tracked(c) /\ Ordered /\ c.cursor \in {0, None} \cup Key
    BY DEF JInv, JTypeOK, Call
  <1>3. /\ c.cursor \in Key => /\ c.cursor \in Present
                               /\ ~c.cut => \A k \in c.kept \ c.got : Earlier(c.cursor, k)
    BY <1>2 DEF Tracked, Paged
  <1>4. A \in SUBSET Present /\ c.kept \subseteq A
    BY <1>2 DEF Tracked, Minded, Matching, Matches, Present, Call
  <1>5. /\ c.cursor = 0 => R = A
        /\ c.cursor = None => R = {}
        /\ c.cursor \in Key => R = {k \in B : \E j \in B \ {k} : Earlier(j, k)}
    <2>1. 0 # None /\ 0 \notin Key /\ None \notin Key
      BY KeyFacts, JournalAssumption
    <2> QED
      BY <2>1 DEF PostgresRows
  <1>6. PICK K \in Full(R) : g = [keys |-> K, next |-> IF K = {} THEN None ELSE LastOf(K)]
    BY DEF PostgresPage
  <1>7. g.keys = K /\ g.next = IF K = {} THEN None ELSE LastOf(K)
    BY <1>6
  <1>8. Misses(c, g) <=> \/ c.caller = "all" /\ g.keys = {} /\ g.next # None
                         \/ c.cursor # 0 /\ (c.cursor = None \/ ~Matches(c.cursor, c.tags))
    BY <1>1 DEF Misses
  <1>9. c.cursor \in Key /\ Matches(c.cursor, c.tags) => c.cursor \in A
    BY <1>3 DEF Matching
  <1> HIDE DEF c, R
  <1>10. R \in SUBSET Present
    BY <1>2, <1>4, <1>5
  <1>11. K \in Beginnings(R) /\ (K = {} => R = {})
    BY <1>10, FullFacts
  <1>12. ASSUME NEW k \in R PROVE c.cursor = 0 \/ (c.cursor \in Key /\ Earlier(c.cursor, k))
    <2> SUFFICES ASSUME c.cursor \in Key PROVE Earlier(c.cursor, k)
      BY <1>2, <1>5, <1>12
    <2>1. PICK j \in B \ {k} : Earlier(j, k)
      BY <1>5, <1>12
    <2>2. k \in B /\ k \in Present /\ j \in Present /\ c.cursor \in Present
      BY <1>3, <1>4, <1>5, <1>12, <2>1
    <2>3. CASE k # c.cursor
      BY <2>2, <2>3
    <2>4. CASE k = c.cursor
      <3>1. Earlier(c.cursor, j)
        BY <2>1, <2>4
      <3> QED
        BY <1>2, <2>1, <2>2, <2>4, <3>1 DEF Ordered, Earlier
    <2> QED
      BY <2>3, <2>4
  <1>13. ASSUME ~c.cut, ~Misses(c, g) PROVE c.kept \ c.got \subseteq R
    <2> SUFFICES ASSUME NEW k \in c.kept \ c.got PROVE k \in R
      OBVIOUS
    <2>1. c.cursor = 0 \/ (c.cursor \in Key /\ Matches(c.cursor, c.tags))
      BY <1>2, <1>8, <1>13
    <2>2. CASE c.cursor = 0
      BY <1>4, <1>5, <2>2
    <2>3. CASE c.cursor \in Key /\ Matches(c.cursor, c.tags)
      <3>1. Earlier(c.cursor, k) /\ c.cursor \in B /\ k \in B
        BY <1>3, <1>4, <1>9, <1>13, <2>3
      <3>2. k # c.cursor
        BY <1>2, <1>3, <2>3, <3>1 DEF Ordered, Earlier
      <3> QED
        BY <1>5, <2>3, <3>1, <3>2
    <2> QED
      BY <2>1, <2>2, <2>3
  <1>14. Served(c, g, R)
    BY <1>1, <1>7, <1>10, <1>11, <1>12, <1>13 DEF Served
  <1> QED
    BY <1>14 DEF c, R

LEMMA CloudantServed ==
  ASSUME JInv, NEW p \in Client, client[p].pc = "page", Is({"cloudant"}),
         NEW g \in CloudantPage(client[p])
  PROVE  Served(client[p], g, CloudantRows(client[p]))
  <1> DEFINE c == client[p]
             R == CloudantRows(c)
  <1>1. c \in Call /\ Tracked(c)
    BY DEF JInv, JTypeOK
  <1>2. c.cursor = 0
    BY <1>1 DEF Tracked, Paged
  <1>3. R \in SUBSET Present /\ c.kept \subseteq R
    BY <1>1 DEF CloudantRows, Tracked, Minded, Matching, Matches, Present, Call
  <1>4. PICK K \in Full(R) : g = [keys |-> K, next |-> None]
    BY DEF CloudantPage, CloudantBuild
  <1>5. g.keys = K /\ g.next = None
    BY <1>4
  <1>6. Cardinality(R) > Limit => Misses(c, g)
    BY DEF Misses
  <1> HIDE DEF c, R
  <1>7. K \in Beginnings(R) /\ (~(Cardinality(R) > Limit) => K = R)
    BY <1>3, FullFacts
  <1>8. Served(c, g, R)
    BY <1>2, <1>3, <1>5, <1>6, <1>7 DEF Served
  <1> QED
    BY <1>8 DEF c, R

\* The cursor the caller gets.
LEMMA CursorFacts ==
  ASSUME NEW c \in Call, NEW g
  PROVE  /\ c.caller = "all" /\ g.keys = {} => NextCursor(c.caller, g) = None
         /\ ~(c.caller = "all" /\ g.keys = {}) => NextCursor(c.caller, g) = g.next
  <1>1. c.caller \in {"list", "ls", "all"}
    BY DEF Call
  <1> QED
    BY <1>1 DEF NextCursor, ListNext, LsNext, ListDatasetsNext

\* A listing with a page, and whether it misses some.
LEMMA MissedFacts ==
  ASSUME NEW c \in Call, NEW K \in SUBSET Key, NEW g
  PROVE  LET d == [Took(c, K) EXCEPT !.cut = @ \/ Misses(c, g)]
         IN Takes(d, c, K) /\ (d.cut <=> c.cut \/ Misses(c, g)) /\ d.caller = c.caller
  <1>1. Took(c, K) \in Call /\ Takes(Took(c, K), c, K)
    BY TookFacts DEF Takes
  <1>2. Took(c, K).cut = c.cut /\ c.cut \in BOOLEAN /\ Took(c, K).caller = c.caller
    BY DEF Took, Call
  <1>3. CASE Misses(c, g)
    <2>1. [Took(c, K) EXCEPT !.cut = @ \/ Misses(c, g)] = [Took(c, K) EXCEPT !.cut = TRUE]
      BY <1>3
    <2>2. PICK v : v = Took(c, K)
      OBVIOUS
    <2>3. [v EXCEPT !.cut = TRUE].caller = v.caller
      BY <1>1, <2>2 DEF Call
    <2> QED
      BY <1>1, <1>2, <1>3, <2>1, <2>2, <2>3, CutFacts
  <1>4. CASE ~Misses(c, g)
    <2>1. PICK v : v = Took(c, K)
      OBVIOUS
    <2>2. [v EXCEPT !.cut = v.cut] = v
      BY <1>1, <2>1 DEF Call
    <2>3. (v.cut \/ Misses(c, g)) = v.cut
      BY <1>2, <1>4, <2>1
    <2> QED
      BY <1>1, <1>2, <1>4, <2>1, <2>2, <2>3
  <1> QED
    BY <1>3, <1>4
LEMMA PageKeeps == ASSUME JInv, NEW p \in Client, Page(p) PROVE JInv'
  <1> DEFINE c == client[p]
  <1>0. c.pc = "page"
    BY DEF Page
  <1>1. c \in Call /\ scenario.db \in Database /\ ~Is({"dynamo"})
    <2>1. c \in Call /\ ~Is({"dynamo"}) /\ scenario \in Scenarios
      BY <1>0 DEF JInv, JTypeOK, Tracked, Labelled
    <2> QED
      BY <2>1, JournalAssumption DEF Scenario
  <1>2. PICK g \in PageOf(c) :
          LET d == [Took(c, g.keys) EXCEPT !.cut = @ \/ Misses(c, g)]
              n == NextCursor(c.caller, g)
          IN Sent(p, detached, IF n = None THEN Answer(d, "ok") ELSE [d EXCEPT !.cursor = n])
    BY DEF Page, Passed
  <1>3. PICK d : d = [Took(c, g.keys) EXCEPT !.cut = @ \/ Misses(c, g)]
    OBVIOUS
  <1>4. PICK n : n = NextCursor(c.caller, g)
    OBVIOUS
  <1>5. Sent(p, detached, IF n = None THEN Answer(d, "ok") ELSE [d EXCEPT !.cursor = n])
    BY <1>2, <1>3, <1>4
  <1>6. PICK R : Served(c, g, R)
    <2>1. CASE Is({"cosmos", "sidecar"})
      <3>1. g \in CosmosPage(c)
        BY <2>1 DEF PageOf, Is
      <3> QED
        BY <1>0, <2>1, <3>1, CosmosServed
    <2>2. CASE Is({"datastore"})
      <3>1. g \in DatastorePage(c)
        BY <2>2 DEF PageOf, Is
      <3> QED
        BY <1>0, <2>2, <3>1, DatastoreServed
    <2>3. CASE Is({"postgres"})
      <3>1. g \in PostgresPage(c)
        BY <2>3 DEF PageOf, Is
      <3> QED
        BY <1>0, <2>3, <3>1, PostgresServed
    <2>4. CASE Is({"cloudant"})
      <3>1. g \in CloudantPage(c)
        BY <2>4 DEF PageOf, Is
      <3> QED
        BY <1>0, <2>4, <3>1, CloudantServed
    <2> QED
      BY <1>1, <2>1, <2>2, <2>3, <2>4 DEF Database, Is
  <1>7. /\ R \in SUBSET Present /\ g.keys \in Beginnings(R) /\ g.keys \in SUBSET Key
        /\ \A k \in R : c.cursor = 0 \/ (c.cursor \in Key /\ Earlier(c.cursor, k))
        /\ ~c.cut /\ ~Misses(c, g) => c.kept \ c.got \subseteq R
        /\ \/ g.next = None /\ (g.keys = R \/ Misses(c, g))
           \/ g.keys = {} /\ g.next = c.cursor /\ c.cursor # None
           \/ g.keys # {} /\ g.next = LastOf(g.keys) /\ ~Is({"cloudant"})
    BY <1>6 DEF Served, Beginnings, Present
  <1>8. Takes(d, c, g.keys) /\ (d.cut <=> c.cut \/ Misses(c, g))
    BY <1>1, <1>3, <1>7, MissedFacts
  <1>9. /\ c.caller = "all" /\ g.keys = {} => n = None
        /\ ~(c.caller = "all" /\ g.keys = {}) => n = g.next
    BY <1>1, <1>4, CursorFacts
  <1> DEFINE K == g.keys
  <1>10. Piece(d, c, R, K, K)
    BY <1>7, <1>8 DEF Piece
  <1>11. CASE n = None
    <2>1. Sent(p, detached, Answer(d, "ok"))
      BY <1>5, <1>11
    <2>2. d.cut \/ K = R
      <3>1. CASE g.next = None /\ (K = R \/ Misses(c, g))
        BY <1>8, <3>1
      <3>2. CASE K = {} /\ g.next # None
        BY <1>8, <1>9, <1>11, <3>2 DEF Misses
      <3>3. CASE K # {} /\ g.next = LastOf(K)
        <4>1. LastOf(K) \in Key
          BY <1>7, <3>3, LastOfFacts DEF Beginnings, JInv, Present
        <4> QED
          BY <1>9, <1>11, <3>3, <4>1, KeyFacts
      <3> QED
        BY <1>7, <3>1, <3>2, <3>3
    <2> QED
      BY <1>0, <1>10, <2>1, <2>2, PieceEnds
  <1>12. CASE n # None
    <2>1. Sent(p, detached, [d EXCEPT !.cursor = n]) /\ n = g.next
      BY <1>5, <1>9, <1>12
    <2>2. CASE K = {}
      BY <1>0, <1>7, <1>8, <1>12, <2>1, <2>2, PieceStays
    <2>3. CASE K # {}
      BY <1>0, <1>7, <1>10, <1>12, <2>1, <2>3, PieceMoves
    <2> QED
      BY <2>2, <2>3
  <1> QED
    BY <1>11, <1>12

\* A scan takes the records of a piece that pass the filters.
LEMMA DynamoScanKeeps == ASSUME JInv, NEW p \in Client, DynamoScan(p) PROVE JInv'
  <1> DEFINE c == client[p]
             R == Beyond(c.cursor)
  <1>0. c.pc = "scan"
    BY DEF DynamoScan
  <1>1. ~Is({"postgres"}) /\ ~Is({"cloudant"})
    BY <1>0 DEF JInv, Tracked, Labelled, Is
  <1>2. PICK K \in Full(R) :
          LET d == Took(c, DynamoRows(c, K))
          IN Sent(p, detached, IF K = R THEN Answer(d, "ok")
                               ELSE [d EXCEPT !.cursor = LastOf(K)])
    BY DEF DynamoScan, Passed
  <1>3. /\ c \in Call /\ R \in SUBSET Present
        /\ \A k \in R : c.cursor = 0 \/ (c.cursor \in Key /\ Earlier(c.cursor, k))
        /\ ~c.cut => c.kept \ c.got \subseteq R
        /\ c.kept \subseteq Matching(Present, c.tags)
    BY <1>0, <1>1, BeyondFacts
  <1>4. PICK M : M = DynamoRows(c, K)
    OBVIOUS
  <1>5. PICK d : d = Took(c, M)
    OBVIOUS
  <1>6. Sent(p, detached, IF K = R THEN Answer(d, "ok") ELSE [d EXCEPT !.cursor = LastOf(K)])
    BY <1>2, <1>4, <1>5
  <1> HIDE DEF R
  <1>7. /\ K \in Beginnings(R) /\ K \in SUBSET R /\ (K = {} => R = {})
    BY <1>3, FullFacts
  <1>8. M \in SUBSET K /\ c.kept \cap K \subseteq M /\ M \in SUBSET Key
    BY <1>3, <1>4, <1>7 DEF DynamoRows, Matching, Present
  <1>9. Takes(d, c, M)
    BY <1>3, <1>5, <1>8, TookFacts
  <1>10. ~d.cut => c.kept \ c.got \subseteq R
    BY <1>3, <1>9 DEF Takes
  <1>11. Piece(d, c, R, K, M)
    BY <1>3, <1>7, <1>8, <1>9, <1>10 DEF Piece
  <1>12. CASE K = R
    BY <1>0, <1>6, <1>11, <1>12, PieceEnds
  <1>13. CASE K # R
    <2>1. K # {} /\ Sent(p, detached, [d EXCEPT !.cursor = LastOf(K)])
      BY <1>6, <1>7, <1>13
    <2> QED
      BY <1>0, <1>1, <1>11, <2>1, PieceMoves
  <1> QED
    BY <1>12, <1>13
-----------------------------------------------------------------------------
(* Deletions.                                                              *)

LEMMA EraseKeeps == ASSUME JInv, NEW p \in Client, Erase(p) PROVE JInv'
  <1> DEFINE c == client[p]
  <1>0. c.pc = "erase"
    BY DEF Erase
  <1>1. /\ c \in Call /\ Tracked(c) /\ c.op = "deleteAll" /\ c.left \in SUBSET Key
        /\ detached \in SUBSET Key
    BY <1>0 DEF JInv, JTypeOK, Tracked, Labelled, Call
  <1>2. Truthful => c.kept \subseteq c.left
    BY <1>0, <1>1 DEF Tracked, Erasing
  <1>3. CASE c.left = {} /\ Sent(p, detached, Answer(c, "ok"))
    <2>1. Answered(Answer(c, "ok"))
      BY <1>1, <1>2, <1>3, AnswerFacts DEF Answered, Alike
    <2> QED
      BY <1>1, <1>3, <2>1, AnswerKeeps DEF Tracked
  <1>4. ASSUME NEW k \in c.left,
               Sent(p, detached \cup (c.left \ {k}), Answer(c, "error"))
        PROVE  JInv'
    <2>1. Answered(Answer(c, "error"))
      BY <1>1, AnswerFacts DEF Answered, Alike
    <2>2. detached \cup (c.left \ {k}) \in SUBSET Key
      BY <1>1
    <2> QED
      BY <1>1, <1>4, <2>1, <2>2, AnswerKeeps DEF Tracked
  <1>5. ASSUME NEW k \in c.left
        PROVE  LET d == IF c.left = {k} THEN Answer(c, "ok")
                        ELSE [c EXCEPT !.left = @ \ {k}]
               IN /\ d \in Call /\ Alike(d, c) /\ d.kept = c.kept
                  /\ \/ d.pc = "done" /\ d.ans = "ok" /\ c.left = {k}
                     \/ d.pc = "erase" /\ d.left = c.left \ {k}
    <2>1. CASE c.left = {k}
      BY <1>1, <2>1, AnswerFacts
    <2>2. CASE c.left # {k}
      <3> DEFINE d == [c EXCEPT !.left = @ \ {k}]
      <3>1. d \in Call
        BY <1>1 DEF Call
      <3>2. /\ d.op = c.op /\ d.ops = c.ops /\ d.tags = c.tags /\ d.caller = c.caller
            /\ d.got = c.got /\ d.again = c.again /\ d.cut = c.cut /\ d.kept = c.kept
            /\ d.pc = c.pc /\ d.left = c.left \ {k}
        BY <1>1 DEF Call
      <3> QED
        BY <1>0, <2>2, <3>1, <3>2 DEF Alike
    <2> QED
      BY <2>1, <2>2
  <1>6. ASSUME NEW k \in c.left, ~Truthful, NEW D \in SUBSET Key, NEW d,
               d = IF c.left = {k} THEN Answer(c, "ok") ELSE [c EXCEPT !.left = @ \ {k}],
               Sent(p, D, d)
        PROVE  JInv'
    <2>1. /\ d \in Call /\ Alike(d, c) /\ d.kept = c.kept
          /\ d.pc \in {"done", "erase"}
      BY <1>5, <1>6
    <2>2. Tracked(d)
      BY <1>1, <1>6, <2>1
         DEF Tracked, Labelled, InOrder, Minded, Paged, Erasing, Answered, Alike
    <2> QED
      BY <1>1, <1>6, <2>1, <2>2, SentKeeps
  <1>7. ASSUME NEW k \in c.left, ~Is({"cloudant"}), NEW d,
               d = IF c.left = {k} THEN Answer(c, "ok") ELSE [c EXCEPT !.left = @ \ {k}],
               Wrote(p, <<Deletion(k)>>, d)
        PROVE  JInv'
    <2> DEFINE s == <<Deletion(k)>>
               w == client'[p]
    <2>1. /\ d \in Call /\ Alike(d, c) /\ d.kept = c.kept
          /\ \/ d.pc = "done" /\ d.ans = "ok" /\ c.left = {k}
             \/ d.pc = "erase" /\ d.left = c.left \ {k}
      BY <1>5, <1>7
    <2>2. Deletion(k) \in Operation /\ Deletion(k).key = k /\ Deletion(k).kind = "delete"
      BY <1>1, DeletionFacts DEF Deletion
    <2>3. /\ s \in Seq(Operation) /\ KeysOf(s) = {k} /\ LastOn(s, k) = Deletion(k)
          /\ Len(s) = 1
      BY <2>2, Single
    <2>4. Wrote(p, s, d)
      BY <1>7
    <2>5. Content(Deletion(k)) = Absent
      BY <2>2 DEF Content
    <2> HIDE DEF s
    <2>6. /\ \A x \in KeysOf(s) : table'[x] = Content(LastOn(s, x))
          /\ w \in Call /\ Alike(w, d) /\ w.pc = d.pc /\ w.left = d.left /\ w.ans = d.ans
          /\ w.kept = {x \in d.kept : table'[x] # Absent /\ d.tags \subseteq table'[x]}
      BY <2>1, <2>3, <2>4, WroteFacts
    <2>7. table'[k] = Absent
      BY <2>3, <2>5, <2>6
    <2>8. Truthful => w.kept \subseteq c.left \ {k}
      BY <1>2, <1>7, <2>1, <2>6, <2>7
    <2>9. scenario' = scenario
      BY <2>4 DEF Wrote, Write, Store
    <2>16. Truthful' = Truthful
      BY <2>9 DEF Truthful, Is
    <2>10. w.op = "deleteAll" /\ w.tags = d.tags /\ w.pc \in {"done", "erase"}
      BY <1>1, <2>1, <2>6 DEF Alike
    <2> HIDE DEF w, c
    <2>11. Labelled(client[p])' /\ InOrder(client[p])' /\ Paged(client[p])'
      BY <2>10 DEF Labelled, InOrder, Paged, w
    <2>12. Minded(client[p])'
      BY <2>6, <2>10 DEF Minded, w
    <2>13. Erasing(client[p])'
      BY <2>1, <2>6, <2>8, <2>16 DEF Erasing, w
    <2>14. Answered(client[p])'
      BY <2>1, <2>6, <2>8, <2>10, <2>16 DEF Answered, w
    <2>15. Tracked(client[p])'
      BY <2>11, <2>12, <2>13, <2>14 DEF Tracked
    <2> QED
      BY <2>1, <2>3, <2>4, <2>15, WroteKeeps
  <1>8. ASSUME NEW k \in c.left PROVE detached \cup {k} \in SUBSET Key
    BY <1>1
  <1>9. Is({"cloudant"}) \/ (Is({"sidecar"}) /\ scenario.faulty) => ~Truthful
    BY DEF Truthful
  <1> QED
    BY <1>1, <1>3, <1>4, <1>6, <1>7, <1>8, <1>9 DEF Erase, Passed

\* A deletion that nobody awaits changes one record, or none.
LEMMA LandKeeps == ASSUME JInv, NEW k \in detached, Land(k) PROVE JInv'
  <1>1. k \in Key /\ detached' \in SUBSET Key
    BY DEF Land, JInv, JTypeOK
  <1>2. CASE UNCHANGED <<scenario, table, older, queue, client>>
    <2>1. JTypeOK'
      BY <1>1, <1>2 DEF JInv, JTypeOK, Present
    <2>2. \A q \in Client : Tracked(client[q])'
      BY <1>2, TrackedStays DEF JInv
    <2> QED
      BY <1>2, <2>1, <2>2 DEF JInv, Ordered, Present, Is
  <1>3. CASE LET T == [table EXCEPT ![k] = Absent]
             IN /\ Store(T)
                /\ client' = [q \in Client |-> Watch(client[q], {k}, T)]
                /\ UNCHANGED queue
    <2>1. /\ table' = [table EXCEPT ![k] = Absent] /\ Store(table')
          /\ client' = [q \in Client |-> Watch(client[q], {k}, table')]
          /\ queue' = queue
      BY <1>3 DEF Store
    <2>2. table' \in [Key -> (SUBSET Tag) \cup {Absent}]
      BY <2>1 DEF JInv, JTypeOK
    <2>3. \A x \in Key \ {k} : table'[x] = table[x]
      BY <2>1 DEF JInv, JTypeOK
    <2>4. Changes({k})
      BY <2>1, <2>2, <2>3 DEF Changes
    <2>5. older' \subseteq Present' \X Present' /\ Ordered'
      BY <1>1, <2>4, StoreKeeps DEF JInv
    <2>6. ASSUME NEW q \in Client PROVE client'[q] \in Call /\ Tracked(client[q])'
      <3>1. client'[q] = Watch(client[q], {k}, table')
        BY <2>1
      <3> QED
        BY <1>1, <2>4, <3>1, WatchKeeps
    <2>7. client' \in [Client -> Call]
      BY <2>1, <2>6
    <2>8. scenario' = scenario
      BY <2>1 DEF Store
    <2>9. JTypeOK'
      BY <1>1, <2>1, <2>2, <2>5, <2>7, <2>8 DEF JInv, JTypeOK
    <2> QED
      BY <2>5, <2>6, <2>9 DEF JInv
  <1> QED
    BY <1>2, <1>3 DEF Land
-----------------------------------------------------------------------------
(* Theorems about the journals.                                            *)

LEMMA JInitHolds == JInit => JInv
  <1> SUFFICES ASSUME JInit PROVE JInv
    OBVIOUS
  <1>1. <<>> \in Seq(Operation) /\ Len(<<>>) = 0 /\ 0 =< QueueMax
    BY JournalAssumption
  <1>2. JTypeOK
    <2>1. queue \in [Client -> Seq(Operation)] /\ \A p \in Client : queue[p] = <<>>
      BY <1>1 DEF JInit
    <2>2. client \in [Client -> Call]
      BY IdleFacts DEF JInit
    <2>3. table \in [Key -> (SUBSET Tag) \cup {Absent}]
      BY DEF JInit
    <2> QED
      BY <1>1, <2>1, <2>2, <2>3 DEF JTypeOK, JInit
  <1>3. Ordered
    BY DEF JInit, Ordered, Present
  <1>4. \A p \in Client : Tracked(client[p])
    BY IdleFacts DEF JInit
  <1> QED
    BY <1>2, <1>3, <1>4 DEF JInv

LEMMA JStepKeeps == JInv /\ [JNext]_jvars => JInv'
  <1> SUFFICES ASSUME JInv, [JNext]_jvars PROVE JInv'
    OBVIOUS
  <1>1. ASSUME NEW p \in Client, ClientStep(p) PROVE JInv'
    BY <1>1, ReplyKeeps, SaveKeeps, SaveAllKeeps, DeleteKeeps, ListKeeps, DeleteAllKeeps,
       TransactionKeeps, RollbackKeeps, CommitKeeps, GetKeeps, PerformKeeps,
       CloudantArrayKeeps, CloudantReadKeeps, CloudantInsertKeeps, CloudantDestroyKeeps,
       FaultKeeps, PageKeeps, DynamoScanKeeps, EraseKeeps
       DEF ClientStep
  <1>2. ASSUME NEW k \in detached, Land(k) PROVE JInv'
    BY <1>2, LandKeeps
  <1>3. CASE UNCHANGED jvars
    <2>1. UNCHANGED <<scenario, table, older, detached, queue, client>>
      BY <1>3 DEF jvars
    <2>2. \A q \in Client : Tracked(client[q])'
      BY <2>1, TrackedStays DEF JInv
    <2> QED
      BY <2>1, <2>2 DEF JInv, JTypeOK, Ordered, Present, Is
  <1> QED
    BY <1>1, <1>2, <1>3 DEF JNext

\* What a call has done, what a listing has and the order of the rows are right in
\* every state, whatever the clients do and whatever fails.
THEOREM JournalInvariance == JSpec => []JInv
  BY JInitHolds, JStepKeeps, PTL DEF JSpec

\* What a save, a deletion or a commit that succeeds was given is what it has done
\* (EffectOfAnswer).
THEOREM SafeAnswer == JSpec => []EffectOfAnswer
  <1>1. JInv => EffectOfAnswer
    <2> SUFFICES ASSUME JInv, Truthful, NEW p \in Client,
                        Ended(p, {"save", "delete", "commit"}),
                        NEW k \in KeysOf(client[p].ops)
                 PROVE  /\ k \in client[p].wrote
                        /\ k \in client[p].mine =>
                             table[k] = Content(LastOn(client[p].ops, k))
      BY DEF EffectOfAnswer
    <2> QED
      BY DEF JInv, Tracked, Answered, Ended, Holds
  <1> QED
    BY <1>1, JournalInvariance, PTL

\* A commit that fails has made a beginning of what was queued (FailedCommit).
THEOREM SafeFailure == JSpec => []FailedCommit
  <1>1. JInv => FailedCommit
    <2> SUFFICES ASSUME JInv, Truthful, NEW p \in Client,
                        client[p].pc = "done", client[p].op = "commit",
                        client[p].ans = "error"
                 PROVE  \E n \in 0..Len(client[p].ops) :
                          /\ client[p].wrote = KeysOf(SubSeq(client[p].ops, 1, n))
                          /\ Is({"datastore"}) => n \in {0, Len(client[p].ops)}
      BY DEF FailedCommit
    <2> QED
      BY DEF JInv, Tracked, Answered
  <1> QED
    BY <1>1, JournalInvariance, PTL

\* A listing by pages returns each dataset once, whatever is written between its
\* pages (ListedOnce).
THEOREM SafeListing == JSpec => []ListedOnce
  <1>1. JInv => ListedOnce
    BY DEF JInv, Tracked, Answered, Ended, ListedOnce
  <1> QED
    BY <1>1, JournalInvariance, PTL

\* A deleteAll that succeeds has left none of what it found (AllDeleted).
THEOREM SafeDeletion == JSpec => []AllDeleted
  <1>1. JInv => AllDeleted
    BY DEF JInv, Tracked, Answered, Ended, AllDeleted
  <1> QED
    BY <1>1, JournalInvariance, PTL
-----------------------------------------------------------------------------
(* Theorems about credentials.                                             *)


\* More rights cover no less.
LEMMA CoveredGrows ==
  ASSUME NEW B, NEW C, NEW r, Grounded(B, r) PROVE Grounded(B \cup C, r)
  BY DEF Grounded, Covered

\* A credential reaches what was asked for, or its subproject: that only where
\* datasets have no access lists of their own, or the subproject was asked for.
LEMMA Reach ==
  ASSUME setting \in Settings, NEW r \in Right
  PROVE  /\ Granted(r).can \subseteq Use
         /\ Granted(r).can \cap Changing # {} => r.write
         /\ \/ Granted(r).of = {r.of}
            \/ /\ Granted(r).of = Within(SubOf(r.of))
               /\ setting.policy = "uniform" \/ r.of \in Sub
  <1> USE CredentialsAssumption DEF Right, Scope, Setting, Provider, Changing, Permitted,
                                    Reading, Writing, Use
  <1>1. CASE setting.provider = "azure"
    BY <1>1 DEF Granted, AzureScope, AzureCan
  <1>2. CASE setting.provider = "google"
    BY <1>2 DEF Granted, GoogleScope, GoogleCan, SubOf
  <1>3. CASE setting.provider = "aws"
    BY <1>3 DEF Granted, AwsScope, AwsCan
  <1>4. CASE setting.provider = "ibm"
    BY <1>4 DEF Granted, CosScope, CosCan
  <1>5. CASE setting.provider = "minio"
    BY <1>5 DEF Granted, MinioScope, MinioCan
  <1>6. QED
    BY <1>1, <1>2, <1>3, <1>4, <1>5

\* It stays within what the service has.
LEMMA ReachIsScope ==
  ASSUME setting \in Settings, NEW r \in Right
  PROVE  Granted(r).of \subseteq Scope /\ r.of \in Within(SubOf(r.of)) /\ SubOf(r.of) \in Sub
  <1> USE CredentialsAssumption
  <1>1. SubOf(r.of) \in Sub /\ r.of \in Scope /\ r.of \in Within(SubOf(r.of))
    BY DEF SubOf, Within, Right, Scope
  <1>2. Within(SubOf(r.of)) \subseteq Scope
    BY <1>1 DEF Within, Scope
  <1>3. QED
    BY <1>1, <1>2, Reach

\* A right to a subproject covers all that is in it.
LEMMA SubCovered ==
  ASSUME NEW B, NEW r \in Right, setting \in Settings, NEW w, r.write => w,
         Covered(B, SubOf(r.of), w)
  PROVE  Grounded(B, r)
  <1> USE CredentialsAssumption
  <1>1. PICK b \in B : SubOf(r.of) \in Within(b.of) /\ (w => b.write)
    BY DEF Covered
  <1>2. SubOf(r.of) = b.of
    BY <1>1, ReachIsScope DEF Within
  <1>3. \A x \in {r.of} \cup Granted(r).of : x \in Within(b.of)
    BY <1>2, Reach, ReachIsScope
  <1>4. QED
    BY <1>1, <1>3 DEF Grounded, Covered

\* What allows a request is a right that covers it and all it will reach.
LEMMA AllowedGrounds ==
  ASSUME Conferred, NEW by \in tokens \cup {Nil}, NEW r \in Right, Allowed(by, r)
  PROVE  Grounded(IF by = Nil THEN recent \cap Groups(r) ELSE by.basis, r)
  <1> USE CredentialsAssumption
  <1>0. setting \in Settings /\ setting \in Setting
    BY DEF Conferred, TypeOK
  <1>1. CASE by = Nil
    <2>1. PICK g \in recent \cap Groups(r) : TRUE
      BY <1>1 DEF Allowed
    <2>2. CASE r.of \in setting.own /\ setting.policy = "dataset"
      <3>1. g.of = r.of /\ (r.write => g.write)
        BY <2>1, <2>2 DEF Groups
      <3>2. Granted(r).of = {r.of}
        BY <1>0, <2>2, Reach DEF Setting
      <3>3. QED
        BY <1>1, <3>1, <3>2 DEF Grounded, Covered, Within
    <2>3. CASE ~(r.of \in setting.own /\ setting.policy = "dataset")
      <3>1. g.of = SubOf(r.of) /\ (r.write => g.write)
        BY <2>1, <2>3 DEF Groups, SubGroups
      <3>2. Covered(recent \cap Groups(r), SubOf(r.of), r.write)
        BY <3>1 DEF Covered, Within
      <3>3. QED
        BY <1>0, <1>1, <3>2, SubCovered
    <2>4. QED
      BY <2>2, <2>3
  <1>2. CASE by # Nil
    <2>1. PICK e \in by.res : e.of = SubOf(r.of) /\ (r.write => e.write)
      BY <1>2 DEF Allowed, OldAllows, NewAllows
    <2>2. Covered(by.basis, SubOf(r.of), e.write)
      BY <1>2, <2>1 DEF Conferred
    <2>3. QED
      BY <1>0, <1>2, <2>1, <2>2, SubCovered
  <1>3. QED
    BY <1>1, <1>2

\* What a token is for is covered by what it rests on.
LEMMA TokenGrounded ==
  ASSUME Conferred, ForSubs, NEW t \in tokens, NEW r \in t.res
  PROVE  Grounded(t.basis, r)
  <1>1. r \in Right /\ setting \in Settings /\ r.of \in Sub
    BY DEF Conferred, TypeOK, Token, ForSubs
  <1>2. SubOf(r.of) = r.of
    BY <1>1, CredentialsAssumption DEF SubOf
  <1>3. Covered(t.basis, r.of, r.write)
    BY DEF Conferred
  <1>4. QED
    BY <1>1, <1>2, <1>3, SubCovered

\* The setting decides what a credential reaches, and does not change.
LEMMA GroundedStays ==
  ASSUME setting' = setting, NEW B, NEW r, Grounded(B, r)
  PROVE  Grounded(B, r)'
  BY DEF Grounded, Covered, Granted, AzureScope, AzureCan, GoogleScope, GoogleCan,
         AwsScope, AwsCan, CosScope, CosCan, MinioScope, MinioCan

\* A step that hands out nothing keeps what was handed out.
LEMMA ConferredStays ==
  ASSUME Conferred, TypeOK', setting' = setting, tokens' = tokens,
         handed' = handed \/ handed' = Nil
  PROVE  Conferred'
  BY DEF Conferred, Covered, Changing, Writing

\* The invariant holds at the start.
LEMMA InitInv == Init => IInv
  <1> SUFFICES ASSUME Init PROVE IInv
    OBVIOUS
  <1> USE CredentialsAssumption DEF Init
  <1>1. TypeOK
    BY DEF TypeOK, Label
  <1>2. Conferred
    BY <1>1 DEF Conferred
  <1>3. Checked /\ Placed /\ ForSubs /\ InTime
    BY DEF Checked, Placed, ForSubs, InTime, At
  <1>4. QED
    BY <1>2, <1>3 DEF IInv

\* A request ends with an error.
LEMMA FailKeeps == ASSUME IInv, NEW p \in Proc, Fail(p) PROVE IInv'
  <1> USE CredentialsAssumption DEF IInv, Fail, End, Go, Goto, At, access
  <1>1. TypeOK'
    BY DEF Conferred, TypeOK, Label
  <1>2. Conferred'
    BY <1>1, ConferredStays
  <1>3. Checked'
    BY GroundedStays DEF Checked, Conferred, TypeOK
  <1>4. Placed'
    BY DEF Placed, Conferred, TypeOK
  <1>5. ForSubs' /\ InTime'
    BY DEF ForSubs, InTime, Conferred, TypeOK
  <1>6. QED
    BY <1>2, <1>3, <1>4, <1>5

\* The application is found to be trusted.
LEMMA VouchKeeps == ASSUME IInv, NEW p \in Proc, Vouch(p) PROVE IInv'
  <1> USE CredentialsAssumption DEF IInv, Vouch, End, Go, Goto, At, access
  <1>1. TypeOK'
    BY DEF Conferred, TypeOK, Label
  <1>2. Conferred'
    BY <1>1, ConferredStays
  <1>3. Checked'
    BY GroundedStays DEF Checked, Conferred, TypeOK
  <1>4. Placed'
    BY DEF Placed, Conferred, TypeOK
  <1>5. ForSubs' /\ InTime'
    BY DEF ForSubs, InTime, Conferred, TypeOK
  <1>6. QED
    BY <1>2, <1>3, <1>4, <1>5

\* A token to renew is looked at.
LEMMA ValidateKeeps == ASSUME IInv, NEW p \in Proc, Validate(p) PROVE IInv'
  <1> USE CredentialsAssumption DEF IInv, Validate, End, Go, Goto, At, access
  <1>1. TypeOK'
    BY DEF Conferred, TypeOK, Label
  <1>2. Conferred'
    BY <1>1, ConferredStays
  <1>3. Checked'
    BY GroundedStays DEF Checked, Conferred, TypeOK
  <1>4. Placed'
    BY DEF Placed, Conferred, TypeOK
  <1>5. ForSubs' /\ InTime'
    BY DEF ForSubs, InTime, Conferred, TypeOK
  <1>6. QED
    BY <1>2, <1>3, <1>4, <1>5

\* A renewal goes on when its address has answered.
LEMMA AskUrlKeeps == ASSUME IInv, NEW p \in Proc, AskUrl(p) PROVE IInv'
  <1> USE CredentialsAssumption DEF IInv, AskUrl, End, Go, Goto, At, access
  <1>1. TypeOK'
    BY DEF Conferred, TypeOK, Label
  <1>2. Conferred'
    BY <1>1, ConferredStays
  <1>3. Checked'
    BY GroundedStays DEF Checked, Conferred, TypeOK
  <1>4. Placed'
    BY DEF Placed, Conferred, TypeOK
  <1>5. ForSubs' /\ InTime'
    BY DEF ForSubs, InTime, Conferred, TypeOK
  <1>6. QED
    BY <1>2, <1>3, <1>4, <1>5

\* The token in memory is looked at.
LEMMA ServeKeeps == ASSUME IInv, NEW p \in Proc, Serve(p) PROVE IInv'
  <1> USE CredentialsAssumption DEF IInv, Serve, End, Go, Goto, At, access
  <1>1. TypeOK'
    <2>1. CASE End(p)
      BY <2>1 DEF Conferred, TypeOK, Label
    <2>2. CASE Go(p, "ask")
      BY <2>2 DEF Conferred, TypeOK, Label
    <2>3. QED
      BY <2>1, <2>2
  <1>2. Conferred'
    BY <1>1, ConferredStays
  <1>3. Checked'
    BY GroundedStays DEF Checked, Conferred, TypeOK
  <1>4. Placed'
    BY DEF Placed, Conferred, TypeOK
  <1>5. ForSubs' /\ InTime'
    BY DEF ForSubs, InTime, Conferred, TypeOK
  <1>6. QED
    BY <1>2, <1>3, <1>4, <1>5

\* The issuer makes a token.
LEMMA MadeKeeps == ASSUME IInv, NEW p \in Proc, Made(p) PROVE IInv'
  <1> USE CredentialsAssumption DEF IInv, Made, End, Go, Goto, At, access
  <1>1. TypeOK'
    BY DEF Conferred, TypeOK, Label
  <1>2. Conferred'
    BY <1>1, ConferredStays
  <1>3. Checked'
    BY GroundedStays DEF Checked, Conferred, TypeOK
  <1>4. Placed'
    BY DEF Placed, Conferred, TypeOK
  <1>5. ForSubs' /\ InTime'
    BY DEF ForSubs, InTime, Conferred, TypeOK
  <1>6. QED
    BY <1>2, <1>3, <1>4, <1>5

\* Its answer is kept for less than the token lives.
LEMMA ArriveKeeps == ASSUME IInv, NEW p \in Proc, Arrive(p) PROVE IInv'
  <1> USE CredentialsAssumption DEF IInv, Arrive, End, Go, Goto, At, access
  <1>1. /\ now \in Nat /\ made[p] \in Nat /\ now <= MaxTime /\ made[p] <= MaxTime
        /\ made[p] <= now /\ now <= made[p] + Margin
    BY DEF Conferred, TypeOK, InTime
  <1>2. Until(p) \in Nat /\ Until(p) <= MaxTime + Life /\ Until(p) <= made[p] + Life
    BY <1>1 DEF Until
  <1>3. made[p] + Life \in Nat /\ made[p] + Life <= MaxTime + Life
    BY <1>1
  <1>4. TypeOK'
    <2>1. kept' \in [until : 0 .. MaxTime + Life, real : 0 .. MaxTime + Life]
      BY <1>2, <1>3
    <2>2. made' \in [Proc -> 0 .. MaxTime]
      BY DEF Conferred, TypeOK
    <2>3. QED
      BY <2>1, <2>2 DEF Conferred, TypeOK, Label
  <1>5. Conferred'
    BY <1>4, ConferredStays
  <1>6. Checked'
    BY GroundedStays DEF Checked, Conferred, TypeOK
  <1>7. Placed' /\ ForSubs'
    BY DEF Placed, ForSubs, Conferred, TypeOK
  <1>8. InTime'
    BY <1>2, <1>3 DEF InTime, Conferred, TypeOK
  <1>9. QED
    BY <1>5, <1>6, <1>7, <1>8

\* A resource is checked: a right covers it and all that it will reach.
LEMMA CheckKeeps == ASSUME IInv, NEW p \in Proc, Check(p) PROVE IInv'
  <1> USE CredentialsAssumption DEF IInv, Goto, At, access
  <1>1. PICK r \in todo[p] :
          /\ Allowed(req[p].by, r)
          /\ todo' = [todo EXCEPT ![p] = @ \ {r}]
          /\ basis' = [basis EXCEPT ![p] =
               @ \cup IF req[p].by = Nil THEN recent \cap Groups(r) ELSE req[p].by.basis]
          /\ Goto(p, IF todo[p] # {r} THEN "check"
                     ELSE IF req[p].op = "generate" THEN "issue" ELSE "hand")
    BY DEF Check
  <1>2. req[p].by \in tokens \cup {Nil} /\ r \in Right /\ r \in req[p].want
    BY DEF Check, Checked, Conferred, TypeOK
  <1> DEFINE new == IF req[p].by = Nil THEN recent \cap Groups(r) ELSE req[p].by.basis
  <1>3. Grounded(new, r)
    BY <1>1, <1>2, AllowedGrounds
  <1>4. new \subseteq Right
    BY <1>2 DEF Conferred, TypeOK, Token
  <1>5. TypeOK'
    <2>1. basis' \in [Proc -> SUBSET Right] /\ todo' \in [Proc -> SUBSET Right]
      BY <1>1, <1>4 DEF Conferred, TypeOK
    <2>2. QED
      BY <1>1, <2>1 DEF Check, Conferred, TypeOK, Label
  <1>6. Conferred'
    BY <1>5, ConferredStays DEF Check
  <1>7. Checked'
    <2>1. \A q \in req[p].want \ todo'[p] : Grounded(basis[p] \cup new, q)
      <3>1. TAKE q \in req[p].want \ todo'[p]
      <3>2. CASE q = r
        BY <1>3, <3>2, CoveredGrows DEF Grounded, Covered
      <3>3. CASE q # r
        BY <1>1, <3>3, CoveredGrows DEF Check, Checked, Conferred, TypeOK
      <3>4. QED
        BY <3>2, <3>3
    <2>2. \A q \in req[p].want \ todo'[p] : Grounded(basis'[p], q)
      BY <1>1, <2>1 DEF Conferred, TypeOK
    <2>3. QED
      BY <1>1, <2>2, GroundedStays DEF Check, Checked, Conferred, TypeOK
  <1>8. Placed'
    BY <1>1 DEF Check, Placed, Checked, Conferred, TypeOK
  <1>9. ForSubs' /\ InTime'
    BY <1>1 DEF Check, ForSubs, InTime, Conferred, TypeOK
  <1>10. QED
    BY <1>6, <1>7, <1>8, <1>9

\* A token is issued for what its request has been found to have.
LEMMA IssueKeeps == ASSUME IInv, NEW p \in Proc, Issue(p) PROVE IInv'
  <1> USE CredentialsAssumption DEF IInv, End, Goto, At, access
  <1> DEFINE t == [kind |-> req[p].kind, res |-> req[p].want,
                   basis |-> basis[p], vouched |-> vouched[p]]
  <1>1. tokens' = tokens \cup {t} /\ expired' = expired \ {t}
    BY DEF Issue
  <1>2. /\ req[p] \in Request /\ req[p].op # "credential" /\ vouched[p] /\ todo[p] = {}
        /\ req[p].kind \in setting.kinds
    BY DEF Issue, Checked, Placed
  <1>3. t \in Token /\ t.kind \in setting.kinds
    BY <1>2 DEF Request, Token, Conferred, TypeOK
  <1>4. \A r \in t.res : r.of \in Sub /\ Covered(t.basis, r.of, r.write)
    BY <1>2 DEF Issue, Checked, ForSubs, Grounded
  <1>5. TypeOK'
    BY <1>1, <1>3 DEF Issue, Conferred, TypeOK, Label
  <1>6. Conferred'
    BY <1>1, <1>2, <1>4, <1>5 DEF Issue, Conferred, Covered, Changing, Writing
  <1>7. Checked'
    BY <1>1, GroundedStays DEF Issue, Checked, Conferred, TypeOK
  <1>8. Placed'
    BY DEF Issue, Placed, Conferred, TypeOK
  <1>9. ForSubs' /\ InTime'
    BY <1>1, <1>4 DEF Issue, ForSubs, InTime, Conferred, TypeOK
  <1>10. QED
    BY <1>6, <1>7, <1>8, <1>9

\* A credential reaches no more than the rights that its request was found to have.
LEMMA HandKeeps == ASSUME IInv, NEW p \in Proc, Hand(p) PROVE IInv'
  <1> USE CredentialsAssumption DEF IInv, End, Goto, At, access
  <1>1. PICK r \in req[p].want :
          handed' = [of |-> Granted(r).of, can |-> Granted(r).can, basis |-> basis[p]]
    BY DEF Hand
  <1>2. req[p] \in Request /\ r \in Right /\ todo[p] = {} /\ setting \in Settings
    BY DEF Hand, Checked, Placed, Request, Conferred, TypeOK
  <1>3. /\ Granted(r).can \subseteq Use /\ Granted(r).of \subseteq Scope
        /\ Granted(r).can \cap Changing # {} => r.write
    BY <1>2, Reach, ReachIsScope
  <1>4. \A x \in Granted(r).of : Covered(basis[p], x, r.write)
    BY <1>2 DEF Hand, Checked, Grounded
  <1>5. TypeOK'
    <2>1. handed' \in [of : SUBSET Scope, can : SUBSET Use, basis : SUBSET Right]
      BY <1>1, <1>3 DEF Conferred, TypeOK
    <2>2. QED
      BY <2>1 DEF Hand, Conferred, TypeOK, Label
  <1>6. Conferred'
    <2>1. handed'.of = Granted(r).of /\ handed'.basis = basis[p] /\ handed'.can = Granted(r).can
      BY <1>1
    <2>2. \A x \in handed'.of : Covered(handed'.basis, x, handed'.can \cap Changing # {})
      BY <1>3, <1>4, <2>1 DEF Covered
    <2>3. QED
      BY <1>5, <2>2 DEF Hand, Conferred, Covered, Changing, Writing
  <1>7. Checked'
    BY GroundedStays DEF Hand, Checked, Conferred, TypeOK
  <1>8. Placed' /\ ForSubs' /\ InTime'
    BY DEF Hand, Placed, ForSubs, InTime, Conferred, TypeOK
  <1>9. QED
    BY <1>6, <1>7, <1>8

\* A request begins with nothing checked, or with what the token it renews rests on.
LEMMA BeginKeeps == ASSUME IInv, NEW p \in Proc, Begin(p) PROVE IInv'
  <1> USE CredentialsAssumption DEF IInv, Goto, At, access
  <1>1. PICK r \in Requests :
          /\ Goto(p, First(r))
          /\ req' = [req EXCEPT ![p] = r]
          /\ todo' = [todo EXCEPT ![p] = IF Renewal(r) THEN {} ELSE r.want]
          /\ basis' = [basis EXCEPT ![p] = IF Renewal(r) THEN r.by.basis ELSE {}]
          /\ vouched' = [vouched EXCEPT ![p] = Renewal(r) /\ r.kind = "old" /\ r.by.vouched]
    BY DEF Begin
  <1>2. /\ r \in Request
        /\ r.by # Nil => r.by \in tokens
        /\ Renewal(r) => r.by \in tokens /\ r.want = r.by.res
        /\ r.op \in {"generate", "refresh", "patch"} => r.kind \in setting.kinds
        /\ r.op # "credential" => \A x \in r.want : x.of \in Sub
        /\ r.op = "patch" => r.kind = "old"
    <2>1. CASE r \in Generations
      <3>1. PICK k \in setting.kinds, b \in Bearer, items \in SUBSET Item :
              r = [op |-> "generate", kind |-> k, by |-> b, want |-> Parse(items)]
        BY <2>1 DEF Generations
      <3>2. \A x \in Parse(items) : x \in Right /\ x.of \in Sub
        <4>1. TAKE x \in Parse(items)
        <4>2. PICK s \in {i.of : i \in items} :
                x = [of |-> s, write |-> \E i \in items : i.of = s /\ i.readonly = "no"]
          BY DEF Parse
        <4>3. s \in Sub
          BY DEF Item
        <4>4. (\E i \in items : i.of = s /\ i.readonly = "no") \in BOOLEAN
          BY Zenon
        <4>5. QED
          BY <4>2, <4>3, <4>4 DEF Right, Scope
      <3>3. k \in {"old", "new"} /\ b \in Token \cup {Nil} /\ (b # Nil => b \in tokens)
        BY <3>1 DEF Bearer, Setting, Conferred, TypeOK
      <3>4. QED
        BY <3>1, <3>2, <3>3 DEF Request, Op, Renewal
    <2>2. CASE r \in Refreshes \cup Patches
      BY <2>2 DEF Refreshes, Patches, Request, Op, Token, ForSubs, Renewal, Conferred, TypeOK
    <2>3. CASE r \in CredentialRequests \cup ServiceRequests
      BY <2>3 DEF CredentialRequests, ServiceRequests, Bearer, Request, Op, Renewal,
                  Conferred, TypeOK
    <2>4. QED
      BY <2>1, <2>2, <2>3 DEF Requests
  <1>3. Renewal(r) => /\ r.by.basis \subseteq Right /\ r.by.vouched
                      /\ \A x \in r.want : Grounded(r.by.basis, x)
    BY <1>2, TokenGrounded DEF Conferred, TypeOK, Token
  <1>4. TypeOK'
    BY <1>1, <1>2, <1>3 DEF Begin, First, Request, Conferred, TypeOK, Label, Op
  <1>5. Conferred'
    BY <1>4, ConferredStays DEF Begin
  <1>6. Checked'
    BY <1>1, <1>2, <1>3, GroundedStays DEF Begin, Checked, Conferred, TypeOK
  <1>7. Placed'
    <2>1. /\ First(r) \in {"vouch", "validate", "check", "service"}
          /\ First(r) = "vouch" => r.op = "generate" \/ r.op = "refresh"
          /\ First(r) = "validate" => Renewal(r) /\ (r.kind = "old" \/ r.op = "patch")
          /\ First(r) = "check" => r.op = "credential"
      <3>1. r.op \in Op /\ r.kind \in {"old", "new"}
        BY <1>2 DEF Request
      <3>2. QED
        BY <3>1 DEF First, Op, Renewal
    <2>2. /\ pc'[p] = First(r) /\ req'[p] = r
          /\ Renewal(r) => todo'[p] = {}
          /\ Renewal(r) /\ r.kind = "old" => vouched'[p]
      BY <1>1, <1>3 DEF Conferred, TypeOK
    <2>3. \A q \in Proc \ {p} : /\ pc'[q] = pc[q] /\ req'[q] = req[q]
                               /\ todo'[q] = todo[q] /\ vouched'[q] = vouched[q]
      BY <1>1 DEF Conferred, TypeOK
    <2>4. QED
      BY <1>2, <2>1, <2>2, <2>3 DEF Begin, Renewal, Placed
  <1>8. ForSubs' /\ InTime'
    BY <1>1, <1>2 DEF Begin, First, ForSubs, InTime, Conferred, TypeOK, Request, Op
  <1>9. QED
    BY <1>5, <1>6, <1>7, <1>8

\* What else happens to the user, the application and the tokens.
LEMMA MeanwhileKeeps ==
  ASSUME IInv, Leave \/ Elapse \/ Distrust \/ Expire PROVE IInv'
  <1> USE DEF IInv, Leave, Elapse, Distrust, Expire, At, access, call
  <1>1. TypeOK'
    BY DEF Conferred, TypeOK
  <1>2. Conferred'
    BY <1>1, ConferredStays
  <1>3. Checked'
    BY GroundedStays DEF Checked, Conferred, TypeOK
  <1>4. Placed' /\ ForSubs' /\ InTime'
    BY DEF Placed, ForSubs, InTime
  <1>5. QED
    BY <1>2, <1>3, <1>4

\* No answer is late.
LEMMA TickKeeps == ASSUME IInv, Tick PROVE IInv'
  <1> USE CredentialsAssumption DEF IInv, Tick, At, access, call
  <1>1. TypeOK'
    BY DEF Conferred, TypeOK
  <1>2. Conferred'
    BY <1>1, ConferredStays
  <1>3. Checked'
    BY GroundedStays DEF Checked, Conferred, TypeOK
  <1>4. Placed' /\ ForSubs' /\ InTime'
    BY DEF Placed, ForSubs, InTime, Conferred, TypeOK
  <1>5. QED
    BY <1>2, <1>3, <1>4

\* A stutter changes nothing.
LEMMA StutterKeeps == ASSUME IInv, UNCHANGED vars PROVE IInv'
  <1> USE DEF IInv, vars, At, access, call
  <1>1. TypeOK'
    BY DEF Conferred, TypeOK
  <1>2. Conferred'
    BY <1>1, ConferredStays
  <1>3. Checked'
    BY GroundedStays DEF Checked, Conferred, TypeOK
  <1>4. Placed' /\ ForSubs' /\ InTime'
    BY DEF Placed, ForSubs, InTime
  <1>5. QED
    BY <1>2, <1>3, <1>4

\* Every step keeps the invariant.
LEMMA StepKeeps == IInv /\ [Next]_vars => IInv'
  <1> SUFFICES ASSUME IInv, [Next]_vars PROVE IInv'
    OBVIOUS
  <1>1. CASE \E p \in Proc : Step(p)
    <2>1. PICK p \in Proc : Step(p)
      BY <1>1
    <2>2. CASE Begin(p) \/ Fail(p) \/ Vouch(p) \/ Check(p) \/ Validate(p)
      BY <2>2, BeginKeeps, FailKeeps, VouchKeeps, CheckKeeps, ValidateKeeps
    <2>3. CASE AskUrl(p) \/ Issue(p) \/ Hand(p)
      BY <2>3, AskUrlKeeps, IssueKeeps, HandKeeps
    <2>4. CASE Serve(p) \/ Made(p) \/ Arrive(p)
      BY <2>4, ServeKeeps, MadeKeeps, ArriveKeeps
    <2>5. QED
      BY <2>1, <2>2, <2>3, <2>4 DEF Step
  <1>2. CASE Leave \/ Elapse \/ Distrust \/ Expire
    BY <1>2, MeanwhileKeeps
  <1>3. CASE Tick
    BY <1>3, TickKeeps
  <1>4. CASE UNCHANGED vars
    BY <1>4, StutterKeeps
  <1>5. QED
    BY <1>1, <1>2, <1>3, <1>4 DEF Next

\* The inductive invariant holds in every behaviour of the tokens and
\* credentials that the service hands out.
THEOREM Invariance == Spec => []IInv
  BY InitInv, StepKeeps, PTL DEF Spec

\* Whatever a token or a storage credential gives access to, the user had a
\* right to when a request checked it, and a vouched application is behind each
\* token (imptoken, impersonation_token, utility, credentials of the clouds).
THEOREM NothingAdded == Spec => []Conferred
  <1>1. IInv => Conferred
    BY DEF IInv
  <1>2. QED
    BY Invariance, <1>1, PTL

\* No token of the service is served from memory after it has expired
\* (getServiceCredentials, getServiceAccountAccessToken).
THEOREM ServedFresh == Spec => []Fresh
  <1>1. IInv => Fresh
    BY DEF IInv, InTime, Conferred, TypeOK, Fresh
  <1>2. QED
    BY Invariance, <1>1, PTL
=============================================================================
