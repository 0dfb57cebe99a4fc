----------------------------- MODULE MailProofs -----------------------------
(***************************************************************************)
(* Proofs about Mail.tla, in three parts.                                  *)
(*                                                                         *)
(* State gives the type of the table, of m_Mails and of the queries, and   *)
(* that all mail in them was accepted by the database: whatever fails and  *)
(* in whatever order the queries are executed (MailCorrect).               *)
(*                                                                         *)
(* OrderInv is about runs in which m_Mails knew what the queries before    *)
(* did (~disorder). Between the table and m_Mails there is then at most    *)
(* one query that changes letters, and Pending says by what they differ;   *)
(* Box says what holds of the letters themselves.                          *)
(*                                                                         *)
(* SeenInv is what must have been shown to whom while a query that marks   *)
(* mail as read is outstanding (Told).                                     *)
(***************************************************************************)
EXTENDS Mail, FiniteSetTheorems, SequenceTheorems, WellFoundedInduction, TLAPS

---------------------------------------------------------------------------
(* What is kept of a sequence                                              *)

\* The positions that are kept are numbered from 1 without a gap.
LEMMA NthBijection ==
  ASSUME NEW n \in Nat, NEW K \in SUBSET (1..n)
  PROVE  /\ Cardinality(K) \in Nat
         /\ \A i \in 1..Cardinality(K) : Nth(K, i) \in K
         /\ \A k \in K : \E i \in 1..Cardinality(K) : Nth(K, i) = k
         /\ \A i, j \in 1..Cardinality(K) : Nth(K, i) = Nth(K, j) => i = j
<1> DEFINE c == Cardinality(K)
           upto(k) == {j \in K : j <= k}
           rank == [k \in K |-> Cardinality(upto(k))]
<1>1. IsFiniteSet(K) /\ c \in Nat
  <2>1. IsFiniteSet(1..n)
    BY FS_Interval
  <2> QED
    BY <2>1, FS_Subset, FS_CardinalityType, Zenon
<1>2. ASSUME NEW k \in K PROVE rank[k] \in 1..c
  <2>1. upto(k) \in SUBSET K /\ k \in upto(k)
    OBVIOUS
  <2> HIDE DEF upto
  <2>2. IsFiniteSet(upto(k)) /\ Cardinality(upto(k)) <= c /\ Cardinality(upto(k)) \in Nat
    BY <2>1, <1>1, FS_Subset, FS_CardinalityType
  <2>3. Cardinality(upto(k)) /= 0
    BY <2>1, <2>2, FS_EmptySet
  <2> QED
    BY <2>2, <2>3, <1>1
<1>3. ASSUME NEW j \in K, NEW k \in K, j < k PROVE rank[j] /= rank[k]
  <2>1. upto(j) \in SUBSET upto(k) /\ k \in upto(k) /\ k \notin upto(j) /\ upto(k) \in SUBSET K
    <3>1. \A i \in K : i \in Int
      OBVIOUS
    <3>2. \A i \in K : i <= j => i <= k
      BY <3>1, <1>3
    <3>3. k <= k /\ ~(k <= j)
      BY <3>1, <1>3
    <3> QED
      BY <3>2, <3>3
  <2> HIDE DEF upto
  <2>2. IsFiniteSet(upto(k))
    BY <2>1, <1>1, FS_Subset
  <2>3. Cardinality(upto(j)) /= Cardinality(upto(k))
    BY <2>1, <2>2, FS_Subset
  <2> QED
    BY <2>3
<1>4. \A j, k \in K : rank[j] = rank[k] => j = k
  <2>1. \A j, k \in K : j < k \/ k < j \/ j = k
    OBVIOUS
  <2> HIDE DEF rank
  <2> QED
    BY <2>1, <1>3
<1>5. rank \in Injection(K, 1..c)
  <2>1. rank \in [K -> 1..c]
    BY <1>2
  <2> HIDE DEF rank
  <2> QED
    BY <2>1, <1>4 DEF Injection, IsInjective
<1>6. rank \in Surjection(K, 1..c)
  <2>1. IsFiniteSet(1..c) /\ Cardinality(1..c) = c
    BY <1>1, FS_Interval
  <2> HIDE DEF rank
  <2> QED
    BY <2>1, <1>5, FS_Injection
<1>7. ASSUME NEW i \in 1..c PROVE Nth(K, i) \in K /\ rank[Nth(K, i)] = i
  <2>1. \E k \in K : rank[k] = i
    <3> HIDE DEF rank
    <3> QED
      BY <1>6 DEF Surjection
  <2>2. \E k \in K : Cardinality({j \in K : j <= k}) = i
    BY <2>1
  <2>3. Nth(K, i) \in K /\ Cardinality({j \in K : j <= Nth(K, i)}) = i
    BY <2>2, Zenon DEF Nth
  <2> QED
    BY <2>3
<1> HIDE DEF rank, upto, c
<1>8. ASSUME NEW k \in K PROVE \E i \in 1..c : Nth(K, i) = k
  <2>1. rank[k] \in 1..c
    BY <1>2
  <2>2. Nth(K, rank[k]) \in K /\ rank[Nth(K, rank[k])] = rank[k]
    BY <2>1, <1>7
  <2> QED
    BY <2>1, <2>2, <1>4, Zenon
<1>9. \A i, j \in 1..c : Nth(K, i) = Nth(K, j) => i = j
  BY <1>7, Zenon
<1> QED
  BY <1>1, <1>7, <1>8, <1>9, Zenon DEF c

LEMMA FunctionSeq ==
  ASSUME NEW S, NEW n \in Nat, NEW f \in [1..n -> S]
  PROVE  f \in Seq(S) /\ Len(f) = n /\ DOMAIN f = 1..n
  BY SeqDef, LenProperties

\* What is kept are members at the positions that are kept, each of them once.
LEMMA KeptMembers ==
  ASSUME NEW S, NEW s \in Seq(S), NEW K \in SUBSET (DOMAIN s)
  PROVE  /\ Kept(s, K) \in Seq(S) /\ DOMAIN Kept(s, K) = 1..Cardinality(K) /\ Cardinality(K) \in Nat
         /\ \A i \in DOMAIN Kept(s, K) : Nth(K, i) \in K /\ Kept(s, K)[i] = s[Nth(K, i)]
         /\ \A i, j \in DOMAIN Kept(s, K) : Nth(K, i) = Nth(K, j) => i = j
<1> DEFINE c == Cardinality(K)
<1>1. Len(s) \in Nat /\ DOMAIN s = 1..Len(s) /\ \A k \in DOMAIN s : s[k] \in S
  OBVIOUS
<1>2. /\ c \in Nat /\ \A i \in 1..c : Nth(K, i) \in K
      /\ \A i, j \in 1..c : Nth(K, i) = Nth(K, j) => i = j
  BY <1>1, NthBijection
<1>3. Kept(s, K) = [i \in 1..c |-> s[Nth(K, i)]]
  BY DEF Kept
<1> HIDE DEF c
<1>4. [i \in 1..c |-> s[Nth(K, i)]] \in [1..c -> S]
  BY <1>1, <1>2
<1>5. Kept(s, K) \in Seq(S) /\ DOMAIN Kept(s, K) = 1..c
  BY <1>2, <1>3, <1>4, FunctionSeq
<1> QED
  BY <1>2, <1>3, <1>5 DEF c

LEMMA RemoveType ==
  ASSUME NEW S, NEW s \in Seq(S), NEW i \in DOMAIN s
  PROVE  RemoveAt(s, i) \in Seq(S)
<1>1. Len(s) \in Nat /\ i \in 1..Len(s)
  OBVIOUS
<1>2. SubSeq(s, 1, i - 1) \in Seq(S) /\ SubSeq(s, i + 1, Len(s)) \in Seq(S)
  BY <1>1
<1> QED
  BY <1>2 DEF RemoveAt

\* Without one member, a sequence has the others, each of them once.
LEMMA RemoveMembers ==
  ASSUME NEW S, NEW s \in Seq(S), NEW i \in DOMAIN s
  PROVE  \E p \in [DOMAIN RemoveAt(s, i) -> DOMAIN s \ {i}] :
           /\ \A j \in DOMAIN RemoveAt(s, i) : RemoveAt(s, i)[j] = s[p[j]]
           /\ \A j, k \in DOMAIN RemoveAt(s, i) : p[j] = p[k] => j = k
           /\ \A k \in DOMAIN s \ {i} : \E j \in DOMAIN RemoveAt(s, i) : p[j] = k
<1> DEFINE n == Len(s)
           a == SubSeq(s, 1, i - 1)
           b == SubSeq(s, i + 1, n)
           p == [j \in 1..(n - 1) |-> IF j < i THEN j ELSE j + 1]
<1>1. n \in Nat /\ i \in 1..n /\ DOMAIN s = 1..n
  OBVIOUS
<1>2. RemoveAt(s, i) = a \o b /\ a \in Seq(S) /\ b \in Seq(S)
  BY <1>1 DEF RemoveAt
<1>3. /\ Len(a) = i - 1 /\ Len(b) = n - i
      /\ \A j \in 1..(i - 1) : a[j] = s[j]
      /\ \A j \in 1..(n - i) : b[j] = s[i + j]
  BY <1>1
<1> HIDE DEF n, a, b
<1>4. DOMAIN RemoveAt(s, i) = 1..(n - 1)
  BY <1>1, <1>2, <1>3
<1>5. ASSUME NEW j \in 1..(n - 1) PROVE RemoveAt(s, i)[j] = s[p[j]]
  <2>1. CASE j < i
    <3>1. (a \o b)[j] = a[j]
      BY <2>1, <1>1, <1>2, <1>3
    <3> QED
      BY <2>1, <3>1, <1>1, <1>2, <1>3
  <2>2. CASE ~(j < i)
    <3>1. j - (i - 1) \in 1..(n - i)
      BY <2>2, <1>1
    <3>2. b[j - (i - 1)] = s[i + (j - (i - 1))] /\ i + (j - (i - 1)) = j + 1
      BY <3>1, <1>1, <1>3
    <3>3. j \in 1..(Len(a) + Len(b)) /\ ~(j <= Len(a)) /\ j - Len(a) = j - (i - 1)
      BY <2>2, <1>1, <1>3
    <3>4. (a \o b)[j] = b[j - Len(a)]
      BY <3>3, <1>2
    <3> QED
      BY <2>2, <3>2, <3>3, <3>4, <1>2
  <2> QED
    BY <2>1, <2>2
<1>6. p \in [1..(n - 1) -> (1..n) \ {i}] /\ \A j, k \in 1..(n - 1) : p[j] = p[k] => j = k
  BY <1>1
<1>7. ASSUME NEW k \in (1..n) \ {i} PROVE \E j \in 1..(n - 1) : p[j] = k
  <2>1. CASE k < i
    <3>1. k \in 1..(n - 1) /\ p[k] = k
      BY <2>1, <1>1
    <3> QED
      BY <3>1, Zenon
  <2>2. CASE ~(k < i)
    <3>1. k - 1 \in 1..(n - 1) /\ p[k - 1] = k
      BY <2>2, <1>1
    <3> QED
      BY <3>1, Zenon
  <2> QED
    BY <2>1, <2>2
<1> HIDE DEF p
<1> DEFINE R == DOMAIN RemoveAt(s, i)
           D == DOMAIN s \ {i}
<1>8. R = 1..(n - 1) /\ D = (1..n) \ {i}
  BY <1>1, <1>4
<1> HIDE DEF R, D
<1>9. p \in [R -> D] /\ (\A j, k \in R : p[j] = p[k] => j = k) /\ \A k \in D : \E j \in R : p[j] = k
  BY <1>6, <1>7, <1>8, Zenon
<1>10. \A j \in R : RemoveAt(s, i)[j] = s[p[j]]
  BY <1>5, <1>8, Zenon
<1> QED
  BY <1>9, <1>10, Zenon DEF R, D

---------------------------------------------------------------------------
(* Types, and the mails the database has accepted                          *)

\* Mails among the letters e.
Good(e) == {m \in Mails : Letter(m) \in e}

Message == [id : Nat, from : User \cup {Hostbot, All}, to : User \cup {All}, text : 0..MaxCommands,
            read : BOOLEAN]

\* The queries that may be outstanding when the database has accepted e.
Asked(e) ==
  {q \in [op : {"add", "readed", "remove", "list"}, mail : Message,
          stage : {"sent", "done", "failed"}, rows : Seq(Good(e))] :
     /\ q.op = "add" => q.mail \in Mails /\ ~q.mail.read
     /\ q.op = "add" /\ q.stage = "done" => Letter(q.mail) \in e}

State ==
  /\ table \in Seq(Good(ever)) /\ cache \in Seq(Good(ever))
  /\ queries \in Seq(Asked(ever))
  /\ commands \in 0..MaxCommands /\ bypassed \in BOOLEAN /\ disorder \in BOOLEAN

LEMMA Numbers ==
  /\ MaxSended \in Nat /\ MaxReceived \in Nat /\ MaxCommands \in Nat /\ MaxQueries \in Nat
  /\ MaxSended > 0 /\ MaxReceived > 0
BY NumberAssumption, LimitAssumption

LEMMA GoodGrows ==
  ASSUME NEW e, NEW f, e \subseteq f
  PROVE  Good(e) \subseteq Good(f) /\ Seq(Good(e)) \subseteq Seq(Good(f)) /\ Asked(e) \subseteq Asked(f)
<1>1. Good(e) \subseteq Good(f)
  BY DEF Good
<1>2. Seq(Good(e)) \subseteq Seq(Good(f))
  BY <1>1
<1>3. Asked(e) \subseteq Asked(f)
  BY <1>2 DEF Asked
<1> QED
  BY <1>1, <1>2, <1>3

LEMMA StateIInv == State => IInv
<1> SUFFICES ASSUME State PROVE IInv
  OBVIOUS
<1>1. Good(ever) \subseteq Mails /\ Seq(Good(ever)) \subseteq Seq(Mails)
  <2>1. Good(ever) \subseteq Mails
    BY DEF Good
  <2> QED
    BY <2>1
<1>2. \A rows \in Seq(Good(ever)) : \A m \in ToSet(rows) : Letter(m) \in ever
  BY DEF Good, ToSet
<1>3. \A k \in DOMAIN queries : queries[k] \in Asked(ever)
  BY DEF State
<1>4. ASSUME NEW k \in DOMAIN queries
      PROVE  /\ queries[k].op \in {"add", "readed", "remove", "list"}
             /\ queries[k].stage \in {"sent", "done", "failed"}
             /\ queries[k].rows \in Seq(Good(ever))
             /\ queries[k].op = "add" /\ queries[k].stage = "done" => Letter(queries[k].mail) \in ever
  BY <1>3 DEF Asked
<1>5. {bypassed, disorder} \subseteq BOOLEAN
  BY DEF State
<1>6. TypeOK
  <2>1. table \in Seq(Mails) /\ cache \in Seq(Mails) /\ commands \in 0..MaxCommands
    BY <1>1 DEF State
  <2> QED
    BY <2>1, <1>1, <1>4, <1>5, Zenon DEF TypeOK
<1>7. MailAccepted /\ \A m \in ToSet(table) : Letter(m) \in ever
  BY <1>2, Zenon DEF State, MailAccepted
<1> QED
  BY <1>2, <1>4, <1>6, <1>7, Zenon DEF IInv

---------------------------------------------------------------------------
(* What commands ask for                                                   *)

\* Ids are bounded, so that there is a greatest one.
LEMMA Bounded ==
  ASSUME NEW n \in Nat, NEW f \in [1..n -> Nat]
  PROVE  \E b \in Nat : \A k \in 1..n : f[k] <= b
<1> DEFINE B(m) == \E b \in Nat : \A k \in 1..m : f[k] <= b
           T == {m \in 0..n : ~B(m)}
<1>0. n \in 0..n
  OBVIOUS
<1>1. SUFFICES ASSUME T /= {} PROVE FALSE
  BY <1>0, Zenon
<1>2. T \subseteq Nat
  OBVIOUS
<1> HIDE DEF B
<1>3. PICK x \in T : \A y \in T : ~(<<y, x>> \in OpToRel(<, Nat))
  BY <1>1, <1>2, WFMin, NatLessThanWellFounded, Zenon
<1>4. \A y \in T : <<y, x>> \in OpToRel(<, Nat) <=> y < x
  BY <1>2, <1>3, Zenon DEF OpToRel
<1>5. B(0)
  <2>1. \A k \in 1..0 : f[k] <= 0
    OBVIOUS
  <2> QED
    BY <2>1 DEF B
<1>6. x \in 1..n /\ x - 1 \in 0..n /\ x - 1 \notin T
  <2>1. x /= 0 /\ x \in 0..n
    BY <1>5
  <2>2. x - 1 \in 0..n /\ x - 1 < x
    BY <2>1
  <2>3. \A y \in T : ~(y < x)
    BY <1>3, <1>4, Zenon
  <2> QED
    BY <2>1, <2>2, <2>3
<1>7. PICK b \in Nat : \A k \in 1..(x - 1) : f[k] <= b
  BY <1>6 DEF B
<1>8. B(x)
  <2>1. f[x] \in Nat
    BY <1>6
  <2>2. b + f[x] \in Nat /\ \A k \in 1..x : f[k] <= b + f[x]
    BY <2>1, <1>6, <1>7
  <2> QED
    BY <2>2 DEF B
<1> QED
  BY <1>8

\* GetMailId is not below the id of any mail.
LEMMA MailIdType ==
  ASSUME cache \in Seq(Mails)
  PROVE  MailId \in Nat /\ \A k \in DOMAIN cache : cache[k].id <= MailId
<1> DEFINE f == [k \in 1..Len(cache) |-> cache[k].id]
           ids == {0} \cup {m.id : m \in ToSet(cache)}
<1>1. Len(cache) \in Nat /\ DOMAIN cache = 1..Len(cache) /\ \A k \in DOMAIN cache : cache[k] \in Mails
  OBVIOUS
<1>2. f \in [1..Len(cache) -> Nat]
  BY <1>1 DEF Mails
<1> HIDE DEF f
<1>3. PICK b \in Nat : \A k \in 1..Len(cache) : f[k] <= b
  BY <1>1, <1>2, Bounded
<1>4. ids = {0} \cup {cache[k].id : k \in DOMAIN cache}
  BY DEF ToSet
<1>5. \A i \in ids : i \in 0..b
  <2>1. ASSUME NEW k \in DOMAIN cache PROVE cache[k].id \in 0..b
    <3>1. f[k] \in Nat /\ f[k] <= b /\ f[k] = cache[k].id
      BY <1>1, <1>2, <1>3 DEF f
    <3> QED
      BY <3>1
  <2>2. 0 \in 0..b
    OBVIOUS
  <2> QED
    BY <2>1, <2>2, <1>4, Zenon
<1>6. 0 \in ids
  OBVIOUS
<1> HIDE DEF ids
<1> DEFINE S == {b - i : i \in ids}
<1>7. S \subseteq Nat /\ S /= {}
  BY <1>5, <1>6
<1>8. PICK x \in S : \A y \in S : ~(<<y, x>> \in OpToRel(<, Nat))
  BY <1>7, WFMin, NatLessThanWellFounded, Zenon
<1>9. \A y \in S : <<y, x>> \in OpToRel(<, Nat) <=> y < x
  BY <1>7, <1>8, Zenon DEF OpToRel
<1>10. PICK m \in ids : x = b - m
  BY <1>8, Zenon
<1>11. \A i \in ids : ~(b - i < b - m)
  BY <1>8, <1>9, <1>10, Zenon
<1>12. \A i \in ids : m >= i
  BY <1>5, <1>11
<1>13. Max(ids) \in ids /\ \A i \in ids : Max(ids) >= i
  BY <1>10, <1>12, Zenon DEF Max
<1>14. MailId = Max(ids)
  BY DEF MailId, ids
<1>15. \A k \in DOMAIN cache : cache[k].id \in ids
  BY <1>4, Zenon
<1> QED
  BY <1>5, <1>13, <1>14, <1>15

\* A mail that guard writes has an id of its own and is not read.
LEMMA MailType ==
  ASSUME cache \in Seq(Mails), NEW from \in User \cup {Hostbot}, NEW to \in User \cup {All},
         NEW text \in 0..MaxCommands
  PROVE  Mail(from, to, text) \in Mails /\ ~Mail(from, to, text).read
<1>1. NextId \in Nat \ {0}
  BY MailIdType DEF NextId
<1> QED
  BY <1>1 DEF Mail, Mails

LEMMA AskTypes ==
  ASSUME NEW e
  PROVE  /\ \A m \in Mails : ~m.read => Add(m) \in Asked(e)
         /\ \A u \in User : Readed(u) \in Asked(e)
         /\ \A u \in User, id \in Nat : Delete(u, id) \in Asked(e)
         /\ List \in Asked(e)
<1>1. Mails \subseteq Message /\ NoMail \in Message
  BY Numbers DEF Mails, Message, NoMail
<1>2. <<>> \in Seq(Good(e))
  OBVIOUS
<1>3. ASSUME NEW m \in Mails, ~m.read PROVE Add(m) \in Asked(e)
  BY <1>1, <1>2, <1>3 DEF Add, Ask, Asked
<1>4. ASSUME NEW u \in User PROVE Readed(u) \in Asked(e)
  <2>1. [NoMail EXCEPT !.to = u] \in Message
    BY <1>1 DEF Message
  <2> QED
    BY <2>1, <1>2 DEF Readed, Ask, Asked
<1>5. ASSUME NEW u \in User, NEW id \in Nat PROVE Delete(u, id) \in Asked(e)
  <2>1. [NoMail EXCEPT !.to = u, !.id = id] \in Message
    BY <1>1 DEF Message
  <2> QED
    BY <2>1, <1>2 DEF Delete, Ask, Asked
<1>6. List \in Asked(e)
  BY <1>1, <1>2 DEF List, Ask, Asked
<1> QED
  BY <1>3, <1>4, <1>5, <1>6

LEMMA IssueState ==
  ASSUME State, NEW qs \in Seq(Asked(ever)), Issue(qs), cache' \in Seq(Good(ever)),
         bypassed' \in BOOLEAN
  PROVE  State' /\ commands' \in 1..MaxCommands
<1>1. /\ commands < MaxCommands /\ commands' = commands + 1 /\ queries' = queries \o qs
      /\ table' = table /\ ever' = ever
  BY DEF Issue
<1>2. disorder' \in BOOLEAN
  BY Zenon DEF Issue
<1>3. commands' \in 1..MaxCommands /\ commands' \in 0..MaxCommands
  BY <1>1, Numbers DEF State
<1>4. queries' \in Seq(Asked(ever))
  BY <1>1 DEF State
<1> QED
  BY <1>1, <1>2, <1>3, <1>4, Zenon DEF State

\* Marking changes no letter.
Marked(rows, u) == [k \in DOMAIN rows |-> [rows[k] EXCEPT !.read = @ \/ rows[k].to = u]]

LEMMA MarkedRows ==
  ASSUME NEW e, NEW rows \in Seq(Good(e)), NEW u
  PROVE  /\ Marked(rows, u) \in Seq(Good(e)) /\ DOMAIN Marked(rows, u) = DOMAIN rows
         /\ \A k \in DOMAIN rows : /\ Letter(Marked(rows, u)[k]) = Letter(rows[k])
                                   /\ Marked(rows, u)[k].read <=> rows[k].read \/ rows[k].to = u
<1> DEFINE M(k) == [rows[k] EXCEPT !.read = @ \/ rows[k].to = u]
<1>1. Len(rows) \in Nat /\ DOMAIN rows = 1..Len(rows) /\ \A k \in DOMAIN rows : rows[k] \in Good(e)
  OBVIOUS
<1>2. ASSUME NEW k \in DOMAIN rows
      PROVE  /\ M(k) \in Good(e) /\ Letter(M(k)) = Letter(rows[k])
             /\ M(k).read <=> rows[k].read \/ rows[k].to = u
  <2> DEFINE r == rows[k].read \/ rows[k].to = u
             m == [id |-> rows[k].id, from |-> rows[k].from, to |-> rows[k].to, text |-> rows[k].text,
                   read |-> r]
  <2>1. rows[k] \in Mails /\ Letter(rows[k]) \in e
    BY <1>1 DEF Good
  <2>2. r \in BOOLEAN
    BY <2>1, Zenon DEF Mails
  <2>3. M(k) = m
    <3> HIDE DEF r
    <3>1. [rows[k] EXCEPT !.read = r] = m
      BY <2>1 DEF Mails
    <3> QED
      BY <3>1 DEF r
  <2> HIDE DEF r
  <2>4. m \in Mails
    BY <2>1, <2>2 DEF Mails
  <2>5. Letter(m) = Letter(rows[k]) /\ m.read = r
    BY DEF Letter
  <2> HIDE DEF m, M
  <2> QED
    BY <2>1, <2>3, <2>4, <2>5, Zenon DEF Good, r
<1>3. Marked(rows, u) = [k \in 1..Len(rows) |-> M(k)]
  BY <1>1, Zenon DEF Marked
<1> HIDE DEF M
<1>4. [k \in 1..Len(rows) |-> M(k)] \in [1..Len(rows) -> Good(e)]
  BY <1>1, <1>2
<1>5. Marked(rows, u) \in Seq(Good(e)) /\ DOMAIN Marked(rows, u) = 1..Len(rows)
  BY <1>1, <1>3, <1>4, FunctionSeq, Zenon
<1>6. \A k \in DOMAIN rows : Marked(rows, u)[k] = M(k)
  BY <1>1, <1>3
<1> QED
  BY <1>1, <1>2, <1>5, <1>6, Zenon

LEMMA MarkIsMarked == \A u : Mark(u) = Marked(cache, u)
BY Zenon DEF Mark, Marked

\* The hostbot's mail goes to admins.
LEMMA AdminSeq ==
  /\ Cardinality(Admin) \in Nat
  /\ \A k \in 1..Cardinality(Admin) : SetToSeq(Admin)[k] \in Admin
<1>1. IsFiniteSet(Admin) /\ Cardinality(Admin) \in Nat
  BY UserAssumption, NameAssumption, FS_Subset, FS_CardinalityType
<1>2. IsFiniteSet(1..Cardinality(Admin)) /\ Cardinality(1..Cardinality(Admin)) = Cardinality(Admin)
  BY <1>1, FS_Interval
<1>3. PICK f \in Bijection(1..Cardinality(Admin), Admin) : TRUE
  BY <1>1, <1>2, FS_SameCardinalityBij DEF ExistsBijection
<1>4. f \in [1..Cardinality(Admin) -> Admin] /\ IsInjective(f)
  BY <1>3 DEF Bijection, Injection
<1>5. SetToSeq(Admin) \in [1..Cardinality(Admin) -> Admin]
  BY <1>4, Zenon DEF SetToSeq
<1> QED
  BY <1>1, <1>5

---------------------------------------------------------------------------
(* Every step keeps the types and what is accepted.                        *)

\* The news that Join copies, each to the user who joins.
News(u) == Kept(cache, {k \in DOMAIN cache : cache[k].to = All /\ ~AlreadyReaded(u, cache[k].text)})
Copies(u) == [k \in DOMAIN News(u) |-> Add(Mail(News(u)[k].from, u, News(u)[k].text))]

LEMMA NewsType ==
  ASSUME State, NEW u \in User
  PROVE  /\ News(u) \in Seq(Good(ever)) /\ Copies(u) \in Seq(Asked(ever))
         /\ Len(Copies(u)) = Len(News(u)) /\ DOMAIN Copies(u) = DOMAIN News(u)
         /\ \A k \in DOMAIN News(u) : News(u)[k] \in ToSet(cache) /\ ~AlreadyReaded(u, News(u)[k].text)
<1> DEFINE K == {k \in DOMAIN cache : cache[k].to = All /\ ~AlreadyReaded(u, cache[k].text)}
<1>1. cache \in Seq(Good(ever)) /\ cache \in Seq(Mails) /\ K \in SUBSET (DOMAIN cache)
  <2>1. Good(ever) \subseteq Mails
    BY DEF Good
  <2> QED
    BY <2>1 DEF State
<1>2. News(u) = Kept(cache, K)
  BY DEF News
<1>3. /\ News(u) \in Seq(Good(ever))
      /\ \A k \in DOMAIN News(u) : Nth(K, k) \in K /\ News(u)[k] = cache[Nth(K, k)]
  <2> HIDE DEF K
  <2> QED
    BY <1>1, <1>2, KeptMembers
<1>4. \A k \in DOMAIN News(u) : News(u)[k] \in ToSet(cache) /\ ~AlreadyReaded(u, News(u)[k].text)
  <2> SUFFICES ASSUME NEW k \in DOMAIN News(u)
               PROVE  News(u)[k] \in ToSet(cache) /\ ~AlreadyReaded(u, News(u)[k].text)
    OBVIOUS
  <2>1. Nth(K, k) \in K /\ News(u)[k] = cache[Nth(K, k)]
    BY <1>3, Zenon
  <2>2. Nth(K, k) \in DOMAIN cache /\ ~AlreadyReaded(u, cache[Nth(K, k)].text)
    BY <2>1
  <2> QED
    BY <2>1, <2>2, Zenon DEF ToSet
<1>5. Len(News(u)) \in Nat /\ DOMAIN News(u) = 1..Len(News(u))
  BY <1>3
<1>6. ASSUME NEW k \in DOMAIN News(u)
      PROVE  Add(Mail(News(u)[k].from, u, News(u)[k].text)) \in Asked(ever)
  <2>1. News(u)[k] \in Mails
    BY <1>3 DEF Good
  <2>2. News(u)[k].from \in User \cup {Hostbot} /\ News(u)[k].text \in 0..MaxCommands
    BY <2>1 DEF Mails
  <2>3. Mail(News(u)[k].from, u, News(u)[k].text) \in Mails /\ ~Mail(News(u)[k].from, u, News(u)[k].text).read
    BY <2>2, <1>1, MailType
  <2> QED
    BY <2>3, AskTypes
<1> DEFINE f == [k \in 1..Len(News(u)) |-> Add(Mail(News(u)[k].from, u, News(u)[k].text))]
<1>7. f \in [1..Len(News(u)) -> Asked(ever)]
  BY <1>5, <1>6
<1>8. Copies(u) = f
  BY <1>5, Zenon DEF Copies
<1> HIDE DEF f
<1>9. Copies(u) \in Seq(Asked(ever)) /\ Len(Copies(u)) = Len(News(u)) /\ DOMAIN Copies(u) = 1..Len(News(u))
  BY <1>5, <1>7, <1>8, FunctionSeq
<1> QED
  BY <1>3, <1>4, <1>5, <1>9

\* What each command issues, and what else it does.
LEMMA JoinParts ==
  ASSUME NEW u \in User, Join(u)
  PROVE  /\ Issue(Copies(u) \o <<Readed(u)>>)
         /\ Show({<<m.text, u>> : m \in {m \in ToSet(cache) : m.to = u /\ ~m.read} \cup ToSet(News(u))})
         /\ \/ cache' = Marked(cache, u)
            \/ cache' = cache /\ \A m \in ToSet(cache) : m.to = u => m.read
         /\ bypassed' = (bypassed \/ News(u) /= <<>>)
<1> DEFINE unread == {m \in ToSet(cache) : m.to = u /\ ~m.read}
<1>1. /\ Issue(Copies(u) \o <<Readed(u)>>)
      /\ Show({<<m.text, u>> : m \in unread \cup ToSet(News(u))})
      /\ cache' = IF unread = {} THEN cache ELSE Mark(u)
      /\ bypassed' = (bypassed \/ News(u) /= <<>>)
  BY Zenon DEF Join, News, Copies
<1>2. \/ cache' = Marked(cache, u)
      \/ cache' = cache /\ \A m \in ToSet(cache) : m.to = u => m.read
  <2>1. CASE unread = {}
    BY <2>1, <1>1, Zenon
  <2>2. CASE unread /= {}
    BY <2>2, <1>1, MarkIsMarked, Zenon
  <2> QED
    BY <2>1, <2>2
<1> QED
  BY <1>1, <1>2

LEMMA CommandsState ==
  ASSUME State, Commands \/ DailyRefresh
  PROVE  State'
<1>1. cache \in Seq(Good(ever)) /\ cache \in Seq(Mails) /\ bypassed \in BOOLEAN /\ TRUE \in BOOLEAN
  <2>1. Good(ever) \subseteq Mails
    BY DEF Good
  <2> QED
    BY <2>1 DEF State
<1>2. \A qs : Issue(qs) => commands' \in 0..MaxCommands
  BY Numbers DEF Issue, State
<1>3. ASSUME NEW u \in User, NEW v \in User, MailCommand(u, v) PROVE State'
  <2>1. Issue(<<Add(Mail(u, v, commands'))>>) /\ cache' = cache /\ bypassed' = bypassed
    BY <1>3, Zenon DEF MailCommand
  <2>2. Add(Mail(u, v, commands')) \in Asked(ever)
    BY <2>1, <1>1, <1>2, MailType, AskTypes
  <2>3. <<Add(Mail(u, v, commands'))>> \in Seq(Asked(ever))
    BY <2>2
  <2> QED
    BY <2>1, <2>3, <1>1, IssueState
<1>4. ASSUME NEW u \in User, AnnMail(u) PROVE State'
  <2>1. Issue(<<Add(Mail(u, All, commands'))>>) /\ cache' = cache /\ bypassed' = TRUE
    BY <1>4, Zenon DEF AnnMail
  <2>2. Add(Mail(u, All, commands')) \in Asked(ever)
    BY <2>1, <1>1, <1>2, MailType, AskTypes
  <2>3. <<Add(Mail(u, All, commands'))>> \in Seq(Asked(ever))
    BY <2>2
  <2> QED
    BY <2>1, <2>3, <1>1, IssueState
<1>5. CASE HostbotMail
  <2> DEFINE qs == [k \in 1..Cardinality(Admin) |-> Add(Mail(Hostbot, SetToSeq(Admin)[k], commands'))]
  <2>1. Issue(qs) /\ cache' = cache /\ bypassed' = TRUE
    BY <1>5, Zenon DEF HostbotMail
  <2>2. ASSUME NEW k \in 1..Cardinality(Admin)
        PROVE  Add(Mail(Hostbot, SetToSeq(Admin)[k], commands')) \in Asked(ever)
    <3>1. SetToSeq(Admin)[k] \in User /\ commands' \in 0..MaxCommands
      BY <2>1, <1>2, AdminSeq, NameAssumption
    <3> QED
      BY <3>1, <1>1, MailType, AskTypes
  <2>3. qs \in [1..Cardinality(Admin) -> Asked(ever)]
    BY <2>2
  <2> HIDE DEF qs
  <2>4. qs \in Seq(Asked(ever))
    BY <2>3, AdminSeq, FunctionSeq
  <2> QED
    BY <2>1, <2>4, <1>1, IssueState
<1>6. ASSUME NEW u \in User, Join(u) PROVE State'
  <2>1. /\ Issue(Copies(u) \o <<Readed(u)>>) /\ bypassed' = (bypassed \/ News(u) /= <<>>)
        /\ cache' = cache \/ cache' = Marked(cache, u)
    BY <1>6, JoinParts, Zenon
  <2>2. Copies(u) \o <<Readed(u)>> \in Seq(Asked(ever))
    BY NewsType, AskTypes
  <2>3. cache' \in Seq(Good(ever))
    BY <2>1, <1>1, MarkedRows
  <2>4. bypassed' \in BOOLEAN
    BY <2>1, Zenon
  <2> QED
    BY <2>1, <2>2, <2>3, <2>4, IssueState
<1>7. ASSUME NEW u \in User, Mailbox(u) PROVE State'
  <2>1. Issue(<<Readed(u)>>) /\ bypassed' = bypassed /\ cache' = Marked(cache, u)
    BY <1>7, MarkIsMarked, Zenon DEF Mailbox
  <2>2. <<Readed(u)>> \in Seq(Asked(ever))
    BY AskTypes
  <2>3. cache' \in Seq(Good(ever))
    BY <2>1, <1>1, MarkedRows
  <2> QED
    BY <2>1, <2>2, <2>3, <1>1, IssueState
<1>8. ASSUME NEW u \in User, NEW id \in 1..(MailId + 1), DelMail(u, id) PROVE State'
  <2>1. Issue(<<Delete(u, id)>>) /\ bypassed' = bypassed /\ cache' = cache
    BY <1>8, Zenon DEF DelMail
  <2>2. id \in Nat
    BY <1>1, MailIdType
  <2>3. <<Delete(u, id)>> \in Seq(Asked(ever))
    BY <2>2, AskTypes
  <2> QED
    BY <2>1, <2>3, <1>1, IssueState
<1>9. CASE Refresh \/ DailyRefresh
  <2> DEFINE K == {k \in DOMAIN queries : queries[k].op /= "list"}
             first == <<List>>
  <2>1. queries \in Seq(Asked(ever)) /\ K \in SUBSET (DOMAIN queries)
    BY DEF State
  <2>2. Kept(queries, K) \in Seq(Asked(ever)) /\ first \in Seq(Asked(ever))
    <3> HIDE DEF K
    <3> QED
      BY <2>1, KeptMembers, AskTypes
  <2>3. /\ queries' = first \o Kept(queries, K) \/ queries' = first \o queries
        /\ disorder' = (disorder \/ queries /= <<>>)
        /\ table' = table /\ cache' = cache /\ ever' = ever /\ bypassed' = bypassed
    BY <1>9, Zenon DEF Refresh, DailyRefresh
  <2> HIDE DEF K, first
  <2>4. queries' \in Seq(Asked(ever))
    <3>1. \A a, b \in Seq(Asked(ever)) : a \o b \in Seq(Asked(ever))
      BY ConcatProperties
    <3> QED
      BY <3>1, <2>1, <2>2, <2>3, Zenon
  <2>5. commands' \in 0..MaxCommands
    BY <1>9, Numbers DEF Refresh, DailyRefresh, State
  <2>6. disorder' \in BOOLEAN
    BY <2>3, Zenon
  <2> QED
    BY <2>3, <2>4, <2>5, <2>6, Zenon DEF State
<1> QED
  BY <1>3, <1>4, <1>5, <1>6, <1>7, <1>8, <1>9, Zenon DEF Commands

LEMMA QueryType ==
  ASSUME State, NEW i \in DOMAIN queries
  PROVE  /\ queries[i] \in Asked(ever) /\ queries[i].op \in {"add", "readed", "remove", "list"}
         /\ queries[i].stage \in {"sent", "done", "failed"}
         /\ queries[i].mail \in Message /\ queries[i].rows \in Seq(Good(ever))
         /\ queries[i].op = "add" => queries[i].mail \in Mails /\ ~queries[i].mail.read
         /\ queries[i].op = "add" /\ queries[i].stage = "done" => Letter(queries[i].mail) \in ever
<1>1. queries[i] \in Asked(ever)
  BY DEF State
<1> QED
  BY <1>1 DEF Asked

\* A query in another stage, with other rows.
LEMMA Staged ==
  ASSUME NEW e, NEW f, NEW q \in Asked(e), NEW stage \in {"sent", "done", "failed"},
         NEW rows \in Seq(Good(f)), e \subseteq f,
         q.op = "add" /\ stage = "done" => Letter(q.mail) \in f
  PROVE  [op |-> q.op, mail |-> q.mail, stage |-> stage, rows |-> rows] \in Asked(f)
BY DEF Asked

\* Executed, a query is done and has read what a list reads.
LEMMA ExecuteParts ==
  ASSUME State, NEW i \in DOMAIN queries, Execute(i)
  PROVE  /\ queries[i].stage = "sent" /\ table' = Written(queries[i])
         /\ ever' = IF queries[i].op = "add" THEN ever \cup {Letter(queries[i].mail)} ELSE ever
         /\ queries' = [queries EXCEPT ![i] =
              [op |-> queries[i].op, mail |-> queries[i].mail, stage |-> "done",
               rows |-> IF queries[i].op = "list" THEN table ELSE <<>>]]
         /\ cache' = cache /\ commands' = commands /\ shown' = shown
         /\ bypassed' = bypassed /\ disorder' = disorder
<1> DEFINE q == queries[i]
           rows == IF q.op = "list" THEN table ELSE <<>>
           done == [op |-> q.op, mail |-> q.mail, stage |-> "done", rows |-> rows]
<1>1. /\ q.stage = "sent" /\ table' = Written(q)
      /\ ever' = IF q.op = "add" THEN ever \cup {Letter(q.mail)} ELSE ever
      /\ queries' = [queries EXCEPT ![i].stage = "done", ![i].rows = rows]
      /\ cache' = cache /\ commands' = commands /\ shown' = shown
      /\ bypassed' = bypassed /\ disorder' = disorder
  BY Zenon DEF Execute
<1>2. q \in Asked(ever) /\ rows \in Seq(Good(ever'))
  <2>1. table \in Seq(Good(ever')) /\ <<>> \in Seq(Good(ever'))
    <3>1. ever \subseteq ever'
      BY <1>1
    <3> QED
      BY <3>1, GoodGrows DEF State
  <2> QED
    BY <2>1, QueryType
<1>3. [[q EXCEPT !.stage = "done"] EXCEPT !.rows = rows] = done
  <2> HIDE DEF q, rows
  <2>1. [q EXCEPT !.stage = "done"] = [op |-> q.op, mail |-> q.mail, stage |-> "done", rows |-> q.rows]
    BY <1>2 DEF Asked
  <2>2. [[op |-> q.op, mail |-> q.mail, stage |-> "done", rows |-> q.rows] EXCEPT !.rows = rows]
          = [op |-> q.op, mail |-> q.mail, stage |-> "done", rows |-> rows]
    OBVIOUS
  <2> QED
    BY <2>1, <2>2, Zenon DEF done
<1>4. queries' = [queries EXCEPT ![i] = [[q EXCEPT !.stage = "done"] EXCEPT !.rows = rows]]
  BY <1>1
<1>5. queries' = [queries EXCEPT ![i] = done]
  BY <1>3, <1>4, Zenon
<1> QED
  BY <1>1, <1>5, Zenon

LEMMA ExecuteState ==
  ASSUME State, NEW i \in DOMAIN queries, Execute(i)
  PROVE  State'
<1> DEFINE q == queries[i]
           rows == IF q.op = "list" THEN table ELSE <<>>
           done == [op |-> q.op, mail |-> q.mail, stage |-> "done", rows |-> rows]
<1>1. /\ table' = Written(q)
      /\ ever' = IF q.op = "add" THEN ever \cup {Letter(q.mail)} ELSE ever
      /\ queries' = [queries EXCEPT ![i] = done]
      /\ cache' = cache /\ commands' = commands /\ bypassed' = bypassed /\ disorder' = disorder
  BY ExecuteParts, Zenon
<1>2. /\ q \in Asked(ever) /\ q.op \in {"add", "readed", "remove", "list"}
      /\ q.op = "add" => q.mail \in Mails
  BY QueryType
<1> HIDE DEF q
<1>3. ever \subseteq ever' /\ (q.op = "add" => Letter(q.mail) \in ever')
  BY <1>1
<1>4. /\ table \in Seq(Good(ever')) /\ cache \in Seq(Good(ever')) /\ queries \in Seq(Asked(ever'))
  <2>1. Seq(Good(ever)) \subseteq Seq(Good(ever')) /\ Asked(ever) \subseteq Asked(ever')
    BY <1>3, GoodGrows
  <2>2. Seq(Asked(ever)) \subseteq Seq(Asked(ever'))
    BY <2>1
  <2> QED
    BY <2>1, <2>2, Zenon DEF State
<1>5. done \in Asked(ever')
  <2>1. rows \in Seq(Good(ever'))
    BY <1>4
  <2> HIDE DEF rows
  <2> QED
    BY <1>2, <1>3, <2>1, Staged
<1> HIDE DEF done
<1>6. queries' \in Seq(Asked(ever'))
  BY <1>1, <1>4, <1>5
<1>7. table' \in Seq(Good(ever'))
  <2>1. CASE q.op = "add"
    <3>1. table' = Append(table, q.mail)
      BY <2>1, <1>1 DEF Written
    <3>2. q.mail \in Good(ever')
      BY <2>1, <1>2, <1>3 DEF Good
    <3> QED
      BY <3>1, <3>2, <1>4
  <2>2. CASE q.op = "readed"
    <3>1. table' = [k \in DOMAIN table |-> [table[k] EXCEPT !.read = @ \/ Marks(table[k], q)]]
      BY <2>2, <1>1 DEF Written
    <3>2. table' = Marked(table, q.mail.to)
      BY <3>1, Zenon DEF Marks, Marked
    <3> QED
      BY <3>2, <1>4, MarkedRows
  <2>3. CASE q.op = "remove"
    <3>1. table' = Without(table, q)
      BY <2>3, <1>1 DEF Written
    <3>2. {k \in DOMAIN table : ~Named(table[k], q)} \in SUBSET (DOMAIN table)
      OBVIOUS
    <3> QED
      BY <3>1, <3>2, <1>4, KeptMembers DEF Without
  <2>4. CASE q.op = "list"
    BY <2>4, <1>1, <1>4 DEF Written
  <2> QED
    BY <2>1, <2>2, <2>3, <2>4, <1>2
<1> QED
  BY <1>1, <1>4, <1>6, <1>7, Zenon DEF State

LEMMA FailState ==
  ASSUME State, NEW i \in DOMAIN queries, Fail(i)
  PROVE  State'
<1> DEFINE q == queries[i]
           failed == [op |-> q.op, mail |-> q.mail, stage |-> "failed", rows |-> q.rows]
<1>1. /\ queries' = [queries EXCEPT ![i].stage = "failed"]
      /\ disorder' = TRUE /\ table' = table /\ cache' = cache /\ commands' = commands
      /\ ever' = ever /\ bypassed' = bypassed
  BY Zenon DEF Fail
<1>2. q \in Asked(ever) /\ q.rows \in Seq(Good(ever))
  BY QueryType
<1>3. [q EXCEPT !.stage = "failed"] = failed /\ failed \in Asked(ever)
  <2> HIDE DEF q
  <2> QED
    BY <1>2 DEF Asked
<1>4. queries' = [queries EXCEPT ![i] = failed]
  BY <1>1, <1>3
<1> HIDE DEF failed
<1>5. queries' \in Seq(Asked(ever))
  BY <1>3, <1>4 DEF State
<1> QED
  BY <1>1, <1>5, Zenon DEF State

LEMMA ConsumeState ==
  ASSUME State, NEW i \in DOMAIN queries, Consume(i)
  PROVE  State'
<1> DEFINE q == queries[i]
<1>1. /\ cache' = Copied(q) /\ queries' = RemoveAt(queries, i)
      /\ disorder' = disorder /\ table' = table /\ commands' = commands
      /\ ever' = ever /\ bypassed' = bypassed
  BY Zenon DEF Consume
<1>2. /\ q.op \in {"add", "readed", "remove", "list"} /\ q.rows \in Seq(Good(ever))
      /\ q.op = "add" /\ q.stage = "done" => Letter(q.mail) \in ever /\ q.mail \in Mails
  BY QueryType
<1>3. cache \in Seq(Good(ever))
  BY DEF State
<1> HIDE DEF q
<1>4. cache' \in Seq(Good(ever))
  <2>1. CASE q.op = "list"
    BY <2>1, <1>1, <1>2 DEF Copied, Loaded
  <2>2. CASE q.op /= "list" /\ ~Applied(q)
    BY <2>2, <1>1, <1>3 DEF Copied
  <2>3. CASE q.op = "add" /\ Applied(q)
    <3>1. cache' = Append(cache, q.mail)
      BY <2>3, <1>1 DEF Copied
    <3>2. q.mail \in Good(ever)
      BY <2>3, <1>2 DEF Good, Applied
    <3> QED
      BY <3>1, <3>2, <1>3
  <2>4. CASE q.op = "readed" /\ Applied(q)
    <3>1. cache' = Marked(cache, q.mail.to)
      BY <2>4, <1>1, MarkIsMarked DEF Copied
    <3> QED
      BY <3>1, <1>3, MarkedRows
  <2>5. CASE q.op = "remove" /\ Applied(q)
    <3>1. cache' = Without(cache, q)
      BY <2>5, <1>1 DEF Copied
    <3>2. {k \in DOMAIN cache : ~Named(cache[k], q)} \in SUBSET (DOMAIN cache)
      OBVIOUS
    <3> QED
      BY <3>1, <3>2, <1>3, KeptMembers DEF Without
  <2> QED
    BY <2>1, <2>2, <2>3, <2>4, <2>5, <1>2
<1>5. queries' \in Seq(Asked(ever))
  BY <1>1, RemoveType DEF State
<1> QED
  BY <1>1, <1>4, <1>5, Zenon DEF State

LEMMA InitState == Init => State
<1> SUFFICES ASSUME Init PROVE State
  OBVIOUS
<1>1. /\ ever = {Letter(m) : m \in ToSet(table)} /\ cache = <<>> /\ queries = <<List>> /\ commands = 0
      /\ bypassed = FALSE /\ disorder = FALSE
  BY Zenon DEF Init
<1>2. table \in Seq(Good(ever))
  <2>1. CASE table = <<>>
    BY <2>1
  <2>2. CASE table /= <<>>
    <3>1. PICK p \in User \X (User \cup {All}) :
            table = <<[id |-> 1, from |-> p[1], to |-> p[2], text |-> 0, read |-> FALSE]>>
      BY <2>2 DEF Init
    <3> DEFINE m == [id |-> 1, from |-> p[1], to |-> p[2], text |-> 0, read |-> FALSE]
    <3>2. m \in Mails
      BY Numbers DEF Mails
    <3> HIDE DEF m
    <3>3. table = <<m>>
      BY <3>1 DEF m
    <3>4. m \in ToSet(table)
      BY <3>3 DEF ToSet
    <3>5. m \in Good(ever)
      BY <1>1, <3>2, <3>4 DEF Good
    <3> QED
      BY <3>3, <3>5
  <2> QED
    BY <2>1, <2>2
<1>3. queries \in Seq(Asked(ever))
  BY <1>1, AskTypes
<1>4. commands \in 0..MaxCommands /\ cache \in Seq(Good(ever))
  BY <1>1, Numbers
<1> QED
  BY <1>1, <1>2, <1>3, <1>4, Zenon DEF State

LEMMA StepState == State /\ [Next]_vars => State'
<1> SUFFICES ASSUME State, [Next]_vars PROVE State'
  OBVIOUS
<1>1. CASE UNCHANGED vars
  <2>1. /\ table' = table /\ cache' = cache /\ queries' = queries /\ commands' = commands
        /\ ever' = ever /\ bypassed' = bypassed /\ disorder' = disorder
    BY <1>1, Zenon DEF vars
  <2> QED
    BY <2>1, Zenon DEF State
<1> QED
  BY <1>1, CommandsState, ExecuteState, FailState, ConsumeState, Zenon DEF Next

\* However queries are reordered or fail, m_Mails shows only mail that the
\* database has accepted, and everything has its type.
THEOREM MailCorrect == Spec => []IInv
BY InitState, StepState, StateIInv, PTL DEF Spec

---------------------------------------------------------------------------
(* While m_Mails knew what the queries before did: the box, letter by letter *)

LEMMA SameSeq ==
  ASSUME NEW S, NEW s \in Seq(S), NEW t \in Seq(S), DOMAIN s = DOMAIN t,
         \A k \in DOMAIN s : s[k] = t[k]
  PROVE  s = t
<1>1. s = [k \in DOMAIN s |-> s[k]] /\ t = [k \in DOMAIN t |-> t[k]]
  OBVIOUS
<1> QED
  BY <1>1

Post == [id : Nat, from : User \cup {Hostbot}, to : User \cup {All}, text : 0..MaxCommands]
Letters(rows) == [k \in DOMAIN rows |-> Letter(rows[k])]

LEMMA LetterType ==
  /\ \A m \in Mails : /\ Letter(m) \in Post /\ Letter(m).id = m.id /\ Letter(m).from = m.from
                      /\ Letter(m).to = m.to /\ Letter(m).text = m.text
BY DEF Mails, Post, Letter

LEMMA LettersType ==
  ASSUME NEW rows \in Seq(Mails)
  PROVE  /\ Letters(rows) \in Seq(Post) /\ DOMAIN Letters(rows) = DOMAIN rows
         /\ Len(Letters(rows)) = Len(rows)
         /\ \A k \in DOMAIN rows : rows[k] \in Mails /\ Letters(rows)[k] = Letter(rows[k])
<1>1. Len(rows) \in Nat /\ DOMAIN rows = 1..Len(rows) /\ \A k \in DOMAIN rows : rows[k] \in Mails
  OBVIOUS
<1> DEFINE f == [k \in 1..Len(rows) |-> Letter(rows[k])]
<1>2. f \in [1..Len(rows) -> Post] /\ Letters(rows) = f
  BY <1>1, LetterType DEF Letters
<1> HIDE DEF f
<1>3. f \in Seq(Post) /\ Len(f) = Len(rows) /\ DOMAIN f = 1..Len(rows)
  BY <1>1, <1>2, FunctionSeq
<1>4. \A k \in DOMAIN rows : Letters(rows)[k] = Letter(rows[k])
  BY DEF Letters
<1> QED
  BY <1>1, <1>2, <1>3, <1>4

LEMMA LettersAppend ==
  ASSUME NEW rows \in Seq(Mails), NEW m \in Mails
  PROVE  Letters(Append(rows, m)) = Append(Letters(rows), Letter(m))
<1> DEFINE n == Len(rows)
           a == Append(rows, m)
           b == Append(Letters(rows), Letter(m))
<1>1. n \in Nat /\ a \in Seq(Mails) /\ DOMAIN a = 1..(n + 1)
  OBVIOUS
<1>2. /\ Letters(rows) \in Seq(Post) /\ Len(Letters(rows)) = n /\ Letter(m) \in Post
      /\ \A k \in DOMAIN rows : Letters(rows)[k] = Letter(rows[k])
  BY LettersType, LetterType
<1>3. b \in Seq(Post) /\ DOMAIN b = 1..(n + 1)
  BY <1>1, <1>2
<1>4. ASSUME NEW k \in 1..(n + 1) PROVE b[k] = Letter(a[k])
  BY <1>1, <1>2
<1> HIDE DEF a, b
<1>5. /\ Letters(a) \in Seq(Post) /\ DOMAIN Letters(a) = DOMAIN a
      /\ \A k \in DOMAIN a : Letters(a)[k] = Letter(a[k])
  BY <1>1, LettersType
<1>6. \A k \in DOMAIN Letters(a) : Letters(a)[k] = b[k]
  BY <1>1, <1>4, <1>5, Zenon
<1>7. DOMAIN Letters(a) = DOMAIN b
  BY <1>1, <1>3, <1>5
<1>8. Letters(a) = b
  BY <1>3, <1>5, <1>6, <1>7, SameSeq
<1> QED
  BY <1>8 DEF a, b

LEMMA LettersMarked ==
  ASSUME NEW rows \in Seq(Mails), NEW u
  PROVE  Letters(Marked(rows, u)) = Letters(rows)
<1> DEFINE e == {Letter(m) : m \in Mails}
<1>1. Mails \subseteq Good(e) /\ Good(e) \subseteq Mails
  BY DEF Good
<1> HIDE DEF e
<1>2. rows \in Seq(Good(e))
  BY <1>1
<1>3. /\ DOMAIN Marked(rows, u) = DOMAIN rows
      /\ \A k \in DOMAIN rows : Letter(Marked(rows, u)[k]) = Letter(rows[k])
  BY <1>2, MarkedRows
<1> HIDE DEF Letters
<1> QED
  BY <1>3 DEF Letters

LEMMA NamedLetter ==
  \A m, q : Named(Letter(m), q) <=> Named(m, q)
BY DEF Named, Letter

LEMMA LettersWithout ==
  ASSUME NEW rows \in Seq(Mails), NEW q
  PROVE  Without(rows, q) \in Seq(Mails) /\ Letters(Without(rows, q)) = Without(Letters(rows), q)
<1> DEFINE K == {k \in DOMAIN rows : ~Named(rows[k], q)}
           L == {k \in DOMAIN Letters(rows) : ~Named(Letters(rows)[k], q)}
<1>1. /\ Letters(rows) \in Seq(Post) /\ DOMAIN Letters(rows) = DOMAIN rows
      /\ \A k \in DOMAIN rows : Letters(rows)[k] = Letter(rows[k])
  BY LettersType
<1>2. L = K /\ K \in SUBSET (DOMAIN rows)
  BY <1>1, NamedLetter
<1>3. Without(rows, q) = Kept(rows, K) /\ Without(Letters(rows), q) = Kept(Letters(rows), L)
  BY Zenon DEF Without
<1> HIDE DEF K, L
<1> DEFINE a == Kept(rows, K)
           b == Kept(Letters(rows), K)
<1>4. /\ a \in Seq(Mails) /\ DOMAIN a = 1..Cardinality(K)
      /\ \A i \in DOMAIN a : Nth(K, i) \in K /\ a[i] = rows[Nth(K, i)]
  BY <1>2, KeptMembers
<1>5. /\ b \in Seq(Post) /\ DOMAIN b = 1..Cardinality(K)
      /\ \A i \in DOMAIN b : b[i] = Letters(rows)[Nth(K, i)]
  BY <1>1, <1>2, KeptMembers
<1> HIDE DEF a, b
<1>6. /\ Letters(a) \in Seq(Post) /\ DOMAIN Letters(a) = DOMAIN a
      /\ \A k \in DOMAIN a : Letters(a)[k] = Letter(a[k])
  BY <1>4, LettersType
<1>7. ASSUME NEW k \in DOMAIN a PROVE Letters(a)[k] = b[k]
  <2>1. Nth(K, k) \in DOMAIN rows /\ a[k] = rows[Nth(K, k)] /\ b[k] = Letters(rows)[Nth(K, k)]
    BY <1>2, <1>4, <1>5
  <2> QED
    BY <2>1, <1>1, <1>6, Zenon
<1>8. Letters(a) = b
  <2>1. DOMAIN Letters(a) = DOMAIN b /\ \A k \in DOMAIN Letters(a) : Letters(a)[k] = b[k]
    BY <1>4, <1>5, <1>6, <1>7, Zenon
  <2> QED
    BY <2>1, <1>5, <1>6, SameSeq
<1> QED
  BY <1>2, <1>3, <1>4, <1>8, Zenon DEF a, b

LEMMA SendedByDef ==
  \A u, rows : /\ SendedBy(u, rows) = Cardinality({k \in DOMAIN rows : rows[k].from = u})
               /\ ReceivedBy(u, rows) = Cardinality({k \in DOMAIN rows : rows[k].to = u})
BY DEF SendedBy, ReceivedBy, Count

LEMMA LettersCount ==
  ASSUME NEW rows \in Seq(Mails), NEW u
  PROVE  /\ SendedBy(u, Letters(rows)) = SendedBy(u, rows)
         /\ ReceivedBy(u, Letters(rows)) = ReceivedBy(u, rows)
<1> DEFINE box == Letters(rows)
<1>1. /\ DOMAIN box = DOMAIN rows
      /\ \A k \in DOMAIN rows : box[k].from = rows[k].from /\ box[k].to = rows[k].to
  BY LettersType, LetterType
<1> HIDE DEF box
<1>2. /\ {k \in DOMAIN box : box[k].from = u} = {k \in DOMAIN rows : rows[k].from = u}
      /\ {k \in DOMAIN box : box[k].to = u} = {k \in DOMAIN rows : rows[k].to = u}
  BY <1>1
<1> QED
  BY <1>2, SendedByDef, Zenon DEF box

LEMMA PositionsFinite ==
  ASSUME NEW S, NEW s \in Seq(S), NEW B \in SUBSET (DOMAIN s)
  PROVE  IsFiniteSet(B) /\ Cardinality(B) \in Nat
<1>1. IsFiniteSet(DOMAIN s)
  <2>1. Len(s) \in Nat /\ DOMAIN s = 1..Len(s)
    OBVIOUS
  <2> QED
    BY <2>1, FS_Interval
<1> QED
  BY <1>1, FS_Subset, FS_CardinalityType, Zenon

\* What is kept has no more members of a kind.
LEMMA KeptCount ==
  ASSUME NEW S, NEW s \in Seq(S), NEW K \in SUBSET (DOMAIN s),
         NEW A \in SUBSET (DOMAIN Kept(s, K)), NEW B \in SUBSET (DOMAIN s),
         \A i \in A : Nth(K, i) \in B
  PROVE  Cardinality(A) \in Nat /\ Cardinality(B) \in Nat /\ Cardinality(A) <= Cardinality(B)
<1>1. /\ Kept(s, K) \in Seq(S)
      /\ \A i, j \in DOMAIN Kept(s, K) : Nth(K, i) = Nth(K, j) => i = j
  BY KeptMembers
<1>2. IsFiniteSet(A) /\ IsFiniteSet(B) /\ Cardinality(A) \in Nat /\ Cardinality(B) \in Nat
  BY <1>1, PositionsFinite
<1> DEFINE f == [i \in A |-> Nth(K, i)]
<1>3. f \in [A -> B] /\ \A i, j \in A : f[i] = f[j] => i = j
  BY <1>1
<1> HIDE DEF f
<1>4. f \in Injection(A, B)
  BY <1>3 DEF Injection, IsInjective
<1> QED
  BY <1>2, <1>4, FS_Injection

\* Ids, announcements and limits in a box of letters, when c commands were given
\* and b says whether somebody wrote without a look at the limits.
Box(box, c, b) ==
  /\ \A j, k \in DOMAIN box :
       j /= k => box[j].id /= box[k].id /\ (box[j].to /= box[k].to \/ box[j].text /= box[k].text)
  /\ \A k \in DOMAIN box : box[k].text <= c
  /\ ~b => \A u \in User : SendedBy(u, box) <= MaxSended /\ ReceivedBy(u, box) <= MaxReceived

Fresh(l, box, c, b) ==
  /\ \A k \in DOMAIN box : box[k].id < l.id /\ (box[k].to /= l.to \/ box[k].text /= l.text)
  /\ l.text <= c
  /\ ~b => SendedBy(l.from, box) < MaxSended /\ ReceivedBy(l.to, box) < MaxReceived

LEMMA BoxGrows ==
  ASSUME NEW box \in Seq(Post), NEW c \in Nat, NEW d \in Nat, c <= d, NEW b \in BOOLEAN,
         NEW a \in BOOLEAN, b => a
  PROVE  /\ Box(box, c, b) => Box(box, d, a)
         /\ \A l \in Post : Fresh(l, box, c, b) => Fresh(l, box, d, a)
<1>1. /\ \A k \in DOMAIN box : box[k].text <= c => box[k].text <= d
      /\ \A l \in Post : l.text <= c => l.text <= d
  <2>1. \A k \in DOMAIN box : box[k].text \in Int
    <3>1. \A k \in DOMAIN box : box[k] \in Post
      OBVIOUS
    <3> QED
      BY <3>1 DEF Post
  <2>2. \A l \in Post : l.text \in Int
    BY DEF Post
  <2> QED
    BY <2>1, <2>2
<1>2. Box(box, c, b) => Box(box, d, a)
  BY <1>1, Zenon DEF Box
<1>3. \A l \in Post : Fresh(l, box, c, b) => Fresh(l, box, d, a)
  BY <1>1, Zenon DEF Fresh
<1> QED
  BY <1>2, <1>3

LEMMA BoxWithout ==
  ASSUME NEW box \in Seq(Post), NEW c, NEW b, Box(box, c, b), NEW q
  PROVE  Without(box, q) \in Seq(Post) /\ Box(Without(box, q), c, b)
<1> DEFINE K == {k \in DOMAIN box : ~Named(box[k], q)}
           R == Kept(box, K)
<1>1. K \in SUBSET (DOMAIN box) /\ Without(box, q) = R
  BY DEF Without
<1> HIDE DEF K
<1>2. /\ R \in Seq(Post) /\ \A i \in DOMAIN R : Nth(K, i) \in K /\ R[i] = box[Nth(K, i)]
      /\ \A i, j \in DOMAIN R : Nth(K, i) = Nth(K, j) => i = j
  BY <1>1, KeptMembers
<1>3. ASSUME NEW u PROVE SendedBy(u, R) <= SendedBy(u, box) /\ ReceivedBy(u, R) <= ReceivedBy(u, box)
  <2> DEFINE A == {i \in DOMAIN R : R[i].from = u}
             B == {k \in DOMAIN box : box[k].from = u}
             C == {i \in DOMAIN R : R[i].to = u}
             D == {k \in DOMAIN box : box[k].to = u}
  <2>1. /\ A \in SUBSET (DOMAIN R) /\ B \in SUBSET (DOMAIN box) /\ \A i \in A : Nth(K, i) \in B
        /\ C \in SUBSET (DOMAIN R) /\ D \in SUBSET (DOMAIN box) /\ \A i \in C : Nth(K, i) \in D
    <3> HIDE DEF R
    <3> QED
      BY <1>1, <1>2
  <2>2. /\ SendedBy(u, R) = Cardinality(A) /\ SendedBy(u, box) = Cardinality(B)
        /\ ReceivedBy(u, R) = Cardinality(C) /\ ReceivedBy(u, box) = Cardinality(D)
    BY SendedByDef, Zenon
  <2> HIDE DEF A, B, C, D
  <2>3. Cardinality(A) <= Cardinality(B)
    BY <1>1, <2>1, KeptCount
  <2>4. Cardinality(C) <= Cardinality(D)
    BY <1>1, <2>1, KeptCount
  <2> QED
    BY <2>2, <2>3, <2>4, Zenon
<1>4. ASSUME NEW u PROVE SendedBy(u, box) \in Nat /\ ReceivedBy(u, box) \in Nat
  <2> DEFINE B == {k \in DOMAIN box : box[k].from = u}
             D == {k \in DOMAIN box : box[k].to = u}
  <2>1. B \in SUBSET (DOMAIN box) /\ D \in SUBSET (DOMAIN box)
    OBVIOUS
  <2>2. SendedBy(u, box) = Cardinality(B) /\ ReceivedBy(u, box) = Cardinality(D)
    BY SendedByDef, Zenon
  <2> HIDE DEF B, D
  <2> QED
    BY <2>1, <2>2, PositionsFinite
<1>5. ASSUME NEW u PROVE SendedBy(u, R) \in Nat /\ ReceivedBy(u, R) \in Nat
  <2> DEFINE B == {k \in DOMAIN R : R[k].from = u}
             D == {k \in DOMAIN R : R[k].to = u}
  <2>1. B \in SUBSET (DOMAIN R) /\ D \in SUBSET (DOMAIN R)
    OBVIOUS
  <2>2. SendedBy(u, R) = Cardinality(B) /\ ReceivedBy(u, R) = Cardinality(D)
    BY SendedByDef, Zenon
  <2> HIDE DEF B, D, R
  <2> QED
    BY <1>2, <2>1, <2>2, PositionsFinite
<1> HIDE DEF R
<1>6. ASSUME NEW u, SendedBy(u, box) <= MaxSended, ReceivedBy(u, box) <= MaxReceived
      PROVE  SendedBy(u, R) <= MaxSended /\ ReceivedBy(u, R) <= MaxReceived
  BY <1>3, <1>4, <1>5, <1>6, Numbers
<1>7. \A i \in DOMAIN R : Nth(K, i) \in DOMAIN box /\ R[i] = box[Nth(K, i)]
  BY <1>1, <1>2
<1>8. Box(R, c, b)
  <2>1. ASSUME NEW j \in DOMAIN R, NEW k \in DOMAIN R, j /= k
        PROVE  R[j].id /= R[k].id /\ (R[j].to /= R[k].to \/ R[j].text /= R[k].text)
    <3> DEFINE x == Nth(K, j)
               y == Nth(K, k)
    <3>1. x \in DOMAIN box /\ y \in DOMAIN box /\ x /= y /\ R[j] = box[x] /\ R[k] = box[y]
      BY <1>2, <1>7, <2>1, Zenon
    <3> HIDE DEF x, y
    <3> QED
      BY <3>1 DEF Box
  <2>2. \A k \in DOMAIN R : R[k].text <= c
    BY <1>7, Zenon DEF Box
  <2> QED
    BY <1>6, <2>1, <2>2, Zenon DEF Box
<1> QED
  BY <1>1, <1>2, <1>8

LEMMA BoxAppend ==
  ASSUME NEW box \in Seq(Post), NEW l \in Post, NEW c, NEW b, Box(box, c, b), Fresh(l, box, c, b)
  PROVE  Box(Append(box, l), c, b)
<1> DEFINE n == Len(box)
           a == Append(box, l)
<1>1. /\ n \in Nat /\ DOMAIN box = 1..n /\ a \in Seq(Post) /\ DOMAIN a = (1..n) \cup {n + 1}
      /\ \A k \in 1..n : a[k] = box[k] /\ k /= n + 1 /\ box[k] \in Post
      /\ a[n + 1] = l
  OBVIOUS
<1>2. \A k \in 1..n : box[k].id /= l.id
  <2>1. \A k \in 1..n : box[k].id \in Int /\ l.id \in Int
    BY <1>1 DEF Post
  <2>2. \A k \in 1..n : box[k].id < l.id
    BY <1>1, Zenon DEF Fresh
  <2> QED
    BY <2>1, <2>2
<1> HIDE DEF n, a
<1>3. ASSUME NEW j \in DOMAIN a, NEW k \in DOMAIN a, j /= k
      PROVE  a[j].id /= a[k].id /\ (a[j].to /= a[k].to \/ a[j].text /= a[k].text)
  <2>1. CASE j \in 1..n /\ k \in 1..n
    <3>1. j \in DOMAIN box /\ k \in DOMAIN box /\ a[j] = box[j] /\ a[k] = box[k]
      BY <2>1, <1>1
    <3> HIDE DEF Post
    <3> QED
      BY <3>1, <1>3 DEF Box
  <2>2. CASE j \in 1..n /\ k = n + 1
    <3>1. j \in DOMAIN box /\ a[j] = box[j] /\ a[k] = l
      BY <2>2, <1>1
    <3> QED
      BY <3>1, <2>2, <1>2 DEF Fresh
  <2>3. CASE j = n + 1 /\ k \in 1..n
    <3>1. k \in DOMAIN box /\ a[k] = box[k] /\ a[j] = l
      BY <2>3, <1>1
    <3> QED
      BY <3>1, <2>3, <1>2 DEF Fresh
  <2>4. (j \in 1..n \/ j = n + 1) /\ (k \in 1..n \/ k = n + 1)
    BY <1>1
  <2> QED
    BY <1>3, <2>1, <2>2, <2>3, <2>4, Zenon
<1>4. \A k \in DOMAIN a : a[k].text <= c
  BY <1>1, Zenon DEF Box, Fresh
<1>5. ASSUME ~b, NEW u \in User
      PROVE  SendedBy(u, a) <= MaxSended /\ ReceivedBy(u, a) <= MaxReceived
  <2>1. /\ SendedBy(u, box) <= MaxSended /\ ReceivedBy(u, box) <= MaxReceived
        /\ SendedBy(l.from, box) < MaxSended /\ ReceivedBy(l.to, box) < MaxReceived
    BY <1>5, Zenon DEF Box, Fresh
  <2> DEFINE B == {k \in DOMAIN box : box[k].from = u}
             D == {k \in DOMAIN box : box[k].to = u}
             A == {k \in DOMAIN a : a[k].from = u}
             C == {k \in DOMAIN a : a[k].to = u}
  <2>2. /\ A = (IF l.from = u THEN B \cup {n + 1} ELSE B)
        /\ C = (IF l.to = u THEN D \cup {n + 1} ELSE D)
        /\ n + 1 \notin B /\ n + 1 \notin D
    BY <1>1
  <2>3. /\ SendedBy(u, a) = Cardinality(A) /\ SendedBy(u, box) = Cardinality(B)
        /\ ReceivedBy(u, a) = Cardinality(C) /\ ReceivedBy(u, box) = Cardinality(D)
    BY SendedByDef, Zenon
  <2>4. B \in SUBSET (DOMAIN box) /\ D \in SUBSET (DOMAIN box)
    OBVIOUS
  <2> HIDE DEF A, B, C, D
  <2>5. /\ IsFiniteSet(B) /\ Cardinality(B) \in Nat /\ IsFiniteSet(D) /\ Cardinality(D) \in Nat
    BY <2>4, PositionsFinite
  <2>6. Cardinality(B \cup {n + 1}) = Cardinality(B) + 1 /\ Cardinality(D \cup {n + 1}) = Cardinality(D) + 1
    BY <2>2, <2>5, FS_AddElement
  <2>7. SendedBy(u, a) <= MaxSended
    <3>1. CASE l.from = u
      <4>1. Cardinality(A) = Cardinality(B) + 1 /\ Cardinality(B) < MaxSended
        BY <3>1, <2>1, <2>2, <2>3, <2>6
      <4> QED
        BY <4>1, <2>3, <2>5, Numbers
    <3>2. CASE l.from /= u
      BY <3>2, <2>1, <2>2, <2>3
    <3> QED
      BY <3>1, <3>2
  <2>8. ReceivedBy(u, a) <= MaxReceived
    <3>1. CASE l.to = u
      <4>1. Cardinality(C) = Cardinality(D) + 1 /\ Cardinality(D) < MaxReceived
        BY <3>1, <2>1, <2>2, <2>3, <2>6
      <4> QED
        BY <4>1, <2>3, <2>5, Numbers
    <3>2. CASE l.to /= u
      BY <3>2, <2>1, <2>2, <2>3
    <3> QED
      BY <3>1, <3>2
  <2> QED
    BY <2>7, <2>8
<1> QED
  BY <1>3, <1>4, <1>5, Zenon DEF Box, a

---------------------------------------------------------------------------
(* Between the table and m_Mails there is at most one query that changes   *)
(* letters or loads a list.                                                *)

Pending(q, box, copy, c, b) ==
  \/ q.op = "readed" /\ q.stage \in {"sent", "done"}
  \/ q.op = "add" /\ q.stage = "sent" /\ copy = box /\ Fresh(Letter(q.mail), box, c, b)
  \/ q.op = "add" /\ q.stage = "done" /\ box = Append(copy, Letter(q.mail))
  \/ q.op = "remove" /\ q.stage = "sent" /\ copy = box
  \/ q.op = "remove" /\ q.stage = "done" /\ box = Without(copy, q)
  \/ q.op = "list" /\ q.stage = "sent"
  \/ q.op = "list" /\ q.stage = "done" /\ Letters(q.rows) = box

AllReaded(qs) == \A k \in DOMAIN qs : qs[k].op = "readed"

InOrder(box, copy, qs, c, b) ==
  /\ Box(box, c, b)
  /\ \A k \in DOMAIN qs : Pending(qs[k], box, copy, c, b)
  /\ \A j, k \in DOMAIN qs : qs[j].op /= "readed" /\ qs[k].op /= "readed" => j = k
  /\ AllReaded(qs) => copy = box

OrderInv == ~disorder => InOrder(Letters(table), Letters(cache), queries, commands, bypassed)

\* The letters of the table and of m_Mails have their type.
LEMMA StateLetters ==
  ASSUME State
  PROVE  /\ table \in Seq(Mails) /\ cache \in Seq(Mails) /\ DOMAIN queries = 1..Len(queries)
         /\ Len(queries) \in Nat
         /\ Letters(table) \in Seq(Post) /\ Letters(cache) \in Seq(Post)
         /\ commands \in Nat /\ bypassed \in BOOLEAN /\ disorder \in BOOLEAN
<1>1. Good(ever) \subseteq Mails
  BY DEF Good
<1>2. table \in Seq(Mails) /\ cache \in Seq(Mails)
  BY <1>1 DEF State
<1>3. Letters(table) \in Seq(Post) /\ Letters(cache) \in Seq(Post)
  BY <1>2, LettersType
<1>4. commands \in Nat
  BY Numbers DEF State
<1>5. DOMAIN queries = 1..Len(queries) /\ Len(queries) \in Nat
  BY DEF State
<1> QED
  BY <1>2, <1>3, <1>4, <1>5, Zenon DEF State

\* In order, commands are only given to a box that m_Mails knows.
LEMMA Known ==
  ASSUME State, OrderInv, ~disorder, queries = <<>>
  PROVE  Letters(cache) = Letters(table) /\ Box(Letters(table), commands, bypassed)
<1>1. AllReaded(queries)
  <2>1. DOMAIN queries = {}
    OBVIOUS
  <2> QED
    BY <2>1, Zenon DEF AllReaded
<1> QED
  BY <1>1, Zenon DEF OrderInv, InOrder

LEMMA IssueOrder ==
  ASSUME State, OrderInv, NEW qs \in Seq(Asked(ever)), Issue(qs), State',
         Letters(cache') = Letters(cache), bypassed => bypassed',
         Len(qs) = 1 \/ \A k \in DOMAIN qs : qs[k].op \in {"add", "readed"},
         ~disorder' => \A k \in DOMAIN qs :
           /\ qs[k].stage = "sent" /\ qs[k].op \in {"add", "readed", "remove"}
           /\ qs[k].op = "add" => Fresh(Letter(qs[k].mail), Letters(table), commands', bypassed')
  PROVE  OrderInv'
<1> SUFFICES ASSUME ~disorder' PROVE OrderInv'
  BY DEF OrderInv
<1>1. /\ ~disorder /\ queries = <<>> /\ ~(Adds(qs) > 1) /\ queries' = <<>> \o qs /\ table' = table
      /\ commands' = commands + 1
  BY Zenon DEF Issue
<1>2. queries' = qs
  BY <1>1
<1>3. Letters(cache) = Letters(table) /\ Box(Letters(table), commands, bypassed)
  BY <1>1, Known
<1> DEFINE box == Letters(table)
           copy == Letters(cache')
<1>4. Box(box, commands', bypassed')
  <2>1. commands \in Nat /\ commands' \in Nat /\ commands <= commands'
    BY <1>1, StateLetters
  <2>2. bypassed \in BOOLEAN /\ bypassed' \in BOOLEAN
    BY StateLetters, Zenon DEF State
  <2> QED
    BY <1>3, <2>1, <2>2, StateLetters, BoxGrows
<1>5. Letters(table') = box /\ copy = box
  BY <1>1, <1>3
<1>6. ASSUME NEW k \in DOMAIN qs PROVE Pending(qs[k], box, copy, commands', bypassed')
  <2>1. /\ qs[k].stage = "sent" /\ qs[k].op \in {"add", "readed", "remove"}
        /\ qs[k].op = "add" => Fresh(Letter(qs[k].mail), box, commands', bypassed')
    BY Zenon
  <2> HIDE DEF box, copy
  <2> QED
    BY <1>5, <2>1 DEF Pending
<1>7. ASSUME NEW j \in DOMAIN qs, NEW k \in DOMAIN qs, qs[j].op /= "readed", qs[k].op /= "readed"
      PROVE  j = k
  <2>1. CASE Len(qs) = 1
    <3>1. DOMAIN qs = 1..Len(qs)
      OBVIOUS
    <3> QED
      BY <2>1, <3>1
  <2>2. CASE \A i \in DOMAIN qs : qs[i].op \in {"add", "readed"}
    <3> DEFINE A == {i \in DOMAIN qs : qs[i].op = "add"}
    <3>1. j \in A /\ k \in A /\ A \in SUBSET (DOMAIN qs)
      BY <1>7, <2>2
    <3>2. Adds(qs) = Cardinality(A)
      BY DEF Adds, Count
    <3> HIDE DEF A
    <3>3. IsFiniteSet(A) /\ Cardinality(A) \in Nat
      BY <3>1, PositionsFinite
    <3>4. Cardinality({j}) = 1 /\ {j} \in SUBSET A
      BY <3>1, FS_Singleton
    <3>5. Cardinality({j}) <= Cardinality(A) /\ (Cardinality({j}) = Cardinality(A) => {j} = A)
      BY <3>3, <3>4, FS_Subset
    <3>6. {j} = A
      BY <1>1, <3>2, <3>3, <3>4, <3>5
    <3> QED
      BY <3>1, <3>6
  <2> QED
    BY <2>1, <2>2, Zenon
<1> HIDE DEF box, copy
<1>8. InOrder(box, copy, qs, commands', bypassed')
  BY <1>4, <1>5, <1>6, <1>7, Zenon DEF InOrder
<1>9. InOrder(Letters(table'), Letters(cache'), queries', commands', bypassed')
  BY <1>2, <1>5, <1>8, Zenon DEF copy
<1> QED
  BY <1>9, Zenon DEF OrderInv

\* What a new mail must keep to.
LEMMA NewMail ==
  ASSUME State, OrderInv, ~disorder, queries = <<>>,
         NEW from \in User \cup {Hostbot}, NEW to \in User \cup {All}, NEW text \in 0..MaxCommands,
         \A k \in DOMAIN cache : cache[k].to /= to \/ cache[k].text /= text,
         NEW c, text <= c, NEW b,
         ~b => SendedBy(from, cache) < MaxSended /\ ReceivedBy(to, cache) < MaxReceived
  PROVE  Fresh(Letter(Mail(from, to, text)), Letters(table), c, b)
<1> DEFINE m == Mail(from, to, text)
           box == Letters(cache)
<1>1. box = Letters(table)
  BY Known
<1>2. /\ cache \in Seq(Mails) /\ m \in Mails /\ m.id = MailId + 1 /\ m.from = from /\ m.to = to /\ m.text = text
      /\ MailId \in Nat /\ \A k \in DOMAIN cache : cache[k].id <= MailId
  <2>1. cache \in Seq(Mails)
    BY StateLetters
  <2>2. m.id = MailId + 1 /\ m.from = from /\ m.to = to /\ m.text = text
    BY DEF Mail, NextId
  <2> QED
    BY <2>1, <2>2, MailType, MailIdType
<1> HIDE DEF m, box
<1>3. Letter(m).id = MailId + 1 /\ Letter(m).from = from /\ Letter(m).to = to /\ Letter(m).text = text
  BY <1>2, LetterType
<1>4. /\ DOMAIN box = DOMAIN cache
      /\ \A k \in DOMAIN cache : /\ cache[k].id \in Nat /\ box[k].id = cache[k].id
                                 /\ box[k].to = cache[k].to /\ box[k].text = cache[k].text
      /\ SendedBy(from, box) = SendedBy(from, cache) /\ ReceivedBy(to, box) = ReceivedBy(to, cache)
  <2>1. /\ DOMAIN box = DOMAIN cache
        /\ \A k \in DOMAIN cache : cache[k] \in Mails /\ box[k] = Letter(cache[k])
    BY <1>2, LettersType DEF box
  <2>2. \A k \in DOMAIN cache : /\ cache[k].id \in Nat /\ box[k].id = cache[k].id
                                /\ box[k].to = cache[k].to /\ box[k].text = cache[k].text
    BY <2>1, LetterType DEF Mails
  <2>3. SendedBy(from, box) = SendedBy(from, cache) /\ ReceivedBy(to, box) = ReceivedBy(to, cache)
    BY <1>2, LettersCount DEF box
  <2> QED
    BY <2>1, <2>2, <2>3
<1>5. \A k \in DOMAIN box : box[k].id < Letter(m).id
  BY <1>2, <1>3, <1>4
<1>6. \A k \in DOMAIN box : box[k].to /= Letter(m).to \/ box[k].text /= Letter(m).text
  BY <1>3, <1>4
<1>7. Fresh(Letter(m), box, c, b)
  BY <1>3, <1>4, <1>5, <1>6, Zenon DEF Fresh
<1> QED
  BY <1>1, <1>7, Zenon DEF m

\* No mail in the box has the number of the command that is given now.
LEMMA NewText ==
  ASSUME State, OrderInv, ~disorder, queries = <<>>
  PROVE  \A k \in DOMAIN cache : cache[k].text <= commands /\ cache[k].text /= commands + 1
<1>1. Letters(cache) = Letters(table) /\ Box(Letters(table), commands, bypassed)
  BY Known
<1>2. cache \in Seq(Mails) /\ commands \in Nat
  BY StateLetters
<1>3. ASSUME NEW k \in DOMAIN cache PROVE cache[k].text <= commands /\ cache[k].text \in Nat
  <2> DEFINE box == Letters(cache)
  <2>1. DOMAIN box = DOMAIN cache /\ cache[k] \in Mails /\ box[k] = Letter(cache[k])
    BY <1>2, LettersType
  <2>2. box[k].text = cache[k].text /\ cache[k].text \in Nat
    BY <2>1, LetterType DEF Mails
  <2> HIDE DEF box
  <2>3. Box(box, commands, bypassed)
    BY <1>1, Zenon DEF box
  <2>4. box[k].text <= commands
    BY <2>1, <2>3, Zenon DEF Box
  <2> QED
    BY <2>2, <2>4
<1> QED
  BY <1>2, <1>3

LEMMA RefreshParts ==
  ASSUME Refresh \/ DailyRefresh, ~disorder'
  PROVE  /\ ~disorder /\ queries = <<>> /\ queries' = <<List>>
         /\ table' = table /\ cache' = cache /\ bypassed' = bypassed /\ shown' = shown
<1> DEFINE K == {k \in DOMAIN queries : queries[k].op /= "list"}
           first == <<List>>
<1>1. /\ ~disorder /\ queries = <<>> /\ (queries' = first \o Kept(queries, K) \/ queries' = first \o queries)
      /\ table' = table /\ cache' = cache /\ bypassed' = bypassed /\ shown' = shown
  BY Zenon DEF Refresh, DailyRefresh
<1>2. K = {} /\ K \in SUBSET (DOMAIN queries)
  BY <1>1
<1>3. Cardinality(K) = 0
  BY <1>2, FS_EmptySet
<1> HIDE DEF K
<1>4. Kept(queries, K) \in Seq({1}) /\ DOMAIN Kept(queries, K) = 1..0
  <2>1. queries \in Seq({1})
    BY <1>1
  <2> QED
    BY <1>2, <1>3, <2>1, KeptMembers
<1> DEFINE rest == Kept(queries, K)
<1> HIDE DEF rest
<1>5. rest = <<>>
  <2>1. rest \in Seq({1}) /\ DOMAIN rest = 1..0
    BY <1>4 DEF rest
  <2> QED
    BY <2>1
<1>6. queries' = first
  BY <1>1, <1>5 DEF rest
<1> QED
  BY <1>1, <1>6

LEMMA RefreshOrder ==
  ASSUME State, OrderInv, State', Refresh \/ DailyRefresh
  PROVE  OrderInv'
<1> SUFFICES ASSUME ~disorder' PROVE OrderInv'
  BY DEF OrderInv
<1> DEFINE first == <<List>>
<1>1. /\ ~disorder /\ queries = <<>> /\ queries' = first
      /\ table' = table /\ cache' = cache /\ bypassed' = bypassed
  BY RefreshParts
<1>2. commands' \in Nat /\ commands \in Nat /\ commands <= commands'
  <2>1. commands' = commands \/ commands' = commands + 1
    BY Zenon DEF Refresh, DailyRefresh
  <2> QED
    BY <2>1, StateLetters
<1>3. first = <<List>> /\ DOMAIN first = {1} /\ first[1] = List
  OBVIOUS
<1> HIDE DEF first
<1>4. Box(Letters(table), commands', bypassed')
  <2>1. bypassed \in BOOLEAN /\ bypassed' \in BOOLEAN /\ (bypassed => bypassed')
    BY <1>1, StateLetters, Zenon
  <2>2. Letters(table) \in Seq(Post) /\ Box(Letters(table), commands, bypassed)
    BY <1>1, Known, StateLetters
  <2> QED
    BY <1>2, <2>1, <2>2, BoxGrows
<1>5. List.op = "list" /\ List.stage = "sent"
  BY DEF List, Ask
<1>6. \A box, copy : Pending(List, box, copy, commands', bypassed')
  BY <1>5, Zenon DEF Pending
<1>7. ~AllReaded(first)
  BY <1>3, <1>5 DEF AllReaded
<1>8. InOrder(Letters(table'), Letters(cache'), queries', commands', bypassed')
  <2>1. \A j, k \in DOMAIN first : j = k
    BY <1>3
  <2>2. \A k \in DOMAIN first : first[k] = List
    BY <1>3
  <2>3. InOrder(Letters(table), Letters(cache'), first, commands', bypassed')
    BY <1>4, <1>6, <1>7, <2>1, <2>2, Zenon DEF InOrder
  <2> QED
    BY <1>1, <2>3, Zenon
<1> QED
  BY <1>8, Zenon DEF OrderInv

\* Who is not at a limit is below it.
LEMMA BelowLimit ==
  ASSUME State, OrderInv, ~disorder, queries = <<>>, ~bypassed, NEW u \in User
  PROVE  /\ ~SendedMax(u) => SendedBy(u, cache) < MaxSended
         /\ ~ReceivedMax(u) => ReceivedBy(u, cache) < MaxReceived
<1> DEFINE B == {k \in DOMAIN cache : cache[k].from = u}
           D == {k \in DOMAIN cache : cache[k].to = u}
<1>1. cache \in Seq(Mails) /\ Letters(cache) = Letters(table) /\ Box(Letters(table), commands, bypassed)
  BY Known, StateLetters
<1>2. SendedBy(u, cache) = Cardinality(B) /\ ReceivedBy(u, cache) = Cardinality(D)
  BY SendedByDef, Zenon
<1>3. B \in SUBSET (DOMAIN cache) /\ D \in SUBSET (DOMAIN cache)
  OBVIOUS
<1> HIDE DEF B, D
<1>4. SendedBy(u, cache) \in Nat /\ ReceivedBy(u, cache) \in Nat
  BY <1>1, <1>2, <1>3, PositionsFinite
<1>5. SendedBy(u, Letters(cache)) <= MaxSended /\ ReceivedBy(u, Letters(cache)) <= MaxReceived
  BY <1>1, Zenon DEF Box
<1>6. SendedBy(u, cache) <= MaxSended /\ ReceivedBy(u, cache) <= MaxReceived
  BY <1>1, <1>5, LettersCount
<1> QED
  BY <1>4, <1>6, Numbers DEF SendedMax, ReceivedMax

LEMMA AskFields ==
  /\ \A m : Add(m).op = "add" /\ Add(m).stage = "sent" /\ Add(m).mail = m
  /\ \A u : Readed(u).op = "readed" /\ Readed(u).stage = "sent" /\ Readed(u).mail.to = u
  /\ \A u, id : Delete(u, id).op = "remove" /\ Delete(u, id).stage = "sent"
BY DEF Add, Readed, Delete, Ask, NoMail

LEMMA MailOrder ==
  ASSUME State, OrderInv, State', NEW u \in User, NEW v \in User \cup {All}, NEW c \in 0..MaxCommands,
         c = commands', bypassed => bypassed', Issue(<<Add(Mail(u, v, c))>>), cache' = cache,
         ~bypassed' => v \in User /\ ~SendedMax(u) /\ ~ReceivedMax(v)
  PROVE  OrderInv'
<1> DEFINE m == Mail(u, v, c)
           qs == <<Add(m)>>
<1>1. cache \in Seq(Mails) /\ Letters(cache') = Letters(cache)
  BY StateLetters
<1>2. m \in Mails /\ ~m.read
  BY <1>1, MailType
<1>3. Issue(qs) /\ qs \in Seq(Asked(ever)) /\ Len(qs) = 1 /\ DOMAIN qs = {1} /\ qs[1] = Add(m)
  BY <1>2, AskTypes
<1>4. ASSUME ~disorder' PROVE Fresh(Letter(m), Letters(table), commands', bypassed')
  <2>1. ~disorder /\ queries = <<>> /\ commands' = commands + 1
    BY <1>3, <1>4, Zenon DEF Issue
  <2>2. c \in Nat /\ c <= commands' /\ commands' \in Nat
    BY Numbers
  <2>3. \A k \in DOMAIN cache : cache[k].to /= v \/ cache[k].text /= c
    BY <2>1, NewText
  <2>4. ~bypassed' => SendedBy(u, cache) < MaxSended /\ ReceivedBy(v, cache) < MaxReceived
    BY <2>1, BelowLimit
  <2> QED
    BY <2>1, <2>2, <2>3, <2>4, NewMail
<1> HIDE DEF m
<1>5. \A k \in DOMAIN qs : qs[k].stage = "sent" /\ qs[k].op = "add" /\ qs[k].mail = m
  BY <1>3, AskFields
<1> HIDE DEF qs
<1> QED
  BY <1>1, <1>3, <1>4, <1>5, IssueOrder

LEMMA ConcatOne ==
  ASSUME NEW S, NEW s \in Seq(S), NEW x \in S
  PROVE  /\ s \o <<x>> \in Seq(S) /\ DOMAIN (s \o <<x>>) = (1..Len(s)) \cup {Len(s) + 1}
         /\ (s \o <<x>>)[Len(s) + 1] = x
         /\ \A k \in 1..Len(s) : (s \o <<x>>)[k] = s[k]
OBVIOUS

LEMMA JoinOrder ==
  ASSUME State, OrderInv, State', NEW u \in User, Join(u)
  PROVE  OrderInv'
<1> DEFINE n == Len(News(u))
           qs == Copies(u) \o <<Readed(u)>>
           add(k) == Add(Mail(News(u)[k].from, u, News(u)[k].text))
<1>1. /\ Issue(qs) /\ bypassed' = (bypassed \/ News(u) /= <<>>)
      /\ cache' = cache \/ cache' = Marked(cache, u)
  BY JoinParts, Zenon
<1>2. /\ News(u) \in Seq(Good(ever)) /\ Copies(u) \in Seq(Asked(ever)) /\ Len(Copies(u)) = n
      /\ n \in Nat /\ DOMAIN News(u) = 1..n
      /\ \A k \in 1..n : News(u)[k] \in ToSet(cache) /\ ~AlreadyReaded(u, News(u)[k].text)
  BY NewsType
<1>3. \A k \in 1..n : Copies(u)[k] = add(k)
  BY <1>2, Zenon DEF Copies
<1>4. /\ qs \in Seq(Asked(ever)) /\ DOMAIN qs = (1..n) \cup {n + 1} /\ qs[n + 1] = Readed(u)
      /\ \A k \in 1..n : qs[k] = Copies(u)[k]
  <2>1. Readed(u) \in Asked(ever)
    BY AskTypes
  <2> QED
    BY <1>2, <2>1, ConcatOne
<1>5. Letters(cache') = Letters(cache) /\ cache \in Seq(Mails)
  BY <1>1, StateLetters, LettersMarked
<1>6. ASSUME NEW k \in 1..n, ~disorder'
      PROVE  Fresh(Letter(Mail(News(u)[k].from, u, News(u)[k].text)), Letters(table), commands', bypassed')
  <2> DEFINE m == News(u)[k]
  <2>1. ~disorder /\ queries = <<>> /\ commands' = commands + 1
    BY <1>1, <1>6, Zenon DEF Issue
  <2>2. bypassed' = TRUE
    <3>1. News(u) /= <<>>
      BY <1>2
    <3> QED
      BY <3>1, <1>1, Zenon
  <2>3. PICK j \in DOMAIN cache : m = cache[j]
    BY <1>2, Zenon DEF ToSet
  <2>4. \A i \in DOMAIN cache : ~(cache[i].to = u /\ cache[i].text = m.text)
    <3>1. ~AlreadyReaded(u, m.text)
      BY <1>2
    <3> QED
      BY <3>1, Zenon DEF AlreadyReaded, ToSet
  <2>5. m \in Mails
    BY <2>3, <1>5
  <2>6. m.text \in 0..MaxCommands /\ m.from \in User \cup {Hostbot}
    BY <2>5 DEF Mails
  <2>7. m.text <= commands'
    <3>1. m.text <= commands /\ commands \in Nat
      BY <2>1, <2>3, NewText, StateLetters
    <3> QED
      BY <3>1, <2>1, <2>6, Numbers
  <2> HIDE DEF m
  <2>8. Fresh(Letter(Mail(m.from, u, m.text)), Letters(table), commands', bypassed')
    BY <2>1, <2>2, <2>4, <2>6, <2>7, NewMail
  <2> QED
    BY <2>8 DEF m
<1> HIDE DEF n, qs
<1>7. ASSUME NEW k \in DOMAIN qs
      PROVE  /\ qs[k].stage = "sent" /\ qs[k].op \in {"add", "readed"}
             /\ ~disorder' => (qs[k].op = "add" => Fresh(Letter(qs[k].mail), Letters(table), commands', bypassed'))
  <2>1. CASE k \in 1..n
    <3>1. qs[k] = add(k)
      BY <2>1, <1>3, <1>4, Zenon
    <3>2. /\ qs[k].op = "add" /\ qs[k].stage = "sent"
          /\ qs[k].mail = Mail(News(u)[k].from, u, News(u)[k].text)
      BY <3>1, AskFields, Zenon
    <3>3. "add" \in {"add", "readed"}
      OBVIOUS
    <3> QED
      BY <2>1, <3>2, <3>3, <1>6, Zenon
  <2>2. CASE k = n + 1
    <3>1. qs[k].op = "readed" /\ qs[k].stage = "sent"
      BY <2>2, <1>4, AskFields
    <3> QED
      BY <3>1
  <2> QED
    BY <2>1, <2>2, <1>4, Zenon
<1>8. bypassed => bypassed'
  BY <1>1, Zenon
<1> QED
  BY <1>1, <1>4, <1>5, <1>7, <1>8, IssueOrder

LEMMA HostbotOrder ==
  ASSUME State, OrderInv, State', HostbotMail
  PROVE  OrderInv'
<1> DEFINE n == Cardinality(Admin)
           add(k) == Add(Mail(Hostbot, SetToSeq(Admin)[k], commands'))
           qs == [k \in 1..n |-> add(k)]
<1>1. Issue(qs) /\ cache' = cache /\ bypassed' = TRUE
  BY Zenon DEF HostbotMail
<1>2. n \in Nat /\ \A k \in 1..n : SetToSeq(Admin)[k] \in User
  BY AdminSeq, NameAssumption
<1>3. cache \in Seq(Mails) /\ commands' \in 0..MaxCommands
  BY StateLetters DEF State
<1>4. ASSUME NEW k \in 1..n
      PROVE  /\ add(k) \in Asked(ever)
             /\ ~disorder' => Fresh(Letter(add(k).mail), Letters(table), commands', bypassed')
  <2> DEFINE v == SetToSeq(Admin)[k]
             c == commands'
             m == Mail(Hostbot, v, c)
  <2>1. v \in User /\ c \in 0..MaxCommands
    BY <1>2, <1>3
  <2> HIDE DEF v, c
  <2>2. m \in Mails /\ ~m.read
    BY <2>1, <1>3, MailType
  <2>3. ASSUME ~disorder' PROVE Fresh(Letter(m), Letters(table), c, bypassed')
    <3>1. ~disorder /\ queries = <<>> /\ c = commands + 1
      BY <1>1, <2>3, Zenon DEF Issue, c
    <3>2. \A j \in DOMAIN cache : cache[j].to /= v \/ cache[j].text /= c
      BY <3>1, NewText
    <3>3. c <= c
      BY <2>1, Numbers
    <3> QED
      BY <1>1, <2>1, <3>1, <3>2, <3>3, NewMail
  <2> HIDE DEF m
  <2>4. Add(m) \in Asked(ever) /\ Add(m).mail = m
    BY <2>2, AskTypes, AskFields
  <2>5. add(k) = Add(m) /\ commands' = c
    BY Zenon DEF m, v, c
  <2> HIDE DEF add
  <2> QED
    BY <2>3, <2>4, <2>5
<1>5. qs \in [1..n -> Asked(ever)] /\ \A k \in 1..n : qs[k] = add(k)
  BY <1>4
<1>6. \A k \in 1..n : add(k).op = "add" /\ add(k).stage = "sent"
  BY AskFields, Zenon
<1> HIDE DEF qs, add, n
<1>7. qs \in Seq(Asked(ever)) /\ DOMAIN qs = 1..n
  BY <1>2, <1>5, FunctionSeq
<1>8. Letters(cache') = Letters(cache)
  BY <1>1
<1> QED
  BY <1>1, <1>4, <1>5, <1>6, <1>7, <1>8, IssueOrder

LEMMA CommandsOrder ==
  ASSUME State, OrderInv, State', Commands \/ DailyRefresh
  PROVE  OrderInv'
<1>1. commands' \in 0..MaxCommands /\ cache \in Seq(Mails)
  BY StateLetters DEF State
<1>2. ASSUME NEW u \in User, NEW v \in User, MailCommand(u, v) PROVE OrderInv'
  <2> DEFINE c == commands'
  <2>1. /\ Issue(<<Add(Mail(u, v, c))>>) /\ cache' = cache /\ bypassed' = bypassed
        /\ ~SendedMax(u) /\ ~ReceivedMax(v)
    BY <1>2, Zenon DEF MailCommand
  <2>2. c \in 0..MaxCommands /\ c = commands'
    BY <1>1
  <2> HIDE DEF c
  <2> QED
    BY <2>1, <2>2, MailOrder
<1>3. ASSUME NEW u \in User, AnnMail(u) PROVE OrderInv'
  <2> DEFINE c == commands'
  <2>1. Issue(<<Add(Mail(u, All, c))>>) /\ cache' = cache /\ bypassed' = TRUE
    BY <1>3, Zenon DEF AnnMail
  <2>2. c \in 0..MaxCommands /\ c = commands'
    BY <1>1
  <2> HIDE DEF c
  <2> QED
    BY <2>1, <2>2, MailOrder
<1>4. ASSUME NEW u \in User, Mailbox(u) PROVE OrderInv'
  <2> DEFINE qs == <<Readed(u)>>
  <2>1. Issue(qs) /\ bypassed' = bypassed /\ cache' = Marked(cache, u)
    BY <1>4, MarkIsMarked, Zenon DEF Mailbox
  <2>2. qs \in Seq(Asked(ever)) /\ Len(qs) = 1 /\ \A k \in DOMAIN qs : qs[k] = Readed(u)
    BY AskTypes
  <2>3. Letters(cache') = Letters(cache)
    BY <2>1, <1>1, LettersMarked
  <2>4. \A k \in DOMAIN qs : qs[k].op = "readed" /\ qs[k].stage = "sent"
    BY <2>2, AskFields, Zenon
  <2> HIDE DEF qs
  <2> QED
    BY <2>1, <2>2, <2>3, <2>4, IssueOrder
<1>5. ASSUME NEW u \in User, NEW id \in 1..(MailId + 1), DelMail(u, id) PROVE OrderInv'
  <2> DEFINE qs == <<Delete(u, id)>>
  <2>1. Issue(qs) /\ bypassed' = bypassed /\ cache' = cache
    BY <1>5, Zenon DEF DelMail
  <2>2. id \in Nat
    BY <1>1, MailIdType
  <2>3. qs \in Seq(Asked(ever)) /\ Len(qs) = 1 /\ \A k \in DOMAIN qs : qs[k] = Delete(u, id)
    BY <2>2, AskTypes
  <2>4. Letters(cache') = Letters(cache)
    BY <2>1
  <2>5. \A k \in DOMAIN qs : qs[k].op = "remove" /\ qs[k].stage = "sent"
    BY <2>3, AskFields
  <2> HIDE DEF qs
  <2> QED
    BY <2>1, <2>3, <2>4, <2>5, IssueOrder
<1> QED
  BY <1>2, <1>3, <1>4, <1>5, JoinOrder, HostbotOrder, RefreshOrder, Zenon DEF Commands

\* A query that only marks what was read is pending whatever the letters are.
LEMMA ReadedPending ==
  ASSUME NEW q, NEW box, NEW copy, NEW c, NEW b, Pending(q, box, copy, c, b), q.op = "readed",
         NEW box1, NEW copy1
  PROVE  Pending(q, box1, copy1, c, b)
BY DEF Pending

LEMMA SameWithout ==
  ASSUME NEW p, NEW q, p.mail = q.mail, NEW rows
  PROVE  Without(rows, p) = Without(rows, q)
BY DEF Without, Named

LEMMA ExecuteOrder ==
  ASSUME State, OrderInv, State', NEW i \in DOMAIN queries, Execute(i)
  PROVE  OrderInv'
<1> SUFFICES ASSUME ~disorder' PROVE OrderInv'
  BY DEF OrderInv
<1> DEFINE q == queries[i]
           rows == IF q.op = "list" THEN table ELSE <<>>
           done == [op |-> q.op, mail |-> q.mail, stage |-> "done", rows |-> rows]
           box == Letters(table)
           copy == Letters(cache)
           box1 == Letters(table')
           after == queries'
           c == commands
           b == bypassed
<1>1. /\ q.stage = "sent" /\ table' = Written(q) /\ after = [queries EXCEPT ![i] = done]
      /\ cache' = cache /\ commands' = c /\ bypassed' = b /\ ~disorder
  BY ExecuteParts, Zenon
<1>2. /\ q.op \in {"add", "readed", "remove", "list"} /\ (q.op = "add" => q.mail \in Mails)
  BY QueryType
<1>3. /\ Box(box, c, b) /\ (\A k \in DOMAIN queries : Pending(queries[k], box, copy, c, b))
      /\ (\A j, k \in DOMAIN queries : queries[j].op /= "readed" /\ queries[k].op /= "readed" => j = k)
      /\ (AllReaded(queries) => copy = box)
  BY <1>1, Zenon DEF OrderInv, InOrder
<1>4. /\ table \in Seq(Mails) /\ box \in Seq(Post) /\ copy \in Seq(Post)
  BY StateLetters
<1>5. /\ DOMAIN after = DOMAIN queries /\ after[i] = done
      /\ \A k \in DOMAIN queries : k /= i => after[k] = queries[k]
  <2> HIDE DEF done, after
  <2> QED
    BY <1>1
<1>6. done.op = q.op /\ done.mail = q.mail /\ done.stage = "done" /\ done.rows = rows
  OBVIOUS
<1>7. q.op = "list" => rows = table
  OBVIOUS
<1>8. Pending(q, box, copy, c, b)
  BY <1>3, Zenon
<1> HIDE DEF q, rows, done, box, copy, box1, after, c, b
<1>9. Box(box1, c, b) /\ Pending(done, box1, copy, c, b) /\ (q.op \in {"readed", "list"} => box1 = box)
  <2>1. CASE q.op = "readed"
    <3>1. table' = [k \in DOMAIN table |-> [table[k] EXCEPT !.read = @ \/ Marks(table[k], q)]]
      BY <2>1, <1>1 DEF Written
    <3>2. table' = Marked(table, q.mail.to)
      BY <3>1, Zenon DEF Marks, Marked
    <3>3. box1 = box
      BY <3>2, <1>4, LettersMarked DEF box, box1
    <3> QED
      BY <2>1, <3>3, <1>3, <1>6 DEF Pending
  <2>2. CASE q.op = "add"
    <3>1. table' = Append(table, q.mail)
      BY <2>2, <1>1 DEF Written
    <3>2. box1 = Append(box, Letter(q.mail)) /\ Letter(q.mail) \in Post
      BY <2>2, <3>1, <1>2, <1>4, LettersAppend, LetterType DEF box, box1
    <3>3. copy = box /\ Fresh(Letter(q.mail), box, c, b)
      BY <2>2, <1>1, <1>8 DEF Pending
    <3>4. Box(box1, c, b)
      BY <3>2, <3>3, <1>3, <1>4, BoxAppend
    <3>5. Pending(done, box1, copy, c, b)
      <4>1. box1 = Append(copy, Letter(done.mail))
        BY <3>2, <3>3, <1>6, Zenon
      <4> QED
        BY <2>2, <4>1, <1>6, Zenon DEF Pending
    <3> QED
      BY <2>2, <3>4, <3>5
  <2>3. CASE q.op = "remove"
    <3>1. table' = Without(table, q)
      BY <2>3, <1>1 DEF Written
    <3>2. box1 = Without(box, q)
      BY <3>1, <1>4, LettersWithout DEF box, box1
    <3>3. copy = box
      BY <2>3, <1>1, <1>8 DEF Pending
    <3>4. Box(box1, c, b)
      BY <3>2, <1>3, <1>4, BoxWithout
    <3>5. Pending(done, box1, copy, c, b)
      <4>1. Without(copy, done) = Without(copy, q)
        BY <1>6, SameWithout
      <4>2. box1 = Without(copy, done)
        BY <3>2, <3>3, <4>1, Zenon
      <4> QED
        BY <2>3, <4>2, <1>6, Zenon DEF Pending
    <3> QED
      BY <2>3, <3>4, <3>5
  <2>4. CASE q.op = "list"
    <3>1. table' = table
      BY <2>4, <1>1 DEF Written
    <3>2. box1 = box /\ Letters(done.rows) = box1
      BY <2>4, <3>1, <1>6, <1>7 DEF box, box1
    <3>3. Pending(done, box1, copy, c, b)
      BY <2>4, <3>2, <1>6, Zenon DEF Pending
    <3> QED
      BY <3>2, <3>3, <1>3
  <2> QED
    BY <2>1, <2>2, <2>3, <2>4, <1>2
<1>10. ASSUME NEW k \in DOMAIN queries PROVE Pending(after[k], box1, copy, c, b) /\ after[k].op = queries[k].op
  <2>1. CASE k = i
    <3>1. after[k] = done /\ queries[k].op = q.op
      BY <2>1, <1>5 DEF q
    <3> QED
      BY <3>1, <1>6, <1>9
  <2>2. CASE k /= i
    <3>1. after[k] = queries[k] /\ Pending(queries[k], box, copy, c, b)
      BY <2>2, <1>3, <1>5, Zenon
    <3>2. CASE q.op = "readed"
      BY <3>1, <3>2, <1>9
    <3>3. CASE q.op /= "readed"
      <4>1. queries[k].op = "readed"
        BY <2>2, <3>3, <1>3 DEF q
      <4> QED
        BY <3>1, <4>1, ReadedPending
    <3> QED
      BY <3>2, <3>3
  <2> QED
    BY <2>1, <2>2
<1>11. AllReaded(after) => copy = box1
  <2> SUFFICES ASSUME AllReaded(after) PROVE copy = box1
    OBVIOUS
  <2>1. AllReaded(queries)
    BY <1>5, <1>10, Zenon DEF AllReaded
  <2>2. q.op = "readed"
    BY <2>1, Zenon DEF AllReaded, q
  <2> QED
    BY <2>1, <2>2, <1>3, <1>9
<1>12. \A j, k \in DOMAIN after : after[j].op /= "readed" /\ after[k].op /= "readed" => j = k
  BY <1>3, <1>5, <1>10, Zenon
<1>13. InOrder(box1, copy, after, c, b)
  BY <1>5, <1>9, <1>10, <1>11, <1>12, Zenon DEF InOrder
<1>14. InOrder(Letters(table'), Letters(cache'), queries', commands', bypassed')
  BY <1>1, <1>13, Zenon DEF box1, copy, after, c, b
<1> QED
  BY <1>14, Zenon DEF OrderInv

LEMMA ConsumeOrder ==
  ASSUME State, OrderInv, State', NEW i \in DOMAIN queries, Consume(i)
  PROVE  OrderInv'
<1> SUFFICES ASSUME ~disorder' PROVE OrderInv'
  BY DEF OrderInv
<1> DEFINE q == queries[i]
           box == Letters(table)
           copy == Letters(cache)
           copy1 == Letters(cache')
           after == queries'
           c == commands
           b == bypassed
<1>1. /\ q.stage /= "sent" /\ cache' = Copied(q) /\ after = RemoveAt(queries, i)
      /\ table' = table /\ commands' = c /\ bypassed' = b /\ ~disorder
  BY Zenon DEF Consume
<1>2. /\ q.op \in {"add", "readed", "remove", "list"} /\ (q.op = "add" => q.mail \in Mails)
  BY QueryType
<1>3. /\ Box(box, c, b) /\ (\A k \in DOMAIN queries : Pending(queries[k], box, copy, c, b))
      /\ (\A j, k \in DOMAIN queries : queries[j].op /= "readed" /\ queries[k].op /= "readed" => j = k)
      /\ (AllReaded(queries) => copy = box)
  BY <1>1, Zenon DEF OrderInv, InOrder
<1>4. cache \in Seq(Mails) /\ queries \in Seq(Asked(ever))
  BY StateLetters DEF State
<1>5. PICK p \in [DOMAIN after -> DOMAIN queries \ {i}] :
        /\ \A j \in DOMAIN after : after[j] = queries[p[j]]
        /\ \A j, k \in DOMAIN after : p[j] = p[k] => j = k
        /\ \A k \in DOMAIN queries \ {i} : \E j \in DOMAIN after : p[j] = k
  <2>1. after = RemoveAt(queries, i)
    BY <1>1
  <2> HIDE DEF after
  <2> QED
    BY <1>4, <2>1, RemoveMembers
<1>6. \A j \in DOMAIN after : p[j] \in DOMAIN queries /\ p[j] /= i
  <2> HIDE DEF after
  <2> QED
    BY <1>5
<1>7. Pending(q, box, copy, c, b)
  BY <1>3, Zenon
<1> HIDE DEF q, box, copy, copy1, after, c, b
<1>8. IF q.op = "readed" THEN copy1 = copy ELSE copy1 = box
  <2>1. CASE q.op = "readed"
    <3>1. q.stage = "done"
      BY <2>1, <1>1, <1>7 DEF Pending
    <3>2. cache' = Marked(cache, q.mail.to)
      BY <2>1, <3>1, <1>1, MarkIsMarked DEF Copied, Applied
    <3>3. copy1 = copy
      BY <3>2, <1>4, LettersMarked DEF copy, copy1
    <3> QED
      BY <2>1, <3>3
  <2>2. CASE q.op = "add"
    <3>1. q.stage = "done" /\ box = Append(copy, Letter(q.mail))
      BY <2>2, <1>1, <1>7 DEF Pending
    <3>2. cache' = Append(cache, q.mail)
      BY <2>2, <3>1, <1>1 DEF Copied, Applied
    <3>3. copy1 = Append(copy, Letter(q.mail))
      BY <2>2, <3>2, <1>2, <1>4, LettersAppend DEF copy, copy1
    <3> QED
      BY <2>2, <3>1, <3>3
  <2>3. CASE q.op = "remove"
    <3>1. q.stage = "done" /\ box = Without(copy, q)
      BY <2>3, <1>1, <1>7 DEF Pending
    <3>2. cache' = Without(cache, q)
      BY <2>3, <3>1, <1>1 DEF Copied, Applied
    <3>3. copy1 = Without(copy, q)
      BY <3>2, <1>4, LettersWithout DEF copy, copy1
    <3> QED
      BY <2>3, <3>1, <3>3
  <2>4. CASE q.op = "list"
    <3>1. Letters(q.rows) = box
      BY <2>4, <1>1, <1>7 DEF Pending
    <3>2. cache' = q.rows
      BY <2>4, <1>1 DEF Copied, Loaded
    <3> QED
      BY <2>4, <3>1, <3>2 DEF copy1
  <2> QED
    BY <2>1, <2>2, <2>3, <2>4, <1>2
<1>9. ASSUME NEW k \in DOMAIN after PROVE Pending(after[k], box, copy1, c, b)
  <2>1. /\ after[k] = queries[p[k]] /\ Pending(queries[p[k]], box, copy, c, b)
    BY <1>3, <1>5, <1>6, Zenon
  <2>2. CASE q.op = "readed"
    BY <2>1, <2>2, <1>8
  <2>3. CASE q.op /= "readed"
    <3>1. queries[p[k]].op = "readed"
      BY <2>3, <1>3, <1>6, Zenon DEF q
    <3> QED
      BY <2>1, <3>1, ReadedPending
  <2> QED
    BY <2>2, <2>3
<1>10. AllReaded(after) => copy1 = box
  <2> SUFFICES ASSUME AllReaded(after), q.op = "readed" PROVE copy1 = box
    BY <1>8
  <2>1. ASSUME NEW k \in DOMAIN queries PROVE queries[k].op = "readed"
    <3>1. CASE k = i
      BY <3>1 DEF q
    <3>2. CASE k /= i
      <4>1. PICK j \in DOMAIN after : p[j] = k
        BY <3>2, <1>5, Zenon
      <4> QED
        BY <4>1, <1>5, Zenon DEF AllReaded
    <3> QED
      BY <3>1, <3>2
  <2>2. AllReaded(queries)
    BY <2>1, Zenon DEF AllReaded
  <2> QED
    BY <2>2, <1>3, <1>8
<1>11. ASSUME NEW j \in DOMAIN after, NEW k \in DOMAIN after, after[j].op /= "readed", after[k].op /= "readed"
       PROVE  j = k
  <2>1. after[j] = queries[p[j]] /\ after[k] = queries[p[k]] /\ p[j] \in DOMAIN queries /\ p[k] \in DOMAIN queries
    BY <1>5, <1>6, Zenon
  <2>2. p[j] = p[k]
    BY <2>1, <1>3, <1>11
  <2> QED
    BY <2>2, <1>5, Zenon
<1>12. InOrder(box, copy1, after, c, b)
  BY <1>3, <1>9, <1>10, <1>11, Zenon DEF InOrder
<1>13. InOrder(Letters(table'), Letters(cache'), queries', commands', bypassed')
  BY <1>1, <1>12, Zenon DEF box, copy1, after, c, b
<1> QED
  BY <1>13, Zenon DEF OrderInv

LEMMA InitOrder == Init => OrderInv
<1> SUFFICES ASSUME Init PROVE InOrder(Letters(table), Letters(cache), queries, commands, bypassed)
  BY DEF OrderInv
<1>1. queries = <<List>> /\ commands = 0
  BY Zenon DEF Init
<1> DEFINE box == Letters(table)
           P == {p \in User \X (User \cup {All}) : p[1] /= p[2]}
           m(p) == [id |-> 1, from |-> p[1], to |-> p[2], text |-> 0, read |-> FALSE]
<1>2. table = <<>> \/ \E p \in P : table = <<m(p)>>
  BY DEF Init
<1>3. DOMAIN box = DOMAIN table
  BY DEF Letters
<1>4. (\A j, k \in DOMAIN table : j = k) /\ DOMAIN table \subseteq {1}
  BY <1>2
<1>5. \A k \in DOMAIN box : box[k].text <= 0
  <2>1. \A k \in DOMAIN table : table[k].text = 0
    BY <1>2
  <2>2. \A k \in DOMAIN table : box[k].text = 0
    BY <2>1 DEF Letters, Letter
  <2> HIDE DEF box
  <2> QED
    BY <2>2, <1>3
<1> HIDE DEF box, P, m
<1>6. ASSUME NEW u PROVE SendedBy(u, box) <= 1 /\ ReceivedBy(u, box) <= 1
                         /\ SendedBy(u, box) \in Nat /\ ReceivedBy(u, box) \in Nat
  <2> DEFINE B == {k \in DOMAIN box : box[k].from = u}
             D == {k \in DOMAIN box : box[k].to = u}
  <2>1. B \subseteq {1} /\ D \subseteq {1}
    BY <1>3, <1>4
  <2>2. SendedBy(u, box) = Cardinality(B) /\ ReceivedBy(u, box) = Cardinality(D)
    BY SendedByDef, Zenon
  <2> HIDE DEF B, D
  <2>3. IsFiniteSet({1}) /\ Cardinality({1}) = 1
    BY FS_Singleton
  <2>4. Cardinality(B) <= 1 /\ Cardinality(D) <= 1 /\ Cardinality(B) \in Nat /\ Cardinality(D) \in Nat
    BY <2>1, <2>3, FS_Subset, FS_CardinalityType
  <2> QED
    BY <2>2, <2>4
<1>7. \A u \in User : SendedBy(u, box) <= MaxSended /\ ReceivedBy(u, box) <= MaxReceived
  BY <1>6, Numbers
<1>8. Box(box, 0, bypassed)
  BY <1>3, <1>4, <1>5, <1>7, Zenon DEF Box
<1>9. List.op = "list" /\ List.stage = "sent"
  BY DEF List, Ask
<1>10. DOMAIN queries = {1} /\ queries[1] = List
  BY <1>1
<1>11. \A k \in DOMAIN queries : Pending(queries[k], box, Letters(cache), 0, bypassed)
  <2>1. \A c, d, e, b : Pending(List, c, d, e, b)
    BY <1>9, Zenon DEF Pending
  <2>2. \A k \in DOMAIN queries : queries[k] = List
    BY <1>10
  <2> QED
    BY <2>1, <2>2, Zenon
<1>12. ~AllReaded(queries) /\ \A j, k \in DOMAIN queries : j = k
  BY <1>9, <1>10 DEF AllReaded
<1> QED
  BY <1>1, <1>8, <1>11, <1>12, Zenon DEF InOrder, box

Orderly == State /\ OrderInv

LEMMA StepOrder == Orderly /\ [Next]_vars => Orderly'
<1> SUFFICES ASSUME State, OrderInv, [Next]_vars PROVE State' /\ OrderInv'
  BY DEF Orderly
<1>1. State'
  BY StepState
<1>2. CASE UNCHANGED vars
  <2>1. /\ table' = table /\ cache' = cache /\ queries' = queries /\ commands' = commands
        /\ bypassed' = bypassed /\ disorder' = disorder
    BY <1>2, Zenon DEF vars
  <2> QED
    BY <1>1, <2>1, Zenon DEF OrderInv
<1>3. ASSUME NEW i \in DOMAIN queries, Fail(i) PROVE OrderInv'
  BY <1>3 DEF Fail, OrderInv
<1> QED
  BY <1>1, <1>2, <1>3, CommandsOrder, ExecuteOrder, ConsumeOrder, Zenon DEF Next

\* As long as each query was known in m_Mails before the next was asked for, no
\* two mails of the table share an id, so delmail erases the mail it names.
THEOREM IdsCorrect == Spec => []IdsDistinct
<1>1. Orderly => IdsDistinct
  <2> SUFFICES ASSUME State, OrderInv, ~disorder, NEW j \in DOMAIN table, NEW k \in DOMAIN table, j /= k
               PROVE  table[j].id /= table[k].id
    BY DEF Orderly, IdsDistinct
  <2> DEFINE box == Letters(table)
  <2>1. /\ DOMAIN box = DOMAIN table /\ box[j].id = table[j].id /\ box[k].id = table[k].id
    BY StateLetters, LettersType, LetterType
  <2>2. Box(box, commands, bypassed)
    BY Zenon DEF OrderInv, InOrder
  <2> HIDE DEF box
  <2> QED
    BY <2>1, <2>2 DEF Box
<1>2. Init => Orderly
  BY InitState, InitOrder DEF Orderly
<1> QED
  BY <1>1, <1>2, StepOrder, PTL DEF Spec

\* And no box passes its limits, although they are compared with ==, unless an
\* announcement or the mail of hostbots has gone around them.
THEOREM LimitsCorrect == Spec => []LimitKept
<1>1. Orderly => LimitKept
  <2> SUFFICES ASSUME State, OrderInv, ~disorder, ~bypassed, NEW u \in User
               PROVE  SendedBy(u, table) <= MaxSended /\ ReceivedBy(u, table) <= MaxReceived
    BY DEF Orderly, LimitKept
  <2> DEFINE box == Letters(table)
  <2>1. SendedBy(u, box) = SendedBy(u, table) /\ ReceivedBy(u, box) = ReceivedBy(u, table)
    BY StateLetters, LettersCount
  <2>2. Box(box, commands, bypassed)
    BY Zenon DEF OrderInv, InOrder
  <2> HIDE DEF box
  <2>3. SendedBy(u, box) <= MaxSended /\ ReceivedBy(u, box) <= MaxReceived
    BY <2>2, Zenon DEF Box
  <2> QED
    BY <2>1, <2>3
<1>2. Init => Orderly
  BY InitState, InitOrder DEF Orderly
<1> QED
  BY <1>1, <1>2, StepOrder, PTL DEF Spec

\* And an announcement is in the box of a user once, however often the user joins.
THEOREM AnnouncementsCorrect == Spec => []AnnouncedOnce
<1>1. Orderly => AnnouncedOnce
  <2> SUFFICES ASSUME State, OrderInv, ~disorder, NEW j \in DOMAIN table, NEW k \in DOMAIN table, j /= k
               PROVE  <<table[j].to, table[j].text>> /= <<table[k].to, table[k].text>>
    BY DEF Orderly, AnnouncedOnce
  <2> DEFINE box == Letters(table)
  <2>1. /\ DOMAIN box = DOMAIN table /\ box[j].to = table[j].to /\ box[k].to = table[k].to
        /\ box[j].text = table[j].text /\ box[k].text = table[k].text
    BY StateLetters, LettersType, LetterType
  <2>2. Box(box, commands, bypassed)
    BY Zenon DEF OrderInv, InOrder
  <2> HIDE DEF box
  <2>3. table[j].to /= table[k].to \/ table[j].text /= table[k].text
    BY <2>1, <2>2 DEF Box
  <2> QED
    BY <2>3
<1>2. Init => Orderly
  BY InitState, InitOrder DEF Orderly
<1> QED
  BY <1>1, <1>2, StepOrder, PTL DEF Spec

---------------------------------------------------------------------------
(* What is read was shown: a query that marks the mail of a user is only   *)
(* outstanding when all of the user's mail, and the copies that were asked *)
(* for with it, was shown.                                                 *)

Seen(rows, sh) == \A k \in DOMAIN rows : rows[k].read => <<rows[k].text, rows[k].to>> \in sh
ShownTo(u, rows, sh) == \A k \in DOMAIN rows : rows[k].to = u => <<rows[k].text, u>> \in sh

Told(u, tb, ch, qs, sh) ==
  /\ ShownTo(u, tb, sh) /\ ShownTo(u, ch, sh)
  /\ \A k \in DOMAIN qs : qs[k].op = "add" /\ qs[k].mail.to = u => <<qs[k].mail.text, u>> \in sh

AllSeen(tb, ch, qs, sh) ==
  /\ Seen(tb, sh) /\ Seen(ch, sh) /\ \A k \in DOMAIN qs : Seen(qs[k].rows, sh)
  /\ \A j \in DOMAIN qs : qs[j].op = "readed" => Told(qs[j].mail.to, tb, ch, qs, sh)

SeenInv == ~disorder => AllSeen(table, cache, queries, shown)

LEMMA MarkedFields ==
  ASSUME NEW rows \in Seq(Mails), NEW u
  PROVE  /\ DOMAIN Marked(rows, u) = DOMAIN rows
         /\ \A k \in DOMAIN rows : /\ Marked(rows, u)[k].to = rows[k].to
                                   /\ Marked(rows, u)[k].text = rows[k].text
                                   /\ Marked(rows, u)[k].read => rows[k].read \/ rows[k].to = u
<1> DEFINE e == {Letter(m) : m \in Mails}
           marked == Marked(rows, u)
<1>1. Mails \subseteq Good(e) /\ Good(e) \subseteq Mails
  BY DEF Good
<1> HIDE DEF e
<1>2. rows \in Seq(Good(e))
  BY <1>1
<1>3. /\ marked \in Seq(Good(e)) /\ DOMAIN marked = DOMAIN rows
      /\ \A k \in DOMAIN rows : /\ Letter(marked[k]) = Letter(rows[k])
                                /\ marked[k].read <=> rows[k].read \/ rows[k].to = u
  BY <1>2, MarkedRows
<1> HIDE DEF marked
<1>4. \A k \in DOMAIN rows : marked[k] \in Mails /\ rows[k] \in Mails
  BY <1>1, <1>3
<1>5. \A k \in DOMAIN rows : marked[k].to = rows[k].to /\ marked[k].text = rows[k].text
  <2> SUFFICES ASSUME NEW k \in DOMAIN rows
               PROVE  marked[k].to = rows[k].to /\ marked[k].text = rows[k].text
    OBVIOUS
  <2>1. Letter(marked[k]) = Letter(rows[k]) /\ marked[k] \in Mails /\ rows[k] \in Mails
    BY <1>3, <1>4
  <2>2. /\ Letter(marked[k]).to = marked[k].to /\ Letter(marked[k]).text = marked[k].text
        /\ Letter(rows[k]).to = rows[k].to /\ Letter(rows[k]).text = rows[k].text
    BY <2>1, LetterType
  <2> QED
    BY <2>1, <2>2
<1> QED
  BY <1>3, <1>5, Zenon DEF marked

LEMMA MarkedSeen ==
  ASSUME NEW rows \in Seq(Mails), NEW u, NEW sh
  PROVE  /\ Seen(rows, sh) /\ ShownTo(u, rows, sh) => Seen(Marked(rows, u), sh)
         /\ \A v : ShownTo(v, rows, sh) => ShownTo(v, Marked(rows, u), sh)
<1> DEFINE R == Marked(rows, u)
<1>1. /\ DOMAIN R = DOMAIN rows
      /\ \A k \in DOMAIN rows : /\ R[k].to = rows[k].to /\ R[k].text = rows[k].text
                                /\ R[k].read => rows[k].read \/ rows[k].to = u
  BY MarkedFields
<1> HIDE DEF R
<1>2. Seen(rows, sh) /\ ShownTo(u, rows, sh) => Seen(R, sh)
  <2> SUFFICES ASSUME Seen(rows, sh), ShownTo(u, rows, sh), NEW k \in DOMAIN rows, R[k].read
               PROVE  <<R[k].text, R[k].to>> \in sh
    BY <1>1 DEF Seen
  <2>1. <<rows[k].text, rows[k].to>> \in sh
    BY <1>1 DEF Seen, ShownTo
  <2> QED
    BY <1>1, <2>1
<1>3. \A v : ShownTo(v, rows, sh) => ShownTo(v, R, sh)
  BY <1>1 DEF ShownTo
<1> QED
  BY <1>2, <1>3, Zenon DEF R

LEMMA WithoutSeen ==
  ASSUME NEW rows \in Seq(Mails), NEW q, NEW sh
  PROVE  /\ Seen(rows, sh) => Seen(Without(rows, q), sh)
         /\ \A v : ShownTo(v, rows, sh) => ShownTo(v, Without(rows, q), sh)
<1> DEFINE K == {k \in DOMAIN rows : ~Named(rows[k], q)}
           R == Kept(rows, K)
<1>1. K \in SUBSET (DOMAIN rows) /\ Without(rows, q) = R
  BY DEF Without
<1> HIDE DEF K
<1>2. \A k \in DOMAIN R : Nth(K, k) \in K /\ R[k] = rows[Nth(K, k)]
  BY <1>1, KeptMembers
<1> HIDE DEF R
<1>3. \A k \in DOMAIN R : \E j \in DOMAIN rows : R[k] = rows[j]
  BY <1>1, <1>2
<1>4. /\ Seen(rows, sh) => Seen(R, sh)
      /\ \A v : ShownTo(v, rows, sh) => ShownTo(v, R, sh)
  BY <1>3 DEF Seen, ShownTo
<1> QED
  BY <1>1, <1>4, Zenon

LEMMA AppendSeen ==
  ASSUME NEW rows \in Seq(Mails), NEW m \in Mails, ~m.read, NEW sh
  PROVE  /\ Seen(rows, sh) => Seen(Append(rows, m), sh)
         /\ \A v : ShownTo(v, rows, sh) /\ (m.to = v => <<m.text, v>> \in sh)
                     => ShownTo(v, Append(rows, m), sh)
<1> DEFINE R == Append(rows, m)
<1>1. \A k \in DOMAIN R : R[k] = m \/ (k \in DOMAIN rows /\ R[k] = rows[k])
  OBVIOUS
<1> HIDE DEF R
<1>2. Seen(rows, sh) => Seen(R, sh)
  BY <1>1 DEF Seen
<1>3. ASSUME NEW v, ShownTo(v, rows, sh), m.to = v => <<m.text, v>> \in sh
      PROVE  ShownTo(v, R, sh)
  BY <1>1, <1>3 DEF ShownTo
<1> QED
  BY <1>2, <1>3, Zenon DEF R

LEMMA LettersShown ==
  ASSUME NEW a \in Seq(Mails), NEW b \in Seq(Mails), Letters(a) = Letters(b), NEW sh, NEW v,
         ShownTo(v, a, sh)
  PROVE  ShownTo(v, b, sh)
<1>1. DOMAIN a = DOMAIN b
  BY LettersType
<1>2. ASSUME NEW k \in DOMAIN b PROVE a[k].to = b[k].to /\ a[k].text = b[k].text
  <2> DEFINE l == Letters(a)[k]
  <2>1. a[k] \in Mails /\ b[k] \in Mails /\ l = Letter(a[k]) /\ l = Letter(b[k])
    BY <1>1, LettersType
  <2> HIDE DEF l
  <2>2. /\ Letter(a[k]).to = a[k].to /\ Letter(a[k]).text = a[k].text
        /\ Letter(b[k]).to = b[k].to /\ Letter(b[k]).text = b[k].text
    BY <2>1, LetterType
  <2> QED
    BY <2>1, <2>2
<1> QED
  BY <1>1, <1>2 DEF ShownTo

LEMMA SeenGrows ==
  ASSUME NEW sh, NEW more, sh \subseteq more
  PROVE  /\ \A rows : Seen(rows, sh) => Seen(rows, more)
         /\ \A rows, u : ShownTo(u, rows, sh) => ShownTo(u, rows, more)
BY DEF Seen, ShownTo

\* A command asks of a box that m_Mails knows.
LEMMA IssueSeen ==
  ASSUME State, SeenInv, NEW qs \in Seq(Asked(ever)), Issue(qs),
         ~disorder' =>
           /\ shown \subseteq shown' /\ Seen(cache', shown')
           /\ \A k \in DOMAIN qs :
                /\ qs[k].rows = <<>>
                /\ qs[k].op = "readed" => Told(qs[k].mail.to, table, cache', qs, shown')
  PROVE  SeenInv'
<1> SUFFICES ASSUME ~disorder' PROVE SeenInv'
  BY DEF SeenInv
<1>1. ~disorder /\ queries = <<>> /\ table' = table /\ queries' = queries \o qs
  BY Zenon DEF Issue
<1>2. queries' = qs
  BY <1>1
<1>3. Seen(table, shown')
  BY <1>1, SeenGrows DEF SeenInv, AllSeen
<1>4. \A k \in DOMAIN qs : Seen(qs[k].rows, shown')
  BY DEF Seen
<1>5. AllSeen(table, cache', qs, shown')
  BY <1>3, <1>4, Zenon DEF AllSeen
<1> QED
  BY <1>1, <1>2, <1>5, Zenon DEF SeenInv

LEMMA AskRows ==
  /\ \A m : Add(m).rows = <<>>
  /\ \A u : Readed(u).rows = <<>>
  /\ \A u, id : Delete(u, id).rows = <<>>
  /\ List.rows = <<>>
BY DEF Add, Readed, Delete, List, Ask

LEMMA PlainSeen ==
  ASSUME State, SeenInv, NEW qs \in Seq(Asked(ever)), Issue(qs), cache' = cache, shown' = shown,
         \A k \in DOMAIN qs : qs[k].rows = <<>> /\ qs[k].op /= "readed"
  PROVE  SeenInv'
<1>1. ASSUME ~disorder' PROVE Seen(cache', shown')
  <2>1. ~disorder
    BY <1>1, Zenon DEF Issue
  <2> QED
    BY <2>1, Zenon DEF SeenInv, AllSeen
<1> QED
  BY <1>1, IssueSeen

\* Who is told of every mail that m_Mails has for him was told of all there is.
LEMMA ToldOfAll ==
  ASSUME State, OrderInv, ~disorder, queries = <<>>, NEW u, NEW sh, ShownTo(u, cache, sh)
  PROVE  ShownTo(u, table, sh)
BY Known, StateLetters, LettersShown

LEMMA JoinSeen ==
  ASSUME State, OrderInv, SeenInv, NEW u \in User, Join(u)
  PROVE  SeenInv'
<1> DEFINE n == Len(News(u))
           qs == Copies(u) \o <<Readed(u)>>
           add(k) == Add(Mail(News(u)[k].from, u, News(u)[k].text))
           texts == {<<m.text, u>> : m \in {m \in ToSet(cache) : m.to = u /\ ~m.read} \cup ToSet(News(u))}
<1>1. /\ Issue(qs) /\ Show(texts) /\ (cache' = cache \/ cache' = Marked(cache, u))
  BY JoinParts, Zenon
<1>2. /\ News(u) \in Seq(Good(ever)) /\ Copies(u) \in Seq(Asked(ever)) /\ Len(Copies(u)) = n
      /\ n \in Nat /\ DOMAIN News(u) = 1..n
  BY NewsType
<1>3. \A k \in 1..n : Copies(u)[k] = add(k)
  BY <1>2, Zenon DEF Copies
<1>4. /\ qs \in Seq(Asked(ever)) /\ DOMAIN qs = (1..n) \cup {n + 1} /\ qs[n + 1] = Readed(u)
      /\ \A k \in 1..n : qs[k] = Copies(u)[k]
  <2>1. Readed(u) \in Asked(ever)
    BY AskTypes
  <2> QED
    BY <1>2, <2>1, ConcatOne
<1>5. cache \in Seq(Mails)
  BY StateLetters
<1>6. /\ \A k \in DOMAIN cache : cache[k].to = u => cache[k].read \/ <<cache[k].text, u>> \in texts
      /\ \A k \in 1..n : <<News(u)[k].text, u>> \in texts
  BY <1>2 DEF ToSet
<1> HIDE DEF n, qs, texts
<1>7. ASSUME NEW k \in DOMAIN qs
      PROVE  /\ qs[k].rows = <<>> /\ (qs[k].op = "readed" => qs[k].mail.to = u)
             /\ qs[k].op = "add" => <<qs[k].mail.text, u>> \in texts
  <2>1. CASE k \in 1..n
    <3>1. qs[k] = add(k)
      BY <2>1, <1>3, <1>4, Zenon
    <3> DEFINE m == Mail(News(u)[k].from, u, News(u)[k].text)
    <3>2. m.text = News(u)[k].text
      BY DEF Mail
    <3>3. qs[k] = Add(m)
      BY <3>1
    <3> HIDE DEF m, add
    <3>4. qs[k].op = "add" /\ qs[k].rows = <<>> /\ qs[k].mail = m
      BY <3>3, AskFields, AskRows
    <3> QED
      BY <2>1, <3>2, <3>4, <1>6
  <2>2. CASE k = n + 1
    BY <2>2, <1>4, AskFields, AskRows
  <2> QED
    BY <2>1, <2>2, <1>4, Zenon
<1>8. ASSUME ~disorder'
      PROVE  /\ shown \subseteq shown' /\ Seen(cache', shown')
             /\ Told(u, table, cache', qs, shown')
  <2>1. ~disorder /\ queries = <<>> /\ shown' = shown \cup texts
    BY <1>1, <1>8, Zenon DEF Issue, Show
  <2>2. Seen(cache, shown)
    BY <2>1, Zenon DEF SeenInv, AllSeen
  <2>3. ShownTo(u, cache, shown')
    <3>1. ASSUME NEW k \in DOMAIN cache, cache[k].to = u PROVE <<cache[k].text, u>> \in shown'
      <4>1. CASE cache[k].read
        BY <4>1, <3>1, <2>1, <2>2 DEF Seen
      <4>2. CASE <<cache[k].text, u>> \in texts
        BY <4>2, <2>1
      <4> QED
        BY <4>1, <4>2, <3>1, <1>6
    <3> QED
      BY <3>1 DEF ShownTo
  <2>4. Seen(cache, shown')
    BY <2>1, <2>2, SeenGrows
  <2>5. Seen(cache', shown') /\ ShownTo(u, cache', shown')
    BY <1>1, <1>5, <2>3, <2>4, MarkedSeen
  <2>6. ShownTo(u, table, shown')
    BY <2>1, <2>3, ToldOfAll
  <2>7. \A k \in DOMAIN qs : qs[k].op = "add" /\ qs[k].mail.to = u => <<qs[k].mail.text, u>> \in shown'
    BY <1>7, <2>1
  <2> QED
    BY <2>1, <2>5, <2>6, <2>7 DEF Told
<1>9. ASSUME ~disorder', NEW k \in DOMAIN qs, qs[k].op = "readed"
      PROVE  Told(qs[k].mail.to, table, cache', qs, shown')
  BY <1>7, <1>8, <1>9
<1> QED
  BY <1>1, <1>4, <1>7, <1>8, <1>9, IssueSeen

LEMMA MailboxSeen ==
  ASSUME State, OrderInv, SeenInv, NEW u \in User, Mailbox(u)
  PROVE  SeenInv'
<1> DEFINE qs == <<Readed(u)>>
           texts == {<<m.text, u>> : m \in {m \in ToSet(cache) : m.to = u}}
<1>1. Issue(qs) /\ Show(texts) /\ cache' = Marked(cache, u)
  BY MarkIsMarked, Zenon DEF Mailbox
<1>2. qs \in Seq(Asked(ever)) /\ \A k \in DOMAIN qs : qs[k] = Readed(u)
  BY AskTypes
<1>3. \A k \in DOMAIN cache : cache[k].to = u => <<cache[k].text, u>> \in texts
  BY DEF ToSet
<1>4. cache \in Seq(Mails)
  BY StateLetters
<1>5. Readed(u).op = "readed" /\ Readed(u).mail.to = u /\ Readed(u).rows = <<>>
  BY AskFields, AskRows
<1> HIDE DEF qs, texts
<1>6. ASSUME ~disorder'
      PROVE  /\ shown \subseteq shown' /\ Seen(cache', shown')
             /\ Told(u, table, cache', qs, shown')
  <2>1. ~disorder /\ queries = <<>> /\ shown' = shown \cup texts
    BY <1>1, <1>6, Zenon DEF Issue, Show
  <2>2. Seen(cache, shown)
    BY <2>1, Zenon DEF SeenInv, AllSeen
  <2>3. ShownTo(u, cache, shown')
    BY <1>3, <2>1 DEF ShownTo
  <2>4. Seen(cache, shown')
    BY <2>1, <2>2, SeenGrows
  <2>5. Seen(cache', shown') /\ ShownTo(u, cache', shown')
    BY <1>1, <1>4, <2>3, <2>4, MarkedSeen
  <2>6. ShownTo(u, table, shown')
    BY <2>1, <2>3, ToldOfAll
  <2>7. \A k \in DOMAIN qs : qs[k].op /= "add"
    BY <1>2, <1>5
  <2> QED
    BY <2>1, <2>5, <2>6, <2>7 DEF Told
<1>7. ASSUME NEW k \in DOMAIN qs PROVE qs[k].rows = <<>> /\ qs[k].mail.to = u
  BY <1>2, <1>5
<1> QED
  BY <1>1, <1>2, <1>6, <1>7, IssueSeen

LEMMA RefreshSeen ==
  ASSUME SeenInv, Refresh \/ DailyRefresh
  PROVE  SeenInv'
<1> SUFFICES ASSUME ~disorder' PROVE SeenInv'
  BY DEF SeenInv
<1> DEFINE first == <<List>>
<1>1. /\ ~disorder /\ queries' = first /\ table' = table /\ cache' = cache /\ shown' = shown
  BY RefreshParts
<1>2. \A k \in DOMAIN first : first[k] = List
  OBVIOUS
<1> HIDE DEF first
<1>3. List.op = "list" /\ List.rows = <<>>
  BY AskRows DEF List, Ask
<1>4. \A k \in DOMAIN first : Seen(first[k].rows, shown) /\ first[k].op /= "readed"
  BY <1>2, <1>3 DEF Seen
<1>5. AllSeen(table, cache, first, shown)
  BY <1>1, <1>4, Zenon DEF SeenInv, AllSeen
<1> QED
  BY <1>1, <1>5, Zenon DEF SeenInv

LEMMA CommandsSeen ==
  ASSUME State, OrderInv, SeenInv, State', Commands \/ DailyRefresh
  PROVE  SeenInv'
<1>1. commands' \in 0..MaxCommands /\ cache \in Seq(Mails)
  BY StateLetters DEF State
<1>2. ASSUME NEW u \in User \cup {Hostbot}, NEW v \in User \cup {All}
      PROVE  Add(Mail(u, v, commands')) \in Asked(ever)
  BY <1>1, MailType, AskTypes
<1>3. ASSUME NEW m, Add(m) \in Asked(ever), Issue(<<Add(m)>>), cache' = cache, shown' = shown PROVE SeenInv'
  <2> DEFINE qs == <<Add(m)>>
  <2>1. qs \in Seq(Asked(ever)) /\ Issue(qs) /\ \A k \in DOMAIN qs : qs[k] = Add(m)
    BY <1>3
  <2>2. \A k \in DOMAIN qs : qs[k].rows = <<>> /\ qs[k].op /= "readed"
    BY <2>1, AskFields, AskRows
  <2> HIDE DEF qs
  <2> QED
    BY <1>3, <2>1, <2>2, PlainSeen
<1>4. ASSUME NEW u \in User, NEW v \in User, MailCommand(u, v) PROVE SeenInv'
  <2> DEFINE m == Mail(u, v, commands')
  <2>1. Issue(<<Add(m)>>) /\ cache' = cache /\ shown' = shown
    BY <1>4, Zenon DEF MailCommand
  <2>2. Add(m) \in Asked(ever)
    BY <1>2
  <2> HIDE DEF m
  <2> QED
    BY <2>1, <2>2, <1>3
<1>5. ASSUME NEW u \in User, AnnMail(u) PROVE SeenInv'
  <2> DEFINE m == Mail(u, All, commands')
  <2>1. Issue(<<Add(m)>>) /\ cache' = cache /\ shown' = shown
    BY <1>5, Zenon DEF AnnMail
  <2>2. Add(m) \in Asked(ever)
    BY <1>2
  <2> HIDE DEF m
  <2> QED
    BY <2>1, <2>2, <1>3
<1>6. CASE HostbotMail
  <2> DEFINE n == Cardinality(Admin)
             add(k) == Add(Mail(Hostbot, SetToSeq(Admin)[k], commands'))
             qs == [k \in 1..n |-> add(k)]
  <2>1. Issue(qs) /\ cache' = cache /\ shown' = shown
    BY <1>6, Zenon DEF HostbotMail
  <2>2. \A k \in 1..n : SetToSeq(Admin)[k] \in User
    BY AdminSeq, NameAssumption
  <2>3. \A k \in 1..n : add(k) \in Asked(ever)
    BY <2>2, <1>2
  <2>4. \A k \in 1..n : add(k).rows = <<>> /\ add(k).op /= "readed"
    <3>1. \A m : Add(m).rows = <<>> /\ Add(m).op /= "readed"
      BY AskFields, AskRows
    <3> QED
      BY <3>1, Zenon
  <2> HIDE DEF add
  <2>5. qs \in [1..n -> Asked(ever)] /\ \A k \in 1..n : qs[k] = add(k)
    BY <2>3
  <2> HIDE DEF qs
  <2>6. qs \in Seq(Asked(ever)) /\ DOMAIN qs = 1..n
    BY <2>5, AdminSeq, FunctionSeq
  <2>7. \A k \in DOMAIN qs : qs[k].rows = <<>> /\ qs[k].op /= "readed"
    BY <2>4, <2>5, <2>6
  <2> QED
    BY <2>1, <2>6, <2>7, PlainSeen
<1>7. ASSUME NEW u \in User, NEW id \in 1..(MailId + 1), DelMail(u, id) PROVE SeenInv'
  <2> DEFINE qs == <<Delete(u, id)>>
  <2>1. Issue(qs) /\ cache' = cache /\ shown' = shown
    BY <1>7, Zenon DEF DelMail
  <2>2. id \in Nat
    BY <1>1, MailIdType
  <2>3. qs \in Seq(Asked(ever)) /\ \A k \in DOMAIN qs : qs[k] = Delete(u, id)
    BY <2>2, AskTypes
  <2>4. \A k \in DOMAIN qs : qs[k].rows = <<>> /\ qs[k].op /= "readed"
    BY <2>3, AskFields, AskRows
  <2> HIDE DEF qs
  <2> QED
    BY <2>1, <2>3, <2>4, PlainSeen
<1> QED
  BY <1>4, <1>5, <1>6, <1>7, JoinSeen, MailboxSeen, RefreshSeen, Zenon DEF Commands

LEMMA ExecuteSeen ==
  ASSUME State, SeenInv, NEW i \in DOMAIN queries, Execute(i)
  PROVE  SeenInv'
<1> SUFFICES ASSUME ~disorder' PROVE SeenInv'
  BY DEF SeenInv
<1> DEFINE q == queries[i]
           rows == IF q.op = "list" THEN table ELSE <<>>
           done == [op |-> q.op, mail |-> q.mail, stage |-> "done", rows |-> rows]
           after == queries'
<1>1. /\ table' = Written(q) /\ after = [queries EXCEPT ![i] = done]
      /\ cache' = cache /\ shown' = shown /\ ~disorder
  BY ExecuteParts, Zenon
<1>2. /\ q.op \in {"add", "readed", "remove", "list"} /\ (q.op = "add" => q.mail \in Mails /\ ~q.mail.read)
  BY QueryType
<1>3. /\ Seen(table, shown) /\ Seen(cache, shown) /\ (\A k \in DOMAIN queries : Seen(queries[k].rows, shown))
      /\ \A j \in DOMAIN queries :
           queries[j].op = "readed" => Told(queries[j].mail.to, table, cache, queries, shown)
  BY <1>1, Zenon DEF SeenInv, AllSeen
<1>4. table \in Seq(Mails)
  BY StateLetters
<1>5. Seen(rows, shown)
  BY <1>3 DEF Seen
<1>6. /\ DOMAIN after = DOMAIN queries
      /\ \A k \in DOMAIN queries : /\ after[k].op = queries[k].op /\ after[k].mail = queries[k].mail
                                   /\ Seen(after[k].rows, shown)
  <2>1. DOMAIN after = DOMAIN queries /\ after[i] = done /\ \A k \in DOMAIN queries : k /= i => after[k] = queries[k]
    <3> HIDE DEF done, after
    <3> QED
      BY <1>1
  <2>2. done.op = q.op /\ done.mail = q.mail /\ done.rows = rows
    OBVIOUS
  <2> HIDE DEF done, after, rows
  <2> QED
    BY <1>3, <1>5, <2>1, <2>2
<1> HIDE DEF q, after, rows, done
<1>7. ASSUME NEW u, Told(u, table, cache, queries, shown) PROVE ShownTo(u, table', shown)
  <2>1. ShownTo(u, table, shown)
    BY <1>7, Zenon DEF Told
  <2>2. CASE q.op = "add"
    <3>1. table' = Append(table, q.mail)
      BY <2>2, <1>1 DEF Written
    <3>2. q.mail.to = u => <<q.mail.text, u>> \in shown
      BY <2>2, <1>7 DEF Told, q
    <3> QED
      BY <2>1, <2>2, <3>1, <3>2, <1>2, <1>4, AppendSeen
  <2>3. CASE q.op = "readed"
    <3>1. table' = [k \in DOMAIN table |-> [table[k] EXCEPT !.read = @ \/ Marks(table[k], q)]]
      BY <2>3, <1>1 DEF Written
    <3>2. table' = Marked(table, q.mail.to)
      BY <3>1, Zenon DEF Marks, Marked
    <3> QED
      BY <2>1, <3>2, <1>4, MarkedSeen
  <2>4. CASE q.op = "remove"
    <3>1. table' = Without(table, q)
      BY <2>4, <1>1 DEF Written
    <3> QED
      BY <2>1, <3>1, <1>4, WithoutSeen
  <2>5. CASE q.op = "list"
    BY <2>1, <2>5, <1>1 DEF Written
  <2> QED
    BY <2>2, <2>3, <2>4, <2>5, <1>2
<1>8. Seen(table', shown)
  <2>2. CASE q.op = "add"
    <3>1. table' = Append(table, q.mail)
      BY <2>2, <1>1 DEF Written
    <3> QED
      BY <2>2, <3>1, <1>2, <1>3, <1>4, AppendSeen
  <2>3. CASE q.op = "readed"
    <3>1. table' = [k \in DOMAIN table |-> [table[k] EXCEPT !.read = @ \/ Marks(table[k], q)]]
      BY <2>3, <1>1 DEF Written
    <3>2. table' = Marked(table, q.mail.to)
      BY <3>1, Zenon DEF Marks, Marked
    <3>3. ShownTo(q.mail.to, table, shown)
      BY <2>3, <1>3, Zenon DEF Told, q
    <3> QED
      BY <3>2, <3>3, <1>3, <1>4, MarkedSeen
  <2>4. CASE q.op = "remove"
    <3>1. table' = Without(table, q)
      BY <2>4, <1>1 DEF Written
    <3> QED
      BY <3>1, <1>3, <1>4, WithoutSeen
  <2>5. CASE q.op = "list"
    BY <2>5, <1>1, <1>3 DEF Written
  <2> QED
    BY <2>2, <2>3, <2>4, <2>5, <1>2
<1>9. ASSUME NEW j \in DOMAIN after, after[j].op = "readed"
      PROVE  Told(after[j].mail.to, table', cache, after, shown)
  <2> DEFINE u == after[j].mail.to
  <2>1. Told(u, table, cache, queries, shown)
    BY <1>3, <1>6, <1>9
  <2> HIDE DEF u
  <2>2. ShownTo(u, table', shown) /\ ShownTo(u, cache, shown)
    BY <2>1, <1>7, Zenon DEF Told
  <2>3. \A k \in DOMAIN after : after[k].op = "add" /\ after[k].mail.to = u => <<after[k].mail.text, u>> \in shown
    BY <2>1, <1>6 DEF Told
  <2> QED
    BY <2>2, <2>3, Zenon DEF Told, u
<1>10. AllSeen(table', cache, after, shown)
  BY <1>3, <1>6, <1>8, <1>9, Zenon DEF AllSeen
<1> QED
  BY <1>1, <1>10, Zenon DEF SeenInv, after

LEMMA ConsumeSeen ==
  ASSUME State, OrderInv, SeenInv, NEW i \in DOMAIN queries, Consume(i)
  PROVE  SeenInv'
<1> SUFFICES ASSUME ~disorder' PROVE SeenInv'
  BY DEF SeenInv
<1> DEFINE q == queries[i]
           after == queries'
<1>1. /\ q.stage /= "sent" /\ cache' = Copied(q) /\ after = RemoveAt(queries, i)
      /\ table' = table /\ shown' = shown /\ ~disorder
  BY Zenon DEF Consume
<1>2. /\ q.op \in {"add", "readed", "remove", "list"} /\ (q.op = "add" => q.mail \in Mails /\ ~q.mail.read)
      /\ q.rows \in Seq(Good(ever))
  BY QueryType
<1>3. /\ Seen(table, shown) /\ Seen(cache, shown) /\ (\A k \in DOMAIN queries : Seen(queries[k].rows, shown))
      /\ \A j \in DOMAIN queries :
           queries[j].op = "readed" => Told(queries[j].mail.to, table, cache, queries, shown)
  BY <1>1, Zenon DEF SeenInv, AllSeen
<1>4. table \in Seq(Mails) /\ cache \in Seq(Mails) /\ queries \in Seq(Asked(ever)) /\ q.rows \in Seq(Mails)
  <2>1. Good(ever) \subseteq Mails
    BY DEF Good
  <2> HIDE DEF q
  <2> QED
    BY <1>2, <2>1, StateLetters DEF State
<1>5. Pending(q, Letters(table), Letters(cache), commands, bypassed)
  BY <1>1, Zenon DEF OrderInv, InOrder
<1>6. \A j \in DOMAIN after : \E k \in DOMAIN queries : after[j] = queries[k]
  <2>1. after = RemoveAt(queries, i)
    BY <1>1
  <2> HIDE DEF after
  <2> QED
    BY <1>4, <2>1, RemoveMembers
<1>7. Seen(q.rows, shown) /\ (q.op = "readed" => Told(q.mail.to, table, cache, queries, shown))
  BY <1>3, Zenon
<1>8. \A u : Told(u, table, cache, queries, shown) =>
        (q.op = "add" /\ q.mail.to = u => <<q.mail.text, u>> \in shown)
  BY Zenon DEF Told
<1> HIDE DEF q, after
<1>9. q.op = "list" \/ q.stage = "done"
  BY <1>1, <1>5 DEF Pending
<1>10. ASSUME NEW u, Told(u, table, cache, queries, shown) PROVE ShownTo(u, cache', shown)
  <2>1. ShownTo(u, cache, shown) /\ ShownTo(u, table, shown)
    BY <1>10, Zenon DEF Told
  <2>2. CASE q.op = "add" /\ q.stage = "done"
    <3>1. cache' = Append(cache, q.mail)
      BY <2>2, <1>1 DEF Copied, Applied
    <3> QED
      BY <2>1, <2>2, <3>1, <1>2, <1>4, <1>8, <1>10, AppendSeen
  <2>3. CASE q.op = "readed" /\ q.stage = "done"
    <3>1. cache' = Marked(cache, q.mail.to)
      BY <2>3, <1>1, MarkIsMarked DEF Copied, Applied
    <3> QED
      BY <2>1, <3>1, <1>4, MarkedSeen
  <2>4. CASE q.op = "remove" /\ q.stage = "done"
    <3>1. cache' = Without(cache, q)
      BY <2>4, <1>1 DEF Copied, Applied
    <3> QED
      BY <2>1, <3>1, <1>4, WithoutSeen
  <2>5. CASE q.op = "list"
    <3>1. cache' = q.rows
      BY <2>5, <1>1 DEF Copied, Loaded
    <3>2. Letters(q.rows) = Letters(table)
      BY <2>5, <1>1, <1>5 DEF Pending
    <3> QED
      BY <2>1, <3>1, <3>2, <1>4, LettersShown
  <2> QED
    BY <2>2, <2>3, <2>4, <2>5, <1>2, <1>9
<1>11. Seen(cache', shown)
  <2>2. CASE q.op = "add" /\ q.stage = "done"
    <3>1. cache' = Append(cache, q.mail)
      BY <2>2, <1>1 DEF Copied, Applied
    <3> QED
      BY <2>2, <3>1, <1>2, <1>3, <1>4, AppendSeen
  <2>3. CASE q.op = "readed" /\ q.stage = "done"
    <3>1. cache' = Marked(cache, q.mail.to)
      BY <2>3, <1>1, MarkIsMarked DEF Copied, Applied
    <3>2. ShownTo(q.mail.to, cache, shown)
      BY <2>3, <1>7, Zenon DEF Told
    <3> QED
      BY <3>1, <3>2, <1>3, <1>4, MarkedSeen
  <2>4. CASE q.op = "remove" /\ q.stage = "done"
    <3>1. cache' = Without(cache, q)
      BY <2>4, <1>1 DEF Copied, Applied
    <3> QED
      BY <3>1, <1>3, <1>4, WithoutSeen
  <2>5. CASE q.op = "list"
    BY <2>5, <1>1, <1>7 DEF Copied, Loaded
  <2> QED
    BY <2>2, <2>3, <2>4, <2>5, <1>2, <1>9
<1>12. ASSUME NEW j \in DOMAIN after, after[j].op = "readed"
       PROVE  Told(after[j].mail.to, table, cache', after, shown)
  <2> DEFINE u == after[j].mail.to
  <2>1. Told(u, table, cache, queries, shown)
    BY <1>3, <1>6, <1>12
  <2> HIDE DEF u
  <2>2. ShownTo(u, table, shown) /\ ShownTo(u, cache', shown)
    BY <2>1, <1>10, Zenon DEF Told
  <2>3. \A k \in DOMAIN after : after[k].op = "add" /\ after[k].mail.to = u => <<after[k].mail.text, u>> \in shown
    BY <2>1, <1>6 DEF Told
  <2> QED
    BY <2>2, <2>3, Zenon DEF Told, u
<1>13. AllSeen(table, cache', after, shown)
  <2>1. \A k \in DOMAIN after : Seen(after[k].rows, shown)
    BY <1>3, <1>6
  <2> QED
    BY <1>3, <1>11, <1>12, <2>1, Zenon DEF AllSeen
<1> QED
  BY <1>1, <1>13, Zenon DEF SeenInv, after

LEMMA InitSeen == Init => SeenInv
<1> SUFFICES ASSUME Init PROVE AllSeen(table, cache, queries, shown)
  BY DEF SeenInv
<1>1. queries = <<List>> /\ cache = <<>>
  BY Zenon DEF Init
<1>2. \A k \in DOMAIN table : ~table[k].read
  BY DEF Init
<1>3. DOMAIN queries = {1} /\ queries[1] = List /\ DOMAIN cache = {}
  BY <1>1
<1>4. List.op = "list" /\ List.rows = <<>>
  BY AskRows DEF List, Ask
<1>5. \A k \in DOMAIN queries : Seen(queries[k].rows, shown) /\ queries[k].op /= "readed"
  BY <1>3, <1>4 DEF Seen
<1>6. Seen(table, shown) /\ Seen(cache, shown)
  BY <1>2, <1>3, Zenon DEF Seen
<1> QED
  BY <1>5, <1>6, Zenon DEF AllSeen

\* And no mail counts as read, in the table or in m_Mails, that its receiver was
\* not shown.
THEOREM ReadCorrect == Spec => []SeenBeforeRead
<1> DEFINE Good2 == Orderly /\ SeenInv
<1>1. Good2 => SeenBeforeRead
  <2> SUFFICES ASSUME SeenInv, ~disorder, NEW m \in ToSet(table) \cup ToSet(cache), m.read
               PROVE  <<m.text, m.to>> \in shown
    BY DEF SeenBeforeRead
  <2>1. Seen(table, shown) /\ Seen(cache, shown)
    BY Zenon DEF SeenInv, AllSeen
  <2> QED
    BY <2>1 DEF Seen, ToSet
<1>2. Init => Good2
  BY InitState, InitOrder, InitSeen DEF Orderly
<1>3. Good2 /\ [Next]_vars => Good2'
  <2> SUFFICES ASSUME Orderly, SeenInv, [Next]_vars PROVE Orderly' /\ SeenInv'
    OBVIOUS
  <2>1. State /\ OrderInv /\ Orderly' /\ State'
    BY StepOrder DEF Orderly
  <2>2. CASE UNCHANGED vars
    <3>1. table' = table /\ cache' = cache /\ queries' = queries /\ shown' = shown /\ disorder' = disorder
      BY <2>2, Zenon DEF vars
    <3> QED
      BY <2>1, <3>1, Zenon DEF SeenInv
  <2>3. ASSUME NEW i \in DOMAIN queries, Fail(i) PROVE SeenInv'
    BY <2>3 DEF Fail, SeenInv
  <2> QED
    BY <2>1, <2>2, <2>3, CommandsSeen, ExecuteSeen, ConsumeSeen, Zenon DEF Next
<1> QED
  BY <1>1, <1>2, <1>3, PTL DEF Spec
=============================================================================
