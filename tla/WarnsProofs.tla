---------------------------- MODULE WarnsProofs ----------------------------
(***************************************************************************)
(* Proofs about Warns.tla, in two parts.                                   *)
(*                                                                         *)
(* State gives the type of the table, of m_Warns and of the queries,       *)
(* whatever fails and in whatever order the queries are executed.          *)
(*                                                                         *)
(* OrderInv is about runs in which m_Warns knew what the queries before    *)
(* did and none failed (~disorder). Either a list is under way alone, or   *)
(* the rows of each user are a Pair: Find takes from the table and from    *)
(* m_Warns the rows of the user, of which there is at most one, Own the    *)
(* queries about the user, and Agree says which fields of the two rows are *)
(* the same. So a step needs to be looked at for one user, and leaves the  *)
(* sets of the others. Covered says where the warns of a user are.         *)
(***************************************************************************)
EXTENDS Warns, FiniteSetTheorems, SequenceTheorems, WellFoundedInduction, TLAPS

---------------------------------------------------------------------------
(* What is kept of a sequence                                              *)

\* The positions that are kept are numbered from 1 without a gap.
LEMMA NthBijection ==
  ASSUME NEW n \in Nat, NEW K \in SUBSET (1..n)
  PROVE  /\ Cardinality(K) \in Nat
         /\ \A i \in 1..Cardinality(K) : Nth(K, i) \in K
         /\ \A k \in K : \E i \in 1..Cardinality(K) : Nth(K, i) = k
         /\ \A i, j \in 1..Cardinality(K) : Nth(K, i) = Nth(K, j) => i = j
<1> DEFINE c == Cardinality(K)
           upto(k) == {j \in K : j <= k}
           rank == [k \in K |-> Cardinality(upto(k))]
<1>1. IsFiniteSet(K) /\ c \in Nat
  <2>1. IsFiniteSet(1..n)
    BY FS_Interval
  <2> QED
    BY <2>1, FS_Subset, FS_CardinalityType, Zenon
<1>2. ASSUME NEW k \in K PROVE rank[k] \in 1..c
  <2>1. upto(k) \in SUBSET K /\ k \in upto(k)
    OBVIOUS
  <2> HIDE DEF upto
  <2>2. IsFiniteSet(upto(k)) /\ Cardinality(upto(k)) <= c /\ Cardinality(upto(k)) \in Nat
    BY <2>1, <1>1, FS_Subset, FS_CardinalityType
  <2>3. Cardinality(upto(k)) /= 0
    BY <2>1, <2>2, FS_EmptySet
  <2> QED
    BY <2>2, <2>3, <1>1
<1>3. ASSUME NEW j \in K, NEW k \in K, j < k PROVE rank[j] /= rank[k]
  <2>1. upto(j) \in SUBSET upto(k) /\ k \in upto(k) /\ k \notin upto(j) /\ upto(k) \in SUBSET K
    <3>1. \A i \in K : i \in Int
      OBVIOUS
    <3>2. \A i \in K : i <= j => i <= k
      BY <3>1, <1>3
    <3>3. k <= k /\ ~(k <= j)
      BY <3>1, <1>3
    <3> QED
      BY <3>2, <3>3
  <2> HIDE DEF upto
  <2>2. IsFiniteSet(upto(k))
    BY <2>1, <1>1, FS_Subset
  <2>3. Cardinality(upto(j)) /= Cardinality(upto(k))
    BY <2>1, <2>2, FS_Subset
  <2> QED
    BY <2>3
<1>4. \A j, k \in K : rank[j] = rank[k] => j = k
  <2>1. \A j, k \in K : j < k \/ k < j \/ j = k
    OBVIOUS
  <2> HIDE DEF rank
  <2> QED
    BY <2>1, <1>3
<1>5. rank \in Injection(K, 1..c)
  <2>1. rank \in [K -> 1..c]
    BY <1>2
  <2> HIDE DEF rank
  <2> QED
    BY <2>1, <1>4 DEF Injection, IsInjective
<1>6. rank \in Surjection(K, 1..c)
  <2>1. IsFiniteSet(1..c) /\ Cardinality(1..c) = c
    BY <1>1, FS_Interval
  <2> HIDE DEF rank
  <2> QED
    BY <2>1, <1>5, FS_Injection
<1>7. ASSUME NEW i \in 1..c PROVE Nth(K, i) \in K /\ rank[Nth(K, i)] = i
  <2>1. \E k \in K : rank[k] = i
    <3> HIDE DEF rank
    <3> QED
      BY <1>6 DEF Surjection
  <2>2. \E k \in K : Cardinality({j \in K : j <= k}) = i
    BY <2>1
  <2>3. Nth(K, i) \in K /\ Cardinality({j \in K : j <= Nth(K, i)}) = i
    BY <2>2, Zenon DEF Nth
  <2> QED
    BY <2>3
<1> HIDE DEF rank, upto, c
<1>8. ASSUME NEW k \in K PROVE \E i \in 1..c : Nth(K, i) = k
  <2>1. rank[k] \in 1..c
    BY <1>2
  <2>2. Nth(K, rank[k]) \in K /\ rank[Nth(K, rank[k])] = rank[k]
    BY <2>1, <1>7
  <2> QED
    BY <2>1, <2>2, <1>4, Zenon
<1>9. \A i, j \in 1..c : Nth(K, i) = Nth(K, j) => i = j
  BY <1>7, Zenon
<1> QED
  BY <1>1, <1>7, <1>8, <1>9, Zenon DEF c

LEMMA FunctionSeq ==
  ASSUME NEW S, NEW n \in Nat, NEW f \in [1..n -> S]
  PROVE  f \in Seq(S) /\ Len(f) = n /\ DOMAIN f = 1..n
  BY SeqDef, LenProperties

\* What is kept are members at the positions that are kept, each of them once.
LEMMA KeptMembers ==
  ASSUME NEW S, NEW s \in Seq(S), NEW K \in SUBSET (DOMAIN s)
  PROVE  /\ Kept(s, K) \in Seq(S) /\ DOMAIN Kept(s, K) = 1..Cardinality(K) /\ Cardinality(K) \in Nat
         /\ \A i \in DOMAIN Kept(s, K) : Nth(K, i) \in K /\ Kept(s, K)[i] = s[Nth(K, i)]
         /\ \A i, j \in DOMAIN Kept(s, K) : Nth(K, i) = Nth(K, j) => i = j
<1> DEFINE c == Cardinality(K)
<1>1. Len(s) \in Nat /\ DOMAIN s = 1..Len(s) /\ \A k \in DOMAIN s : s[k] \in S
  OBVIOUS
<1>2. /\ c \in Nat /\ \A i \in 1..c : Nth(K, i) \in K
      /\ \A i, j \in 1..c : Nth(K, i) = Nth(K, j) => i = j
  BY <1>1, NthBijection
<1>3. Kept(s, K) = [i \in 1..c |-> s[Nth(K, i)]]
  BY DEF Kept
<1> HIDE DEF c
<1>4. [i \in 1..c |-> s[Nth(K, i)]] \in [1..c -> S]
  BY <1>1, <1>2
<1>5. Kept(s, K) \in Seq(S) /\ DOMAIN Kept(s, K) = 1..c
  BY <1>2, <1>3, <1>4, FunctionSeq
<1> QED
  BY <1>2, <1>3, <1>5 DEF c

LEMMA RemoveType ==
  ASSUME NEW S, NEW s \in Seq(S), NEW i \in DOMAIN s
  PROVE  RemoveAt(s, i) \in Seq(S)
<1>1. Len(s) \in Nat /\ i \in 1..Len(s)
  OBVIOUS
<1>2. SubSeq(s, 1, i - 1) \in Seq(S) /\ SubSeq(s, i + 1, Len(s)) \in Seq(S)
  BY <1>1
<1> QED
  BY <1>2 DEF RemoveAt

\* Without one member, a sequence has the others, each of them once.
LEMMA RemoveMembers ==
  ASSUME NEW S, NEW s \in Seq(S), NEW i \in DOMAIN s
  PROVE  \E p \in [DOMAIN RemoveAt(s, i) -> DOMAIN s \ {i}] :
           /\ \A j \in DOMAIN RemoveAt(s, i) : RemoveAt(s, i)[j] = s[p[j]]
           /\ \A j, k \in DOMAIN RemoveAt(s, i) : p[j] = p[k] => j = k
           /\ \A k \in DOMAIN s \ {i} : \E j \in DOMAIN RemoveAt(s, i) : p[j] = k
<1> DEFINE n == Len(s)
           a == SubSeq(s, 1, i - 1)
           b == SubSeq(s, i + 1, n)
           p == [j \in 1..(n - 1) |-> IF j < i THEN j ELSE j + 1]
<1>1. n \in Nat /\ i \in 1..n /\ DOMAIN s = 1..n
  OBVIOUS
<1>2. RemoveAt(s, i) = a \o b /\ a \in Seq(S) /\ b \in Seq(S)
  BY <1>1 DEF RemoveAt
<1>3. /\ Len(a) = i - 1 /\ Len(b) = n - i
      /\ \A j \in 1..(i - 1) : a[j] = s[j]
      /\ \A j \in 1..(n - i) : b[j] = s[i + j]
  BY <1>1
<1> HIDE DEF n, a, b
<1>4. DOMAIN RemoveAt(s, i) = 1..(n - 1)
  BY <1>1, <1>2, <1>3
<1>5. ASSUME NEW j \in 1..(n - 1) PROVE RemoveAt(s, i)[j] = s[p[j]]
  <2>1. CASE j < i
    <3>1. (a \o b)[j] = a[j]
      BY <2>1, <1>1, <1>2, <1>3
    <3> QED
      BY <2>1, <3>1, <1>1, <1>2, <1>3
  <2>2. CASE ~(j < i)
    <3>1. j - (i - 1) \in 1..(n - i)
      BY <2>2, <1>1
    <3>2. b[j - (i - 1)] = s[i + (j - (i - 1))] /\ i + (j - (i - 1)) = j + 1
      BY <3>1, <1>1, <1>3
    <3>3. j \in 1..(Len(a) + Len(b)) /\ ~(j <= Len(a)) /\ j - Len(a) = j - (i - 1)
      BY <2>2, <1>1, <1>3
    <3>4. (a \o b)[j] = b[j - Len(a)]
      BY <3>3, <1>2
    <3> QED
      BY <2>2, <3>2, <3>3, <3>4, <1>2
  <2> QED
    BY <2>1, <2>2
<1>6. p \in [1..(n - 1) -> (1..n) \ {i}] /\ \A j, k \in 1..(n - 1) : p[j] = p[k] => j = k
  BY <1>1
<1>7. ASSUME NEW k \in (1..n) \ {i} PROVE \E j \in 1..(n - 1) : p[j] = k
  <2>1. CASE k < i
    <3>1. k \in 1..(n - 1) /\ p[k] = k
      BY <2>1, <1>1
    <3> QED
      BY <3>1, Zenon
  <2>2. CASE ~(k < i)
    <3>1. k - 1 \in 1..(n - 1) /\ p[k - 1] = k
      BY <2>2, <1>1
    <3> QED
      BY <3>1, Zenon
  <2> QED
    BY <2>1, <2>2
<1> HIDE DEF p
<1> DEFINE R == DOMAIN RemoveAt(s, i)
           D == DOMAIN s \ {i}
<1>8. R = 1..(n - 1) /\ D = (1..n) \ {i}
  BY <1>1, <1>4
<1> HIDE DEF R, D
<1>9. p \in [R -> D] /\ (\A j, k \in R : p[j] = p[k] => j = k) /\ \A k \in D : \E j \in R : p[j] = k
  BY <1>6, <1>7, <1>8, Zenon
<1>10. \A j \in R : RemoveAt(s, i)[j] = s[p[j]]
  BY <1>5, <1>8, Zenon
<1> QED
  BY <1>9, <1>10, Zenon DEF R, D

---------------------------------------------------------------------------
(* Types                                                                   *)

LEMMA Numbers ==
  /\ MaxWarns \in Nat /\ WarnTerm \in Nat /\ MaxHour \in Nat /\ MaxCommands \in Nat /\ MaxQueries \in Nat
  /\ MaxWarns > 0 /\ MaxHour > 0 /\ Terms \subseteq Nat
BY NumberAssumption

LEMMA MinIn ==
  ASSUME NEW S \in SUBSET Nat, S /= {}
  PROVE  Min(S) \in S /\ \A y \in S : Min(S) <= y
<1>1. PICK x \in S : \A y \in S : ~(<<y, x>> \in OpToRel(<, Nat))
  BY WFMin, NatLessThanWellFounded, Zenon
<1>2. \A y \in S : <<y, x>> \in OpToRel(<, Nat) <=> y < x
  BY <1>1, Zenon DEF OpToRel
<1>3. \A y \in S : ~(y < x)
  BY <1>1, <1>2, Zenon
<1>4. \A y \in S : x <= y
  BY <1>3
<1> QED
  BY <1>4, Zenon DEF Min

Stages == {"sent", "done"}
Asked == [op : {"add", "update", "ban", "remove", "list"}, row : Rows, stage : Stages, rows : Seq(Rows)]

Data ==
  /\ table \in Seq(Rows) /\ cache \in Seq(Rows) /\ queries \in Seq(Asked)
  /\ hour \in 1..MaxHour /\ commands \in 0..MaxCommands /\ disorder \in BOOLEAN
Server == banned \subseteq User /\ lost \subseteq banned
State  == Data /\ Server /\ strikes \in [User -> Nat]

LEMMA StateType == State => TypeOK
<1> SUFFICES ASSUME State PROVE TypeOK
  OBVIOUS
<1>1. \A r \in ToSet(table) \cup ToSet(cache) : r \in Rows
  BY DEF State, Data, ToSet
<1>2. \A k \in DOMAIN queries : queries[k] \in Asked
  BY DEF State, Data
<1>3. \A k \in DOMAIN queries : queries[k].row \in Rows /\ queries[k].stage \in {"sent", "done"}
  BY <1>2 DEF Asked, Stages
<1> QED
  BY <1>1, <1>3, Zenon DEF State, Data, Server, TypeOK

\* IsWarn finds a row of the user.
LEMMA WarnType ==
  ASSUME cache \in Seq(Rows), NEW u
  PROVE  /\ IsWarn(u) => Warn(u) \in Rows /\ Warn(u) \in ToSet(cache) /\ Warn(u).name = u
         /\ Warn(u).warnings \in 0..MaxWarns /\ Warn(u).daysban \in 0..MaxHour
<1> DEFINE S == {k \in DOMAIN cache : cache[k].name = u}
<1>1. Len(cache) \in Nat /\ DOMAIN cache = 1..Len(cache) /\ \A k \in DOMAIN cache : cache[k] \in Rows
  OBVIOUS
<1>2. CASE IsWarn(u)
  <2>1. S \in SUBSET Nat /\ S /= {}
    BY <1>1, <1>2 DEF IsWarn
  <2>2. Warn(u) = cache[Min(S)]
    BY <1>2, Zenon DEF Warn
  <2>3. Min(S) \in S
    <3> HIDE DEF S
    <3> QED
      BY <2>1, MinIn
  <2>4. Min(S) \in DOMAIN cache /\ cache[Min(S)].name = u
    BY <2>3
  <2> HIDE DEF S
  <2>5. Warn(u) \in Rows /\ Warn(u) \in ToSet(cache) /\ Warn(u).name = u
    BY <1>1, <2>2, <2>4 DEF ToSet
  <2> QED
    BY <2>5 DEF Rows
<1>3. CASE ~IsWarn(u)
  <2>1. Warn(u) = NoRow
    BY <1>3, Zenon DEF Warn
  <2> QED
    BY <1>3, <2>1, Numbers DEF NoRow
<1> QED
  BY <1>2, <1>3

LEMMA RowType ==
  \A u \in User : \A w \in 0..MaxWarns : \A d \in 0..MaxHour :
    /\ Row(u, w, d) \in Rows /\ Row(u, w, d).name = u
    /\ Row(u, w, d).warnings = w /\ Row(u, w, d).daysban = d
BY DEF Row, Rows

\* What the queries say.
LEMMA AskFields ==
  /\ \A u, w, d : /\ Add(u, w, d).op = "add" /\ Add(u, w, d).row = Row(u, w, d)
                  /\ Add(u, w, d).stage = "sent" /\ Add(u, w, d).rows = <<>>
  /\ \A u, w : /\ UpdateAdd(u, w).op = "update" /\ UpdateAdd(u, w).row = Row(u, w, 0)
               /\ UpdateAdd(u, w).stage = "sent" /\ UpdateAdd(u, w).rows = <<>>
  /\ \A u, d : /\ ChannelBan(u, d).op = "ban" /\ ChannelBan(u, d).row = Row(u, 0, d)
               /\ ChannelBan(u, d).stage = "sent" /\ ChannelBan(u, d).rows = <<>>
  /\ \A u : /\ Erase(u).op = "remove" /\ Erase(u).row = Row(u, 0, 0)
            /\ Erase(u).stage = "sent" /\ Erase(u).rows = <<>>
BY DEF Add, UpdateAdd, ChannelBan, Erase, Ask

LEMMA AskTypes ==
  /\ \A u \in User : \A w \in 0..MaxWarns : \A d \in 0..MaxHour : Add(u, w, d) \in Asked
  /\ \A u \in User : \A w \in 0..MaxWarns : UpdateAdd(u, w) \in Asked
  /\ \A u \in User : \A d \in 0..MaxHour : ChannelBan(u, d) \in Asked
  /\ \A u \in User : Erase(u) \in Asked
  /\ List \in Asked /\ List.op = "list" /\ List.stage = "sent" /\ List.rows = <<>>
<1> DEFINE ops == {"add", "update", "ban", "remove", "list"}
<1>1. 0 \in 0..MaxWarns /\ 0 \in 0..MaxHour /\ <<>> \in Seq(Rows) /\ "sent" \in Stages
  BY Numbers DEF Stages
<1>2. ASSUME NEW op \in ops, NEW row \in Rows
      PROVE  /\ Ask(op, row) \in Asked /\ Ask(op, row).op = op /\ Ask(op, row).stage = "sent"
             /\ Ask(op, row).rows = <<>>
  BY <1>1 DEF Ask, Asked
<1>3. "add" \in ops /\ "update" \in ops /\ "ban" \in ops /\ "remove" \in ops /\ "list" \in ops
  OBVIOUS
<1> HIDE DEF ops
<1>4. \A u \in User : \A w \in 0..MaxWarns : \A d \in 0..MaxHour : Add(u, w, d) \in Asked
  BY <1>2, <1>3, RowType, Zenon DEF Add
<1>5. \A u \in User : \A w \in 0..MaxWarns : UpdateAdd(u, w) \in Asked
  BY <1>1, <1>2, <1>3, RowType, Zenon DEF UpdateAdd
<1>6. \A u \in User : \A d \in 0..MaxHour : ChannelBan(u, d) \in Asked
  BY <1>1, <1>2, <1>3, RowType, Zenon DEF ChannelBan
<1>7. \A u \in User : Erase(u) \in Asked
  BY <1>1, <1>2, <1>3, RowType, Zenon DEF Erase
<1>8. (CHOOSE u \in User : TRUE) \in User
  BY UserAssumption, Zenon
<1>9. List \in Asked /\ List.op = "list" /\ List.stage = "sent" /\ List.rows = <<>>
  <2> DEFINE row == Row(CHOOSE u \in User : TRUE, 0, 0)
  <2>1. row \in Rows
    BY <1>1, <1>8, RowType
  <2>2. List = Ask("list", row)
    BY Zenon DEF List
  <2> HIDE DEF row
  <2>3. /\ Ask("list", row) \in Asked /\ Ask("list", row).op = "list" /\ Ask("list", row).stage = "sent"
        /\ Ask("list", row).rows = <<>>
    BY <1>2, <1>3, <2>1
  <2> QED
    BY <2>2, <2>3, Zenon
<1> QED
  BY <1>4, <1>5, <1>6, <1>7, <1>9

---------------------------------------------------------------------------
(* What is asked of the database                                           *)

LEMMA FunctionOfSet ==
  ASSUME NEW S, IsFiniteSet(S)
  PROVE  /\ SetToSeq(S) \in Seq(S) /\ Cardinality(S) \in Nat /\ DOMAIN SetToSeq(S) = 1..Cardinality(S)
         /\ \A j, k \in DOMAIN SetToSeq(S) : SetToSeq(S)[j] = SetToSeq(S)[k] => j = k
<1> DEFINE c == Cardinality(S)
<1>1. c \in Nat
  BY FS_CardinalityType
<1>2. IsFiniteSet(1..c) /\ Cardinality(1..c) = c
  BY <1>1, FS_Interval
<1>3. PICK f \in Bijection(1..c, S) : TRUE
  BY <1>2, FS_SameCardinalityBij DEF ExistsBijection
<1>4. f \in [1..c -> S] /\ IsInjective(f)
  BY <1>3 DEF Bijection, Injection
<1>5. SetToSeq(S) \in [1..c -> S] /\ IsInjective(SetToSeq(S))
  BY <1>4, Zenon DEF SetToSeq
<1> DEFINE g == SetToSeq(S)
<1> HIDE DEF g, c
<1>6. g \in [1..c -> S] /\ IsInjective(g)
  BY <1>5 DEF g, c
<1>7. g \in Seq(S) /\ DOMAIN g = 1..c
  BY <1>1, <1>6, FunctionSeq
<1>8. \A j, k \in DOMAIN g : g[j] = g[k] => j = k
  BY <1>6, Zenon DEF IsInjective
<1> QED
  BY <1>1, <1>7, <1>8, Zenon DEF g, c

\* Two queries of one user are an update and a ban.
Apart(qs) ==
  \A j, k \in DOMAIN qs : j /= k /\ qs[j].row.name = qs[k].row.name =>
    \/ qs[j].op = "update" /\ qs[k].op = "ban"
    \/ qs[j].op = "ban" /\ qs[k].op = "update"

\* What commands and the check ask for.
Asks(qs) ==
  /\ qs \in Seq(Asked) /\ Apart(qs)
  /\ \A k \in DOMAIN qs : /\ qs[k].stage = "sent" /\ qs[k].op /= "list"
                          /\ qs[k].op = "add" => ~IsWarn(qs[k].row.name)
                          /\ qs[k].op = "update" => IsWarn(qs[k].row.name)

LEMMA AsksOne ==
  ASSUME NEW q \in Asked, q.stage = "sent", q.op /= "list",
         q.op = "add" => ~IsWarn(q.row.name), q.op = "update" => IsWarn(q.row.name)
  PROVE  Asks(<<q>>) /\ DOMAIN <<q>> = {1} /\ <<q>>[1] = q
<1> DEFINE qs == <<q>>
<1>1. qs \in Seq(Asked) /\ DOMAIN qs = {1} /\ qs[1] = q
  OBVIOUS
<1> HIDE DEF qs
<1>2. Asks(qs)
  BY <1>1 DEF Asks, Apart
<1> QED
  BY <1>1, <1>2, Zenon DEF qs

LEMMA AsksBan ==
  ASSUME NEW u \in User, NEW d \in 0..MaxHour
  PROVE  Asks(<<ChannelBan(u, d)>>)
<1>1. ChannelBan(u, d) \in Asked /\ ChannelBan(u, d).op = "ban" /\ ChannelBan(u, d).stage = "sent"
  BY AskTypes, AskFields
<1> QED
  BY <1>1, AsksOne

LEMMA AsksUpdate ==
  ASSUME NEW u \in User, NEW w \in 0..MaxWarns, IsWarn(u)
  PROVE  Asks(<<UpdateAdd(u, w)>>)
<1>1. /\ UpdateAdd(u, w) \in Asked /\ UpdateAdd(u, w).op = "update" /\ UpdateAdd(u, w).stage = "sent"
      /\ UpdateAdd(u, w).row.name = u
  <2>1. 0 \in 0..MaxHour
    BY Numbers
  <2> QED
    BY <2>1, AskTypes, AskFields, RowType
<1> QED
  BY <1>1, AsksOne

LEMMA AsksAdd ==
  ASSUME NEW u \in User, NEW d \in 0..MaxHour, ~IsWarn(u)
  PROVE  Asks(<<Add(u, 1, d)>>)
<1>1. /\ Add(u, 1, d) \in Asked /\ Add(u, 1, d).op = "add" /\ Add(u, 1, d).stage = "sent"
      /\ Add(u, 1, d).row.name = u
  <2>1. 1 \in 0..MaxWarns
    BY Numbers
  <2> QED
    BY <2>1, AskTypes, AskFields, RowType
<1> QED
  BY <1>1, AsksOne

LEMMA AsksErase ==
  ASSUME NEW u \in User
  PROVE  Asks(<<Erase(u)>>)
<1>1. Erase(u) \in Asked /\ Erase(u).op = "remove" /\ Erase(u).stage = "sent"
  BY AskTypes, AskFields
<1> QED
  BY <1>1, AsksOne

LEMMA AsksBoth ==
  ASSUME NEW u \in User, NEW d \in 0..MaxHour, IsWarn(u)
  PROVE  Asks(<<UpdateAdd(u, 0), ChannelBan(u, d)>>)
<1> DEFINE a == UpdateAdd(u, 0)
           b == ChannelBan(u, d)
           qs == <<a, b>>
<1>1. 0 \in 0..MaxWarns /\ 0 \in 0..MaxHour
  BY Numbers
<1>2. a \in Asked /\ a.op = "update" /\ a.stage = "sent" /\ a.row.name = u
  BY <1>1, AskTypes, AskFields, RowType
<1>3. b \in Asked /\ b.op = "ban" /\ b.stage = "sent"
  BY <1>1, AskTypes, AskFields
<1> HIDE DEF a, b
<1>4. qs \in Seq(Asked) /\ DOMAIN qs = {1, 2} /\ qs[1] = a /\ qs[2] = b
  BY <1>2, <1>3
<1> HIDE DEF qs
<1>5. Asks(qs)
  BY <1>2, <1>3, <1>4 DEF Asks, Apart
<1> QED
  BY <1>5 DEF qs, a, b

LEMMA AsksLifts ==
  ASSUME NEW us \in SUBSET User
  PROVE  /\ Asks(SetToSeq({ChannelBan(u, 0) : u \in us}))
         /\ \A k \in DOMAIN SetToSeq({ChannelBan(u, 0) : u \in us}) :
              SetToSeq({ChannelBan(u, 0) : u \in us})[k].op = "ban"
<1> DEFINE S == {ChannelBan(u, 0) : u \in us}
           f == [u \in us |-> ChannelBan(u, 0)]
           qs == SetToSeq(S)
<1>1. 0 \in 0..MaxWarns /\ 0 \in 0..MaxHour
  BY Numbers
<1>2. IsFiniteSet(S)
  <2>1. IsFiniteSet(us)
    BY UserAssumption, FS_Subset
  <2>2. f \in Surjection(us, S)
    BY DEF Surjection
  <2> QED
    BY <2>1, <2>2, FS_Surjection
<1>3. \A q \in S : /\ q \in Asked /\ q.op = "ban" /\ q.stage = "sent" /\ q.row.name \in us
                   /\ q = ChannelBan(q.row.name, 0)
  <2>1. ASSUME NEW u \in us
        PROVE  /\ ChannelBan(u, 0) \in Asked /\ ChannelBan(u, 0).op = "ban"
               /\ ChannelBan(u, 0).stage = "sent" /\ ChannelBan(u, 0).row.name = u
    BY <1>1, AskTypes, AskFields, RowType
  <2> SUFFICES ASSUME NEW q \in S
               PROVE  /\ q \in Asked /\ q.op = "ban" /\ q.stage = "sent" /\ q.row.name \in us
                      /\ q = ChannelBan(q.row.name, 0)
    OBVIOUS
  <2>2. PICK u \in us : q = ChannelBan(u, 0)
    OBVIOUS
  <2>3. q.row.name = u /\ q \in Asked /\ q.op = "ban" /\ q.stage = "sent"
    BY <2>1, <2>2, Zenon
  <2> QED
    BY <2>2, <2>3, Zenon
<1> HIDE DEF S
<1>4. /\ qs \in Seq(S) /\ \A j, k \in DOMAIN qs : qs[j] = qs[k] => j = k
  BY <1>2, FunctionOfSet
<1> HIDE DEF qs
<1>5. \A k \in DOMAIN qs : qs[k] \in S
  BY <1>4
<1>6. Apart(qs)
  BY <1>3, <1>4, <1>5, Zenon DEF Apart
<1>7. qs \in Seq(Asked)
  BY <1>3, <1>4
<1>8. Asks(qs) /\ \A k \in DOMAIN qs : qs[k].op = "ban"
  BY <1>3, <1>5, <1>6, <1>7 DEF Asks
<1> QED
  BY <1>8 DEF qs, S

LEMMA AsksCban ==
  ASSUME Data, NEW u \in User, NEW h \in Nat, hour + h <= MaxHour
  PROVE  /\ Asks(<<CbanQuery(u, h)>>) /\ CbanQuery(u, h).op \in {"add", "ban"}
         /\ IsWarn(u) => CbanQuery(u, h).op = "ban" /\ Asks(<<UpdateAdd(u, 0), CbanQuery(u, h)>>)
<1> DEFINE d == hour + h
<1>1. d \in 0..MaxHour
  BY Numbers DEF Data
<1> HIDE DEF d
<1>2. CbanQuery(u, h) = IF IsWarn(u) THEN ChannelBan(u, d) ELSE Add(u, 1, d)
  BY Zenon DEF CbanQuery, d
<1>3. CASE IsWarn(u)
  BY <1>1, <1>2, <1>3, AsksBan, AsksBoth, AskFields
<1>4. CASE ~IsWarn(u)
  BY <1>1, <1>2, <1>4, AsksAdd, AskFields
<1> QED
  BY <1>3, <1>4

---------------------------------------------------------------------------
(* Every step keeps the types.                                             *)

LEMMA IssueData ==
  ASSUME Data, NEW qs, Asks(qs), Issue(qs), commands' \in 0..MaxCommands
  PROVE  Data'
<1>1. queries' = queries \o qs /\ table' = table /\ cache' = cache /\ hour' = hour
  BY Zenon DEF Issue
<1>2. queries' \in Seq(Asked)
  BY <1>1, ConcatProperties DEF Data, Asks
<1>3. disorder' \in BOOLEAN
  BY Zenon DEF Issue
<1> QED
  BY <1>1, <1>2, <1>3, Zenon DEF Data

LEMMA CommandData ==
  ASSUME Data, NEW qs, Asks(qs), Command(qs)
  PROVE  Data' /\ Issue(qs)
<1>1. Issue(qs) /\ commands < MaxCommands /\ commands' = commands + 1
  BY Zenon DEF Command
<1>2. commands' \in 0..MaxCommands
  BY <1>1, Numbers DEF Data
<1> QED
  BY <1>1, <1>2, IssueData

LEMMA BanServer ==
  ASSUME Server, NEW u \in User, NEW recorded, Ban(u, recorded)
  PROVE  Server'
BY DEF Server, Ban

LEMMA UnbanServer ==
  ASSUME Server, NEW us, Unban(us)
  PROVE  Server'
BY DEF Server, Unban

LEMMA CountStrikes ==
  ASSUME strikes \in [User -> Nat], NEW u \in User, NEW n \in Nat, Count(u, n)
  PROVE  strikes' \in [User -> Nat]
BY DEF Count

LEMMA RefreshData ==
  ASSUME Data, DailyRefresh \/ \E us \in {{}, User} : Reload(us)
  PROVE  Data'
<1> DEFINE K == {k \in DOMAIN queries : queries[k].op /= "list"}
           rest == Kept(queries, K)
           first == <<List>>
<1>1. /\ queries' = first \o rest \/ queries' = first \o queries
      /\ table' = table /\ cache' = cache /\ hour' = hour /\ disorder' \in BOOLEAN
  <2>1. CASE DailyRefresh
    BY <2>1, Zenon DEF DailyRefresh
  <2>2. CASE \E us \in {{}, User} : Reload(us)
    BY <2>2, Zenon DEF Reload
  <2> QED
    BY <2>1, <2>2
<1>2. commands' \in 0..MaxCommands
  <2>1. commands' = commands \/ (commands < MaxCommands /\ commands' = commands + 1)
    BY Zenon DEF DailyRefresh, Reload
  <2> QED
    BY <2>1, Numbers DEF Data
<1>3. K \in SUBSET (DOMAIN queries) /\ queries \in Seq(Asked) /\ first \in Seq(Asked)
  BY AskTypes DEF Data
<1> HIDE DEF K
<1>4. rest \in Seq(Asked)
  BY <1>3, KeptMembers
<1> HIDE DEF rest, first
<1>5. queries' \in Seq(Asked)
  <2>1. \A a, b \in Seq(Asked) : a \o b \in Seq(Asked)
    BY ConcatProperties
  <2> QED
    BY <1>1, <1>3, <1>4, <2>1, Zenon
<1> QED
  BY <1>1, <1>2, <1>5, Zenon DEF Data

LEMMA CommandsState ==
  ASSUME State, Commands
  PROVE  State'
<1>1. Data /\ Server /\ strikes \in [User -> Nat] /\ cache \in Seq(Rows)
  BY DEF State, Data
<1>2. ASSUME NEW u \in User, NEW h \in Terms, Cban(u, h) PROVE State'
  <2>1. /\ hour + h <= MaxHour /\ Command(<<CbanQuery(u, h)>>) /\ Ban(u, TRUE) /\ strikes' = strikes
    BY <1>2, Zenon DEF Cban
  <2>2. h \in Nat
    BY Numbers
  <2>3. Asks(<<CbanQuery(u, h)>>)
    BY <1>1, <2>1, <2>2, AsksCban
  <2> QED
    BY <1>1, <2>1, <2>3, CommandData, BanServer DEF State
<1>3. ASSUME NEW u \in User, FirstWarn(u) PROVE State'
  <2>1. /\ ~IsWarn(u) /\ Command(<<Add(u, 1, 0)>>) /\ Count(u, strikes[u] + 1)
        /\ banned' = banned /\ lost' = lost
    BY <1>3, Zenon DEF FirstWarn
  <2>2. Asks(<<Add(u, 1, 0)>>)
    BY <2>1, Numbers, AsksAdd
  <2>3. strikes[u] + 1 \in Nat
    BY <1>1
  <2> QED
    BY <1>1, <2>1, <2>2, <2>3, CommandData, CountStrikes DEF State, Server
<1>4. ASSUME NEW u \in User, NextWarn(u) PROVE State'
  <2> DEFINE w == Warn(u).warnings + 1
  <2>1. /\ IsWarn(u) /\ ~Third(u) /\ Command(<<UpdateAdd(u, w)>>) /\ Count(u, strikes[u] + 1)
        /\ banned' = banned /\ lost' = lost
    BY <1>4, Zenon DEF NextWarn
  <2>2. w \in 0..MaxWarns
    BY <1>1, <2>1, WarnType, Numbers DEF Third
  <2> HIDE DEF w
  <2>3. Asks(<<UpdateAdd(u, w)>>)
    BY <2>1, <2>2, AsksUpdate
  <2>4. strikes[u] + 1 \in Nat
    BY <1>1
  <2> QED
    BY <1>1, <2>1, <2>3, <2>4, CommandData, CountStrikes DEF State, Server
<1>5. ASSUME NEW u \in User, LastWarn(u) PROVE State'
  <2>1. /\ IsWarn(u) /\ hour + WarnTerm <= MaxHour /\ Count(u, 0)
        /\ \/ Command(<<UpdateAdd(u, 0), CbanQuery(u, WarnTerm)>>) /\ Ban(u, TRUE)
           \/ Command(<<UpdateAdd(u, 0)>>) /\ banned' = banned /\ lost' = lost
    BY <1>5, Zenon DEF LastWarn
  <2>2. Asks(<<UpdateAdd(u, 0), CbanQuery(u, WarnTerm)>>) /\ Asks(<<UpdateAdd(u, 0)>>)
    <3>1. WarnTerm \in Nat /\ 0 \in 0..MaxWarns
      BY Numbers
    <3>2. Asks(<<UpdateAdd(u, 0), CbanQuery(u, WarnTerm)>>)
      BY <1>1, <2>1, <3>1, AsksCban
    <3>3. Asks(<<UpdateAdd(u, 0)>>)
      BY <2>1, <3>1, AsksUpdate
    <3> QED
      BY <3>2, <3>3
  <2>3. Data' /\ strikes' \in [User -> Nat]
    BY <1>1, <2>1, <2>2, CommandData, CountStrikes
  <2>4. Server'
    BY <1>1, <2>1, BanServer DEF Server
  <2> QED
    BY <2>3, <2>4 DEF State
<1>6. ASSUME NEW u \in User, DelWarn(u) PROVE State'
  <2>1. /\ IsWarn(u) /\ Command(<<UpdateAdd(u, 0)>>) /\ Count(u, 0)
        /\ banned' = banned /\ lost' = lost
    BY <1>6, Zenon DEF DelWarn
  <2>2. Asks(<<UpdateAdd(u, 0)>>)
    BY <2>1, Numbers, AsksUpdate
  <2> QED
    BY <1>1, <2>1, <2>2, CommandData, CountStrikes DEF State, Server
<1>7. ASSUME NEW u \in User, EraseWarn(u) PROVE State'
  <2>1. /\ Command(<<Erase(u)>>) /\ Count(u, 0) /\ lost' = lost \cup ({u} \cap banned) /\ banned' = banned
    BY <1>7, Zenon DEF EraseWarn
  <2>2. Server'
    BY <1>1, <2>1 DEF Server
  <2> QED
    BY <1>1, <2>1, <2>2, AsksErase, CommandData, CountStrikes DEF State
<1>8. ASSUME NEW u \in User, NEW v \in User, DelCban(u) \/ Info(u, v) PROVE State'
  <2>1. Command(<<ChannelBan(u, 0)>>) /\ Unban({u}) /\ strikes' = strikes
    BY <1>8, Zenon DEF DelCban, Info
  <2>2. Asks(<<ChannelBan(u, 0)>>)
    BY Numbers, AsksBan
  <2> QED
    BY <1>1, <2>1, <2>2, CommandData, UnbanServer DEF State
<1>9. CASE FixCban
  <2> DEFINE us == {r.name : r \in {r \in ToSet(cache) : r.daysban /= 0}}
  <2>1. /\ commands < MaxCommands /\ commands' = commands + 1 /\ Unban(us) /\ disorder' = TRUE
        /\ table' = table /\ cache' = cache /\ queries' = queries /\ hour' = hour /\ strikes' = strikes
    BY <1>9, Zenon DEF FixCban
  <2> HIDE DEF us
  <2>2. commands' \in 0..MaxCommands
    BY <1>1, <2>1, Numbers DEF Data
  <2>3. Data'
    BY <1>1, <2>1, <2>2, Zenon DEF Data
  <2> QED
    BY <1>1, <2>1, <2>3, UnbanServer DEF State
<1>10. ASSUME NEW us \in {{}, User}, Reload(us) PROVE State'
  <2>1. Unban(us) /\ strikes' = strikes
    BY <1>10, Zenon DEF Reload
  <2>2. Data'
    BY <1>1, <1>10, RefreshData
  <2> QED
    BY <1>1, <2>1, <2>2, UnbanServer DEF State
<1> QED
  BY <1>2, <1>3, <1>4, <1>5, <1>6, <1>7, <1>8, <1>9, <1>10, Zenon DEF Commands

LEMMA ChannelState ==
  ASSUME State, Check \/ DailyRefresh \/ Tick \/ \E u \in User : Join(u)
  PROVE  State'
<1>1. Data /\ Server /\ strikes \in [User -> Nat] /\ cache \in Seq(Rows)
  BY DEF State, Data
<1>2. CASE Check
  <2> DEFINE us == {r.name : r \in {r \in ToSet(cache) : Expired(r)}}
             qs == SetToSeq({ChannelBan(u, 0) : u \in us})
  <2>1. Issue(qs) /\ Unban(us) /\ commands' = commands /\ strikes' = strikes
    BY <1>2, Zenon DEF Check
  <2>2. us \in SUBSET User
    <3>1. \A r \in ToSet(cache) : r \in Rows
      BY <1>1 DEF ToSet
    <3>2. \A r \in ToSet(cache) : r.name \in User
      BY <3>1 DEF Rows
    <3> QED
      BY <3>2
  <2> HIDE DEF us
  <2>3. Asks(qs)
    BY <2>2, AsksLifts
  <2> HIDE DEF qs
  <2>4. commands' \in 0..MaxCommands
    BY <1>1, <2>1 DEF Data
  <2> QED
    BY <1>1, <2>1, <2>3, <2>4, IssueData, UnbanServer DEF State
<1>3. CASE DailyRefresh
  <2>1. banned' = banned /\ lost' = lost /\ strikes' = strikes
    BY <1>3, Zenon DEF DailyRefresh
  <2>2. Data'
    BY <1>1, <1>3, RefreshData
  <2> QED
    BY <1>1, <2>1, <2>2, Zenon DEF State, Server
<1>4. CASE Tick
  <2>1. hour' \in 1..MaxHour
    BY <1>1, <1>4, Numbers DEF Tick, Data
  <2>2. /\ table' = table /\ cache' = cache /\ queries' = queries /\ banned' = banned
        /\ commands' = commands /\ strikes' = strikes /\ lost' = lost /\ disorder' = disorder
    BY <1>4, Zenon DEF Tick
  <2> QED
    BY <1>1, <2>1, <2>2, Zenon DEF State, Data, Server
<1>5. ASSUME NEW u \in User, Join(u) PROVE State'
  <2> DEFINE recorded == \E r \in ToSet(table) : r.name = u /\ r.daysban > 0
  <2>1. /\ Ban(u, recorded) /\ disorder' = (disorder \/ queries /= <<>>)
        /\ table' = table /\ cache' = cache /\ queries' = queries /\ hour' = hour
        /\ commands' = commands /\ strikes' = strikes
    BY <1>5, Zenon DEF Join
  <2> HIDE DEF recorded
  <2>2. Data'
    BY <1>1, <2>1, Zenon DEF Data
  <2> QED
    BY <1>1, <2>1, <2>2, BanServer DEF State
<1> QED
  BY <1>2, <1>3, <1>4, <1>5

---------------------------------------------------------------------------
(* The rows of a user, in the table or in m_Warns                          *)

Find(rows, u) == {r \in ToSet(rows) : r.name = u}

\* A user has at most one row.
OneEach(rows) == \A j, k \in DOMAIN rows : rows[j].name = rows[k].name => j = k

LEMMA FindPositions ==
  ASSUME NEW rows \in Seq(Rows)
  PROVE  /\ \A k \in DOMAIN rows : rows[k] \in Rows
         /\ \A u, r : r \in Find(rows, u) <=> \E k \in DOMAIN rows : rows[k] = r /\ rows[k].name = u
         /\ \A u, r : r \in Find(rows, u) => r \in Rows /\ r.name = u
         /\ \A u : Find(rows, u) = {} <=> \A k \in DOMAIN rows : rows[k].name /= u
<1>1. \A k \in DOMAIN rows : rows[k] \in Rows
  OBVIOUS
<1>2. \A u, r : r \in Find(rows, u) <=> \E k \in DOMAIN rows : rows[k] = r /\ rows[k].name = u
  BY DEF Find, ToSet
<1>3. \A u, r : r \in Find(rows, u) => r \in Rows /\ r.name = u
  BY <1>1, <1>2
<1>4. \A u : Find(rows, u) = {} <=> \A r : r \notin Find(rows, u)
  OBVIOUS
<1>5. \A u : Find(rows, u) = {} <=> \A k \in DOMAIN rows : rows[k].name /= u
  BY <1>2, <1>4, Zenon
<1> QED
  BY <1>1, <1>2, <1>3, <1>5

LEMMA FindWarn ==
  ASSUME cache \in Seq(Rows), NEW u
  PROVE  IsWarn(u) <=> Find(cache, u) /= {}
BY FindPositions DEF IsWarn

LEMMA FindOne ==
  ASSUME NEW rows \in Seq(Rows), OneEach(rows), NEW u, NEW r \in Find(rows, u)
  PROVE  Find(rows, u) = {r}
<1>1. ASSUME NEW q \in Find(rows, u) PROVE q = r
  BY FindPositions DEF OneEach
<1> QED
  BY <1>1

LEMMA WithoutRows ==
  ASSUME NEW rows \in Seq(Rows), NEW u
  PROVE  /\ Without(rows, u) \in Seq(Rows)
         /\ Find(Without(rows, u), u) = {}
         /\ \A v : v /= u => Find(Without(rows, u), v) = Find(rows, v)
         /\ OneEach(rows) => OneEach(Without(rows, u))
<1> DEFINE K == {k \in DOMAIN rows : rows[k].name /= u}
           left == Kept(rows, K)
<1>1. K \in SUBSET (DOMAIN rows) /\ Len(rows) \in Nat /\ DOMAIN rows = 1..Len(rows)
  OBVIOUS
<1>2. \A k : k \in K <=> k \in DOMAIN rows /\ rows[k].name /= u
  OBVIOUS
<1>3. Without(rows, u) = left
  BY Zenon DEF Without
<1> HIDE DEF K
<1>4. /\ left \in Seq(Rows)
      /\ \A i \in DOMAIN left : Nth(K, i) \in K /\ left[i] = rows[Nth(K, i)]
      /\ \A i, j \in DOMAIN left : Nth(K, i) = Nth(K, j) => i = j
  BY <1>1, KeptMembers
<1>5. \A k \in K : \E i \in DOMAIN left : Nth(K, i) = k
  <2>1. DOMAIN left = 1..Cardinality(K)
    BY <1>1, KeptMembers
  <2> DEFINE n == Len(rows)
  <2>2. n \in Nat /\ K \in SUBSET (1..n)
    BY <1>1
  <2> HIDE DEF n
  <2>3. \A k \in K : \E i \in 1..Cardinality(K) : Nth(K, i) = k
    BY <2>2, NthBijection
  <2> QED
    BY <2>1, <2>3
<1> HIDE DEF left
<1>6. Find(left, u) = {}
  BY <1>2, <1>4, FindPositions
<1>7. ASSUME NEW v, v /= u PROVE Find(left, v) = Find(rows, v)
  <2>1. ASSUME NEW r \in Find(left, v) PROVE r \in Find(rows, v)
    BY <1>2, <1>4, FindPositions
  <2>2. ASSUME NEW r \in Find(rows, v) PROVE r \in Find(left, v)
    <3>1. PICK k \in DOMAIN rows : rows[k] = r /\ rows[k].name = v
      BY FindPositions
    <3>2. k \in K
      BY <1>2, <1>7, <3>1
    <3>3. PICK i \in DOMAIN left : Nth(K, i) = k
      BY <1>5, <3>2, Zenon
    <3>4. left[i] = r
      BY <1>4, <3>1, <3>3, Zenon
    <3> QED
      BY <1>4, <3>1, <3>4, FindPositions
  <2> QED
    BY <2>1, <2>2
<1>8. OneEach(rows) => OneEach(left)
  BY <1>2, <1>4, Zenon DEF OneEach
<1> QED
  BY <1>3, <1>4, <1>6, <1>7, <1>8, Zenon

LEMMA AppendRows ==
  ASSUME NEW rows \in Seq(Rows), NEW r \in Rows
  PROVE  /\ Append(rows, r) \in Seq(Rows)
         /\ Find(Append(rows, r), r.name) = Find(rows, r.name) \cup {r}
         /\ \A v : v /= r.name => Find(Append(rows, r), v) = Find(rows, v)
         /\ OneEach(rows) /\ Find(rows, r.name) = {} => OneEach(Append(rows, r))
<1> DEFINE n == Len(rows)
           more == Append(rows, r)
<1>1. /\ n \in Nat /\ DOMAIN rows = 1..n /\ more \in Seq(Rows) /\ DOMAIN more = 1..(n + 1)
      /\ \A k \in 1..n : more[k] = rows[k]
      /\ more[n + 1] = r
  OBVIOUS
<1>2. \A k \in DOMAIN more : k \in 1..n \/ k = n + 1
  BY <1>1
<1>3. \A k \in 1..n : k \in DOMAIN more
  BY <1>1
<1>4. n + 1 \in DOMAIN more
  BY <1>1
<1> HIDE DEF more, n
<1>5. \A v : \A q \in Find(more, v) : q \in Find(rows, v) \/ (q = r /\ v = r.name)
  BY <1>1, <1>2, FindPositions
<1>6. \A v : \A q \in Find(rows, v) : q \in Find(more, v)
  BY <1>1, <1>3, FindPositions
<1>7. r \in Find(more, r.name)
  BY <1>1, <1>4, FindPositions
<1>8. Find(more, r.name) = Find(rows, r.name) \cup {r}
  BY <1>5, <1>6, <1>7
<1>9. ASSUME NEW v, v /= r.name PROVE Find(more, v) = Find(rows, v)
  <2>1. \A q : q \in Find(more, v) <=> q \in Find(rows, v)
    BY <1>5, <1>6, <1>9, Zenon
  <2> QED
    BY <2>1
<1>10. OneEach(rows) /\ Find(rows, r.name) = {} => OneEach(more)
  <2>1. Find(rows, r.name) = {} => \A k \in DOMAIN rows : rows[k].name /= r.name
    BY FindPositions
  <2> QED
    BY <1>1, <1>2, <2>1, Zenon DEF OneEach
<1> QED
  BY <1>1, <1>8, <1>9, <1>10, Zenon DEF more

SetBy(rows, u, set, new) ==
  /\ \A r \in Rows : set[r] \in Rows /\ set[r].name = r.name
  /\ DOMAIN new = DOMAIN rows
  /\ \A k \in DOMAIN rows : new[k] = IF rows[k].name = u THEN set[rows[k]] ELSE rows[k]

\* What SetAll does, whatever it sets in the rows of the user.
LEMMA SetRows ==
  ASSUME NEW rows \in Seq(Rows), NEW u, NEW set, NEW new \in Seq(Rows), SetBy(rows, u, set, new)
  PROVE  /\ \A v : v /= u => Find(new, v) = Find(rows, v)
         /\ Find(new, u) = {} <=> Find(rows, u) = {}
         /\ \A t \in Find(new, u) : \E r \in Find(rows, u) : t = set[r]
         /\ OneEach(rows) => OneEach(new)
<1>1. /\ DOMAIN new = DOMAIN rows
      /\ \A k \in DOMAIN rows : /\ rows[k] \in Rows /\ new[k] \in Rows /\ new[k].name = rows[k].name
                                /\ new[k] = IF rows[k].name = u THEN set[rows[k]] ELSE rows[k]
  BY FindPositions DEF SetBy
<1>2. ASSUME NEW v, v /= u PROVE Find(new, v) = Find(rows, v)
  <2>1. \A r : r \in Find(new, v) <=> r \in Find(rows, v)
    BY <1>1, <1>2, FindPositions
  <2> QED
    BY <2>1
<1>3. \A t \in Find(new, u) : \E r \in Find(rows, u) : t = set[r]
  BY <1>1, FindPositions
<1>4. Find(new, u) = {} <=> Find(rows, u) = {}
  <2>1. Find(new, u) = {} <=> \A k \in DOMAIN new : new[k].name /= u
    BY FindPositions
  <2>2. Find(rows, u) = {} <=> \A k \in DOMAIN rows : rows[k].name /= u
    BY FindPositions
  <2> QED
    BY <1>1, <2>1, <2>2, Zenon
<1>5. OneEach(rows) => OneEach(new)
  BY <1>1, Zenon DEF OneEach
<1> QED
  BY <1>2, <1>3, <1>4, <1>5

LEMMA SetWarnings ==
  ASSUME NEW rows \in Seq(Rows), NEW u, NEW w \in 0..MaxWarns
  PROVE  LET new == SetAll(rows, u, "warnings", w)
         IN  /\ new \in Seq(Rows)
             /\ \A v : v /= u => Find(new, v) = Find(rows, v)
             /\ Find(new, u) = {} <=> Find(rows, u) = {}
             /\ \A t \in Find(new, u) : \E r \in Find(rows, u) : t.warnings = w /\ t.daysban = r.daysban
             /\ OneEach(rows) => OneEach(new)
<1> DEFINE new == SetAll(rows, u, "warnings", w)
           set == [r \in Rows |-> [r EXCEPT !["warnings"] = w]]
<1>1. \A r \in Rows : /\ set[r] \in Rows /\ set[r].name = r.name
                     /\ set[r].warnings = w /\ set[r].daysban = r.daysban
  BY DEF Rows
<1>2. \A k \in DOMAIN rows : rows[k] \in Rows
  OBVIOUS
<1>3. new = [k \in DOMAIN rows |-> IF rows[k].name = u THEN [rows[k] EXCEPT !["warnings"] = w] ELSE rows[k]]
  BY Zenon DEF SetAll
<1>4. \A k \in DOMAIN rows : set[rows[k]] = [rows[k] EXCEPT !["warnings"] = w]
  BY <1>2, Zenon
<1> HIDE DEF set, new
<1>5. SetBy(rows, u, set, new)
  BY <1>1, <1>3, <1>4 DEF SetBy
<1>6. new \in Seq(Rows)
  <2>1. \A k \in DOMAIN rows : (IF rows[k].name = u THEN [rows[k] EXCEPT !["warnings"] = w] ELSE rows[k]) \in Rows
    BY <1>1, <1>2, <1>4
  <2>2. new \in [DOMAIN rows -> Rows]
    BY <1>3, <2>1, Zenon
  <2>3. Len(rows) \in Nat /\ DOMAIN rows = 1..Len(rows)
    OBVIOUS
  <2> QED
    BY <2>2, <2>3, FunctionSeq
<1>7. /\ \A v : v /= u => Find(new, v) = Find(rows, v)
      /\ Find(new, u) = {} <=> Find(rows, u) = {}
      /\ \A t \in Find(new, u) : \E r \in Find(rows, u) : t = set[r]
      /\ OneEach(rows) => OneEach(new)
  BY <1>5, <1>6, SetRows
<1>8. \A r \in Find(rows, u) : r \in Rows
  BY FindPositions
<1>9. \A t \in Find(new, u) : \E r \in Find(rows, u) : t.warnings = w /\ t.daysban = r.daysban
  BY <1>1, <1>7, <1>8
<1> QED
  BY <1>6, <1>7, <1>9, Zenon DEF new

LEMMA SetBans ==
  ASSUME NEW rows \in Seq(Rows), NEW u, NEW d \in 0..MaxHour
  PROVE  LET new == SetAll(rows, u, "daysban", d)
         IN  /\ new \in Seq(Rows)
             /\ \A v : v /= u => Find(new, v) = Find(rows, v)
             /\ Find(new, u) = {} <=> Find(rows, u) = {}
             /\ \A t \in Find(new, u) : \E r \in Find(rows, u) : t.daysban = d /\ t.warnings = r.warnings
             /\ OneEach(rows) => OneEach(new)
<1> DEFINE new == SetAll(rows, u, "daysban", d)
           set == [r \in Rows |-> [r EXCEPT !["daysban"] = d]]
<1>1. \A r \in Rows : /\ set[r] \in Rows /\ set[r].name = r.name
                     /\ set[r].daysban = d /\ set[r].warnings = r.warnings
  BY DEF Rows
<1>2. \A k \in DOMAIN rows : rows[k] \in Rows
  OBVIOUS
<1>3. new = [k \in DOMAIN rows |-> IF rows[k].name = u THEN [rows[k] EXCEPT !["daysban"] = d] ELSE rows[k]]
  BY Zenon DEF SetAll
<1>4. \A k \in DOMAIN rows : set[rows[k]] = [rows[k] EXCEPT !["daysban"] = d]
  BY <1>2, Zenon
<1> HIDE DEF set, new
<1>5. SetBy(rows, u, set, new)
  BY <1>1, <1>3, <1>4 DEF SetBy
<1>6. new \in Seq(Rows)
  <2>1. \A k \in DOMAIN rows : (IF rows[k].name = u THEN [rows[k] EXCEPT !["daysban"] = d] ELSE rows[k]) \in Rows
    BY <1>1, <1>2, <1>4
  <2>2. new \in [DOMAIN rows -> Rows]
    BY <1>3, <2>1, Zenon
  <2>3. Len(rows) \in Nat /\ DOMAIN rows = 1..Len(rows)
    OBVIOUS
  <2> QED
    BY <2>2, <2>3, FunctionSeq
<1>7. /\ \A v : v /= u => Find(new, v) = Find(rows, v)
      /\ Find(new, u) = {} <=> Find(rows, u) = {}
      /\ \A t \in Find(new, u) : \E r \in Find(rows, u) : t = set[r]
      /\ OneEach(rows) => OneEach(new)
  BY <1>5, <1>6, SetRows
<1>8. \A r \in Find(rows, u) : r \in Rows
  BY FindPositions
<1>9. \A t \in Find(new, u) : \E r \in Find(rows, u) : t.daysban = d /\ t.warnings = r.warnings
  BY <1>1, <1>7, <1>8
<1> QED
  BY <1>6, <1>7, <1>9, Zenon DEF new

\* The rows of a user whose warns are in m_Warns are replaced by one.
LEMMA RebuiltRows ==
  ASSUME cache \in Seq(Rows), NEW u, NEW row \in Rows, row.name = u
  PROVE  /\ Rebuilt(u, row) \in Seq(Rows)
         /\ \A v : v /= u => Find(Rebuilt(u, row), v) = Find(cache, v)
         /\ Find(Rebuilt(u, row), u) = IF Find(cache, u) = {} THEN {} ELSE {row}
         /\ OneEach(cache) => OneEach(Rebuilt(u, row))
<1> DEFINE left == Without(cache, u)
<1>1. /\ left \in Seq(Rows) /\ Find(left, u) = {}
      /\ \A v : v /= u => Find(left, v) = Find(cache, v)
      /\ OneEach(cache) => OneEach(left)
  BY WithoutRows
<1>2. IsWarn(u) <=> Find(cache, u) /= {}
  BY FindWarn
<1>3. Rebuilt(u, row) = IF IsWarn(u) THEN Append(left, row) ELSE cache
  BY Zenon DEF Rebuilt
<1> HIDE DEF left
<1>4. /\ Append(left, row) \in Seq(Rows) /\ Find(Append(left, row), u) = Find(left, u) \cup {row}
      /\ \A v : v /= u => Find(Append(left, row), v) = Find(left, v)
      /\ OneEach(left) /\ Find(left, u) = {} => OneEach(Append(left, row))
  <2>1. /\ Append(left, row) \in Seq(Rows)
        /\ Find(Append(left, row), row.name) = Find(left, row.name) \cup {row}
        /\ \A v : v /= row.name => Find(Append(left, row), v) = Find(left, v)
        /\ OneEach(left) /\ Find(left, row.name) = {} => OneEach(Append(left, row))
    BY <1>1, AppendRows
  <2> QED
    BY <2>1
<1>5. Find(left, u) \cup {row} = {row}
  BY <1>1
<1>6. CASE IsWarn(u)
  <2>1. Rebuilt(u, row) = Append(left, row)
    BY <1>3, <1>6
  <2> QED
    BY <1>1, <1>2, <1>4, <1>5, <1>6, <2>1, Zenon
<1>7. CASE ~IsWarn(u)
  BY <1>2, <1>3, <1>7
<1> QED
  BY <1>6, <1>7

---------------------------------------------------------------------------
(* The steps of the queries keep the types.                                *)

\* A query that is on its way, seen by its kind.
LEMMA QueryKinds ==
  ASSUME Data, NEW i \in DOMAIN queries
  PROVE  /\ queries[i] \in Asked /\ queries[i].row \in Rows /\ queries[i].row.name \in User
         /\ queries[i].row.warnings \in 0..MaxWarns /\ queries[i].row.daysban \in 0..MaxHour
         /\ queries[i].rows \in Seq(Rows) /\ queries[i].stage \in Stages
         /\ queries[i].op \in {"add", "update", "ban", "remove", "list"}
<1>1. queries[i] \in Asked
  BY DEF Data
<1>2. /\ queries[i].row \in Rows /\ queries[i].rows \in Seq(Rows) /\ queries[i].stage \in Stages
      /\ queries[i].op \in {"add", "update", "ban", "remove", "list"}
  BY <1>1 DEF Asked
<1> QED
  BY <1>1, <1>2 DEF Rows

\* What Execute writes, by the kind of the query
LEMMA WrittenRows ==
  ASSUME Data, NEW i \in DOMAIN queries
  PROVE  LET q == queries[i]
         IN  /\ Written(q) \in Seq(Rows)
             /\ q.op = "add" => Written(q) = Append(table, q.row)
             /\ q.op = "update" => Written(q) = SetAll(table, q.row.name, "warnings", q.row.warnings)
             /\ q.op = "ban" => Written(q) = SetAll(table, q.row.name, "daysban", q.row.daysban)
             /\ q.op = "remove" => Written(q) = Without(table, q.row.name)
             /\ q.op = "list" => Written(q) = table
<1> DEFINE q == queries[i]
<1>1. /\ q.row \in Rows /\ q.row.warnings \in 0..MaxWarns /\ q.row.daysban \in 0..MaxHour
      /\ q.op \in {"add", "update", "ban", "remove", "list"} /\ table \in Seq(Rows)
  BY QueryKinds DEF Data
<1> HIDE DEF q
<1>2. /\ q.op = "add" => Written(q) = Append(table, q.row)
      /\ q.op = "update" => Written(q) = SetAll(table, q.row.name, "warnings", q.row.warnings)
      /\ q.op = "ban" => Written(q) = SetAll(table, q.row.name, "daysban", q.row.daysban)
      /\ q.op = "remove" => Written(q) = Without(table, q.row.name)
      /\ q.op = "list" => Written(q) = table
  BY DEF Written
<1>3. SetAll(table, q.row.name, "warnings", q.row.warnings) \in Seq(Rows)
  BY <1>1, SetWarnings
<1>4. SetAll(table, q.row.name, "daysban", q.row.daysban) \in Seq(Rows)
  BY <1>1, SetBans
<1>5. Append(table, q.row) \in Seq(Rows) /\ Without(table, q.row.name) \in Seq(Rows)
  BY <1>1, AppendRows, WithoutRows
<1>6. Written(q) \in Seq(Rows)
  BY <1>1, <1>2, <1>3, <1>4, <1>5
<1> QED
  BY <1>2, <1>6 DEF q

\* What Consume makes of m_Warns
LEMMA CopiedRows ==
  ASSUME Data, NEW i \in DOMAIN queries
  PROVE  LET q == queries[i]
             u == q.row.name
             updated == Row(u, q.row.warnings, Warn(u).daysban)
             ban == Row(u, Warn(u).warnings, q.row.daysban)
         IN  /\ Copied(q) \in Seq(Rows) /\ updated \in Rows /\ ban \in Rows
             /\ q.op = "list" => Copied(q) = q.rows
             /\ q.op = "add" => Copied(q) = Append(cache, q.row)
             /\ q.op = "update" => Copied(q) = Rebuilt(u, updated)
             /\ q.op = "ban" => Copied(q) = Rebuilt(u, ban)
             /\ q.op = "remove" => Copied(q) = Without(cache, u)
<1> DEFINE q == queries[i]
           u == q.row.name
           updated == Row(u, q.row.warnings, Warn(u).daysban)
           ban == Row(u, Warn(u).warnings, q.row.daysban)
<1>1. /\ q.row \in Rows /\ u \in User /\ q.row.warnings \in 0..MaxWarns /\ q.row.daysban \in 0..MaxHour
      /\ q.op \in {"add", "update", "ban", "remove", "list"} /\ q.rows \in Seq(Rows) /\ cache \in Seq(Rows)
  BY QueryKinds DEF Data
<1>2. Warn(u).warnings \in 0..MaxWarns /\ Warn(u).daysban \in 0..MaxHour
  BY <1>1, WarnType
<1>3. updated \in Rows /\ updated.name = u /\ ban \in Rows /\ ban.name = u
  BY <1>1, <1>2, RowType
<1>4. /\ q.op = "list" => Copied(q) = q.rows
      /\ q.op = "add" => Copied(q) = Append(cache, q.row)
      /\ q.op = "update" => Copied(q) = UpdateAddWarn(q)
      /\ q.op = "ban" => Copied(q) = ChannelBanWarn(q)
      /\ q.op = "remove" => Copied(q) = Without(cache, q.row.name)
  BY DEF Copied
<1>5. UpdateAddWarn(q) = Rebuilt(u, updated) /\ ChannelBanWarn(q) = Rebuilt(u, ban)
  BY Zenon DEF UpdateAddWarn, ChannelBanWarn, BanOf
<1> HIDE DEF updated, ban, u
<1>6. Rebuilt(u, updated) \in Seq(Rows) /\ Rebuilt(u, ban) \in Seq(Rows)
  BY <1>1, <1>3, RebuiltRows
<1>7. Append(cache, q.row) \in Seq(Rows) /\ Without(cache, u) \in Seq(Rows)
  BY <1>1, AppendRows, WithoutRows
<1> HIDE DEF q
<1>8. q.row.name = u
  BY DEF u
<1>9. Copied(q) \in Seq(Rows)
  BY <1>1, <1>4, <1>5, <1>6, <1>7, <1>8
<1> QED
  BY <1>3, <1>4, <1>5, <1>9, Zenon DEF updated, ban, u, q

LEMMA ExecuteState ==
  ASSUME State, NEW i \in DOMAIN queries, Execute(i)
  PROVE  /\ State' /\ table' = Written(queries[i]) /\ queries[i].stage = "sent"
         /\ DOMAIN queries' = DOMAIN queries
         /\ queries'[i].stage = "done"
         /\ queries'[i].op = queries[i].op /\ queries'[i].row = queries[i].row
         /\ queries[i].op = "list" => queries'[i].rows = table
         /\ \A k \in DOMAIN queries : k /= i => queries'[k] = queries[k]
<1> DEFINE q == queries[i]
           rows == IF q.op = "list" THEN table ELSE <<>>
<1>1. Data /\ Server /\ strikes \in [User -> Nat] /\ queries \in Seq(Asked) /\ table \in Seq(Rows)
  BY DEF State, Data
<1>2. /\ q.stage = "sent" /\ table' = Written(q)
      /\ queries' = [queries EXCEPT ![i].stage = "done", ![i].rows = rows]
      /\ cache' = cache /\ hour' = hour /\ banned' = banned /\ commands' = commands
      /\ strikes' = strikes /\ disorder' = disorder
      /\ lost' = lost \cup ({q.row.name} \cap banned) \/ lost' = lost
  BY Zenon DEF Execute
<1>3. rows \in Seq(Rows) /\ (q.op = "list" => rows = table)
  BY <1>1
<1> HIDE DEF rows
<1>4. q \in Asked
  BY <1>1
<1>5. /\ queries' \in Seq(Asked) /\ DOMAIN queries' = DOMAIN queries
      /\ \A k \in DOMAIN queries : k /= i => queries'[k] = queries[k]
      /\ queries'[i] = [q EXCEPT !.stage = "done", !.rows = rows]
  <2> DEFINE new == [q EXCEPT !.stage = "done", !.rows = rows]
  <2>1. new \in Asked
    BY <1>3, <1>4 DEF Asked, Stages
  <2>2. queries' = [queries EXCEPT ![i] = new]
    BY <1>2
  <2> HIDE DEF new
  <2>3. queries' \in Seq(Asked) /\ DOMAIN queries' = DOMAIN queries
    BY <1>1, <2>1, <2>2
  <2>4. queries'[i] = new /\ \A k \in DOMAIN queries : k /= i => queries'[k] = queries[k]
    BY <1>1, <2>2
  <2> QED
    BY <2>3, <2>4 DEF new
<1>6. /\ queries'[i].stage = "done" /\ queries'[i].op = q.op /\ queries'[i].row = q.row
      /\ queries'[i].rows = rows
  BY <1>4, <1>5 DEF Asked
<1>7. table' \in Seq(Rows)
  BY <1>1, <1>2, WrittenRows
<1>8. Data'
  BY <1>1, <1>2, <1>5, <1>7, Zenon DEF Data
<1>9. Server'
  BY <1>1, <1>2 DEF Server
<1> QED
  BY <1>1, <1>2, <1>3, <1>5, <1>6, <1>8, <1>9 DEF State

LEMMA FailState ==
  ASSUME State, NEW i \in DOMAIN queries, Fail(i)
  PROVE  State'
<1>1. Data /\ Server /\ strikes \in [User -> Nat] /\ queries \in Seq(Asked)
  BY DEF State, Data
<1>2. /\ table' = table /\ cache' = cache /\ hour' = hour /\ banned' = banned /\ commands' = commands
      /\ strikes' = strikes /\ disorder' = TRUE
      /\ lost' = lost \cup ({queries[i].row.name} \cap banned) \/ lost' = lost
      /\ queries' = [queries EXCEPT ![i].stage = "done"] \/ queries' = RemoveAt(queries, i)
  BY Zenon DEF Fail
<1>3. queries' \in Seq(Asked)
  <2>1. RemoveAt(queries, i) \in Seq(Asked)
    BY <1>1, RemoveType
  <2> DEFINE new == [queries[i] EXCEPT !.stage = "done"]
  <2>2. queries[i] \in Asked
    BY <1>1
  <2>3. new \in Asked
    BY <2>2 DEF Asked, Stages
  <2> HIDE DEF new
  <2>4. [queries EXCEPT ![i] = new] \in Seq(Asked)
    BY <1>1, <2>3
  <2> QED
    BY <1>2, <2>1, <2>4 DEF new
<1>4. Data'
  BY <1>1, <1>2, <1>3, Zenon DEF Data
<1>5. Server'
  BY <1>1, <1>2 DEF Server
<1> QED
  BY <1>1, <1>2, <1>4, <1>5 DEF State

LEMMA ConsumeState ==
  ASSUME State, NEW i \in DOMAIN queries, Consume(i)
  PROVE  State'
<1>1. Data /\ Server /\ queries \in Seq(Asked)
  BY DEF State, Data
<1>2. /\ cache' = Copied(queries[i]) /\ queries' = RemoveAt(queries, i)
      /\ table' = table /\ hour' = hour /\ banned' = banned /\ commands' = commands
      /\ strikes' = strikes /\ lost' = lost /\ disorder' = disorder
  BY Zenon DEF Consume
<1>3. cache' \in Seq(Rows)
  BY <1>1, <1>2, CopiedRows
<1>4. queries' \in Seq(Asked)
  BY <1>1, <1>2, RemoveType
<1>5. Data'
  BY <1>1, <1>2, <1>3, <1>4, Zenon DEF Data
<1> QED
  BY <1>1, <1>2, <1>5, Zenon DEF State, Server

\* Init: no row, or one, of a ban of the hour in which guard starts.
LEMMA InitTable ==
  ASSUME Init
  PROVE  /\ table \in Seq(Rows) /\ OneEach(table)
         /\ \A r \in ToSet(table) : r \in Rows /\ r.warnings = 1
<1>1. CASE table = <<>>
  BY <1>1 DEF OneEach, ToSet
<1>2. ASSUME NEW u \in Bannable, table = <<Row(u, 1, 1)>>
      PROVE  /\ table \in Seq(Rows) /\ OneEach(table)
             /\ \A r \in ToSet(table) : r \in Rows /\ r.warnings = 1
  <2>1. u \in User /\ 1 \in 0..MaxWarns /\ 1 \in 0..MaxHour
    BY SetAssumption, Numbers
  <2> DEFINE r == Row(u, 1, 1)
  <2>2. r \in Rows /\ r.warnings = 1
    BY <2>1, RowType
  <2> HIDE DEF r
  <2>3. table = <<r>>
    BY <1>2 DEF r
  <2>4. table \in Seq(Rows) /\ DOMAIN table = {1} /\ table[1] = r
    BY <2>2, <2>3
  <2> QED
    BY <2>2, <2>4 DEF OneEach, ToSet
<1> QED
  BY <1>1, <1>2, Zenon DEF Init

LEMMA InitState == Init => State
<1> SUFFICES ASSUME Init PROVE State
  OBVIOUS
<1>1. /\ hour = 1 /\ cache = <<>> /\ queries = <<List>> /\ commands = 0 /\ lost = {} /\ disorder = FALSE
      /\ banned = {r.name : r \in {r \in ToSet(table) : Operator /\ r.daysban > 0}}
      /\ strikes = [u \in User |-> IF table = <<>> THEN 0 ELSE IF table[1].name = u THEN 1 ELSE 0]
  BY Zenon DEF Init
<1>2. table \in Seq(Rows)
  BY InitTable
<1>3. Data
  <2>1. List \in Asked
    BY AskTypes
  <2>2. <<List>> \in Seq(Asked) /\ <<>> \in Seq(Rows) /\ 1 \in 1..MaxHour /\ 0 \in 0..MaxCommands
    BY <2>1, Numbers
  <2> QED
    BY <1>1, <1>2, <2>2 DEF Data
<1>4. Server
  <2>1. \A r \in ToSet(table) : r \in Rows
    BY InitTable
  <2>2. \A r \in ToSet(table) : r.name \in User
    BY <2>1 DEF Rows
  <2> QED
    BY <1>1, <2>2 DEF Server
<1>5. strikes \in [User -> Nat]
  BY <1>1
<1> QED
  BY <1>3, <1>4, <1>5 DEF State

LEMMA StepState ==
  ASSUME State, [Next]_vars
  PROVE  State'
<1>1. CASE Next
  <2>1. \/ Commands \/ Check \/ DailyRefresh \/ Tick \/ \E u \in User : Join(u)
        \/ \E i \in DOMAIN queries : Execute(i) \/ Fail(i) \/ Consume(i)
    BY <1>1, Zenon DEF Next
  <2>2. ASSUME NEW i \in DOMAIN queries, Execute(i) \/ Fail(i) \/ Consume(i) PROVE State'
    BY <2>2, ExecuteState, FailState, ConsumeState
  <2> QED
    BY <2>1, <2>2, CommandsState, ChannelState
<1>2. CASE UNCHANGED vars
  BY <1>2, Zenon DEF vars, State, Data, Server
<1> QED
  BY <1>1, <1>2

---------------------------------------------------------------------------
(* The queries about a user                                                *)

Own(qs, u) == {qs[k] : k \in {k \in DOMAIN qs : qs[k].row.name = u}}

LEMMA OwnMembers ==
  ASSUME NEW qs \in Seq(Asked)
  PROVE  /\ \A u, q : q \in Own(qs, u) <=> \E k \in DOMAIN qs : qs[k] = q /\ qs[k].row.name = u
         /\ \A u, q : q \in Own(qs, u) => q \in Asked /\ q.row.name = u
<1>1. \A u, q : q \in Own(qs, u) <=> \E k \in DOMAIN qs : qs[k] = q /\ qs[k].row.name = u
  BY DEF Own
<1>2. \A k \in DOMAIN qs : qs[k] \in Asked
  OBVIOUS
<1> QED
  BY <1>1, <1>2

\* Beside a query there is none of the same kind about the user, and none at all unless one
\* is an update and one a ban.
LEMMA OwnApart ==
  ASSUME NEW qs \in Seq(Asked), Apart(qs), NEW i \in DOMAIN qs
  PROVE  /\ qs[i] \in Own(qs, qs[i].row.name)
         /\ \A q \in Own(qs, qs[i].row.name) \ {qs[i]} :
              \/ qs[i].op = "update" /\ q.op = "ban"
              \/ qs[i].op = "ban" /\ q.op = "update"
BY OwnMembers DEF Apart

LEMMA OwnChanged ==
  ASSUME NEW qs \in Seq(Asked), Apart(qs), NEW i \in DOMAIN qs,
         NEW new \in Seq(Asked), DOMAIN new = DOMAIN qs,
         new[i].op = qs[i].op, new[i].row = qs[i].row,
         \A k \in DOMAIN qs : k /= i => new[k] = qs[k]
  PROVE  /\ Apart(new)
         /\ \A u : u /= qs[i].row.name => Own(new, u) = Own(qs, u)
         /\ Own(new, qs[i].row.name) = (Own(qs, qs[i].row.name) \ {qs[i]}) \cup {new[i]}
<1> DEFINE v == qs[i].row.name
<1>1. \A k \in DOMAIN qs : new[k].op = qs[k].op /\ new[k].row = qs[k].row
  OBVIOUS
<1>2. Apart(new)
  BY <1>1 DEF Apart
<1>3. \A k \in DOMAIN qs : k /= i /\ qs[k].row.name = v => qs[k] /= qs[i]
  BY Zenon DEF Apart
<1>4. ASSUME NEW u, u /= v PROVE Own(new, u) = Own(qs, u)
  <2>1. \A q : q \in Own(new, u) <=> q \in Own(qs, u)
    BY <1>1, <1>4, OwnMembers
  <2> QED
    BY <2>1
<1>5. Own(new, v) = (Own(qs, v) \ {qs[i]}) \cup {new[i]}
  <2>1. ASSUME NEW q \in Own(new, v) PROVE q \in (Own(qs, v) \ {qs[i]}) \cup {new[i]}
    <3>1. PICK k \in DOMAIN qs : new[k] = q /\ new[k].row.name = v
      BY OwnMembers
    <3>2. k /= i => q = qs[k] /\ q /= qs[i] /\ q \in Own(qs, v)
      BY <1>1, <1>3, <3>1, OwnMembers
    <3> QED
      BY <3>1, <3>2
  <2>2. ASSUME NEW q \in (Own(qs, v) \ {qs[i]}) \cup {new[i]} PROVE q \in Own(new, v)
    <3>1. CASE q = new[i]
      BY <1>1, <3>1, OwnMembers
    <3>2. CASE q /= new[i]
      <4>1. q \in Own(qs, v) /\ q /= qs[i]
        BY <3>2
      <4>2. PICK k \in DOMAIN qs : qs[k] = q /\ qs[k].row.name = v
        BY <4>1, OwnMembers
      <4> QED
        BY <1>1, <4>1, <4>2, OwnMembers
    <3> QED
      BY <3>1, <3>2
  <2> QED
    BY <2>1, <2>2
<1> QED
  BY <1>2, <1>4, <1>5

LEMMA OwnRemoved ==
  ASSUME NEW qs \in Seq(Asked), Apart(qs), NEW i \in DOMAIN qs
  PROVE  LET new == RemoveAt(qs, i)
         IN  /\ Apart(new) /\ \A j \in DOMAIN new : \E k \in DOMAIN qs : new[j] = qs[k]
             /\ \A u : u /= qs[i].row.name => Own(new, u) = Own(qs, u)
             /\ Own(new, qs[i].row.name) = Own(qs, qs[i].row.name) \ {qs[i]}
<1> DEFINE v == qs[i].row.name
           new == RemoveAt(qs, i)
           R == DOMAIN new
           D == DOMAIN qs \ {i}
<1>1. new \in Seq(Asked)
  BY RemoveType
<1>2. PICK p \in [R -> D] : /\ \A j \in R : new[j] = qs[p[j]]
                            /\ \A j, k \in R : p[j] = p[k] => j = k
                            /\ \A k \in D : \E j \in R : p[j] = k
  BY RemoveMembers
<1>3. \A j \in R : p[j] \in D
  BY <1>2
<1>4. \A k : k \in D <=> k \in DOMAIN qs /\ k /= i
  OBVIOUS
<1> HIDE DEF new, D
<1>5. Apart(new)
  <2>1. ASSUME NEW j \in DOMAIN new, NEW k \in DOMAIN new, j /= k, new[j].row.name = new[k].row.name
        PROVE  \/ new[j].op = "update" /\ new[k].op = "ban"
               \/ new[j].op = "ban" /\ new[k].op = "update"
    <3>1. /\ p[j] \in DOMAIN qs /\ p[k] \in DOMAIN qs /\ p[j] /= p[k]
          /\ new[j] = qs[p[j]] /\ new[k] = qs[p[k]]
      BY <1>2, <1>3, <1>4, <2>1
    <3> QED
      BY <2>1, <3>1 DEF Apart
  <2> QED
    BY <2>1, Zenon DEF Apart
<1>6. \A k \in DOMAIN qs : k /= i /\ qs[k].row.name = v => qs[k] /= qs[i]
  BY Zenon DEF Apart
<1>7. \A q : (\E j \in R : new[j] = q) <=> (\E k \in D : qs[k] = q)
  BY <1>2, <1>3
<1>8. \A u, q : q \in Own(new, u) <=> \E k \in D : qs[k] = q /\ qs[k].row.name = u
  <2>1. \A u, q : q \in Own(new, u) <=> \E j \in R : new[j] = q /\ new[j].row.name = u
    BY <1>1, OwnMembers
  <2> QED
    BY <1>7, <2>1
<1>9. ASSUME NEW u, u /= v PROVE Own(new, u) = Own(qs, u)
  <2>1. \A q : q \in Own(new, u) <=> q \in Own(qs, u)
    BY <1>4, <1>8, <1>9, OwnMembers
  <2> QED
    BY <2>1
<1>10. Own(new, v) = Own(qs, v) \ {qs[i]}
  <2>1. \A q : q \in Own(new, v) <=> q \in Own(qs, v) /\ q /= qs[i]
    BY <1>4, <1>6, <1>8, OwnMembers
  <2> QED
    BY <2>1
<1>11. \A j \in DOMAIN new : \E k \in DOMAIN qs : new[j] = qs[k]
  BY <1>2, <1>3, <1>4
<1> QED
  BY <1>5, <1>9, <1>10, <1>11 DEF new

---------------------------------------------------------------------------
(* What the two rows of a user have in common                              *)

\* The row of the table has what the executed queries wrote, and agrees with the row of
\* m_Warns about what no executed query is still to change there.
Agree(t, c, Q) ==
  /\ \A q \in Q : q.op = "update" /\ q.stage = "done" => t.warnings = q.row.warnings
  /\ (\A q \in Q : q.op = "update" => q.stage = "sent") => t.warnings = c.warnings
  /\ \A q \in Q : q.op = "ban" /\ q.stage = "done" => t.daysban = q.row.daysban
  /\ (\A q \in Q : q.op = "ban" => q.stage = "sent") => t.daysban = c.daysban

\* T has the rows of a user in the table, C those in m_Warns, Q the queries about the user.
Pair(T, C, Q) ==
  /\ \A q \in Q : q.op = "add" => C = {} /\ T = IF q.stage = "done" THEN {q.row} ELSE {}
  /\ \A q \in Q : q.op = "remove" => IF q.stage = "done" THEN T = {} ELSE T = C
  /\ \A q \in Q : q.op = "update" => C /= {}
  /\ (\A q \in Q : q.op \in {"update", "ban"}) =>
       (T = {} <=> C = {}) /\ \A t \in T, c \in C : Agree(t, c, Q)

\* The warns of a user are in the row of the table, or in a query under way.
Covered(n, T, Q) ==
  \/ n = 0
  \/ \E q \in Q : q.op \in {"add", "update"} /\ n <= q.row.warnings
  \/ (\A q \in Q : q.op \notin {"update", "remove"}) /\ \E t \in T : n <= t.warnings

\* The queries beside q, when there are any: an update beside a ban.
Beside(q, Q) ==
  \A o \in Q \ {q} : \/ q.op = "update" /\ o.op = "ban"
                     \/ q.op = "ban" /\ o.op = "update"

Writes == {"add", "update", "ban", "remove"}

LEMMA ExecutedPair ==
  ASSUME NEW T, NEW C, NEW Q, NEW q \in Q, NEW done, NEW new, Pair(T, C, Q), Beside(q, Q),
         q.op \in Writes, q.stage = "sent", done.stage = "done", done.op = q.op, done.row = q.row,
         q.op = "add" => new = T \cup {q.row},
         q.op = "remove" => new = {},
         q.op \in {"update", "ban"} => (new = {} <=> T = {}),
         q.op = "update" => \A t \in new : t.warnings = q.row.warnings /\ \E r \in T : t.daysban = r.daysban,
         q.op = "ban" => \A t \in new : t.daysban = q.row.daysban /\ \E r \in T : t.warnings = r.warnings
  PROVE  Pair(new, C, (Q \ {q}) \cup {done})
<1> DEFINE left == (Q \ {q}) \cup {done}
<1>1. \A o : o \in left <=> o = done \/ (o \in Q /\ o /= q)
  OBVIOUS
<1> HIDE DEF left
<1>2. "sent" /= "done"
  OBVIOUS
<1>3. CASE q.op = "add"
  <2>1. C = {} /\ T = {}
    BY <1>2, <1>3 DEF Pair
  <2>2. new = {q.row}
    BY <1>3, <2>1
  <2>3. \A o \in left : o = done
    BY <1>1, <1>3 DEF Beside
  <2>4. done \in left
    BY <1>1
  <2> QED
    BY <1>3, <2>1, <2>2, <2>3, <2>4 DEF Pair, left
<1>4. CASE q.op = "remove"
  <2>1. \A o \in left : o = done
    BY <1>1, <1>4 DEF Beside
  <2>2. done \in left /\ new = {}
    BY <1>1, <1>4
  <2> QED
    BY <1>4, <2>1, <2>2 DEF Pair, left
<1>5. CASE q.op \in {"update", "ban"}
  <2>1. \A o \in Q : o.op \in {"update", "ban"}
    BY <1>5 DEF Beside
  <2>2. (T = {} <=> C = {}) /\ \A t \in T, c \in C : Agree(t, c, Q)
    BY <2>1 DEF Pair
  <2>3. \A o \in left : o.op \in {"update", "ban"} /\ (o.op = "update" => C /= {})
    BY <1>1, <1>5, <2>1 DEF Pair
  <2>4. new = {} <=> C = {}
    BY <1>5, <2>2
  <2>5. ASSUME NEW t \in new, NEW c \in C PROVE Agree(t, c, left)
    <3>1. CASE q.op = "update"
      <4>1. PICK r \in T : t.daysban = r.daysban
        BY <3>1
      <4>2. t.warnings = q.row.warnings /\ Agree(r, c, Q)
        BY <2>2, <3>1
      <4>3. \A o \in left : o = done \/ o.op = "ban"
        BY <1>1, <3>1 DEF Beside
      <4>4. \A o \in left : o.op = "ban" <=> o \in Q /\ o.op = "ban"
        BY <1>1, <3>1
      <4>5. \A o \in Q : o.op = "ban" => o \in left
        BY <1>1, <3>1
      <4>6. done \in left
        BY <1>1
      <4> QED
        BY <1>2, <3>1, <4>1, <4>2, <4>3, <4>4, <4>5, <4>6 DEF Agree
    <3>2. CASE q.op = "ban"
      <4>1. PICK r \in T : t.warnings = r.warnings
        BY <3>2
      <4>2. t.daysban = q.row.daysban /\ Agree(r, c, Q)
        BY <2>2, <3>2
      <4>3. \A o \in left : o = done \/ o.op = "update"
        BY <1>1, <3>2 DEF Beside
      <4>4. \A o \in left : o.op = "update" <=> o \in Q /\ o.op = "update"
        BY <1>1, <3>2
      <4>5. \A o \in Q : o.op = "update" => o \in left
        BY <1>1, <3>2
      <4>6. done \in left
        BY <1>1
      <4> QED
        BY <1>2, <3>2, <4>1, <4>2, <4>3, <4>4, <4>5, <4>6 DEF Agree
    <3> QED
      BY <1>5, <3>1, <3>2
  <2> QED
    BY <2>3, <2>4, <2>5 DEF Pair, left
<1> QED
  BY <1>3, <1>4, <1>5 DEF Writes

LEMMA ConsumedPair ==
  ASSUME NEW T, NEW C, NEW Q, NEW q \in Q, NEW new, Pair(T, C, Q), Beside(q, Q),
         q.op \in Writes, q.stage = "done",
         q.op = "add" => new = C \cup {q.row},
         q.op = "remove" => new = {},
         q.op \in {"update", "ban"} => (new = {} <=> C = {}),
         q.op = "update" => \A c \in new : c.warnings = q.row.warnings /\ \E r \in C : c.daysban = r.daysban,
         q.op = "ban" => \A c \in new : c.daysban = q.row.daysban /\ \E r \in C : c.warnings = r.warnings
  PROVE  Pair(T, new, Q \ {q})
<1> DEFINE left == Q \ {q}
<1>1. \A o : o \in left <=> o \in Q /\ o /= q
  OBVIOUS
<1> HIDE DEF left
<1>2. CASE q.op = "add"
  <2>1. T = {q.row} /\ new = {q.row}
    BY <1>2 DEF Pair
  <2>2. \A o : o \notin left
    BY <1>1, <1>2 DEF Beside
  <2> QED
    BY <2>1, <2>2 DEF Pair, Agree, left
<1>3. CASE q.op = "remove"
  <2>1. T = {} /\ new = {}
    BY <1>3 DEF Pair
  <2>2. \A o : o \notin left
    BY <1>1, <1>3 DEF Beside
  <2> QED
    BY <2>1, <2>2 DEF Pair, left
<1>4. CASE q.op \in {"update", "ban"}
  <2>1. \A o \in Q : o.op \in {"update", "ban"}
    BY <1>4 DEF Beside
  <2>2. (T = {} <=> C = {}) /\ \A t \in T, c \in C : Agree(t, c, Q)
    BY <2>1 DEF Pair
  <2>3. \A o \in left : o.op \in {"update", "ban"} /\ (o.op = "update" => new /= {})
    BY <1>1, <1>4, <2>1 DEF Pair
  <2>4. T = {} <=> new = {}
    BY <1>4, <2>2
  <2>5. ASSUME NEW t \in T, NEW c \in new PROVE Agree(t, c, left)
    <3>1. CASE q.op = "update"
      <4>1. PICK r \in C : c.daysban = r.daysban
        BY <3>1
      <4>2. c.warnings = q.row.warnings /\ Agree(t, r, Q)
        BY <2>2, <3>1
      <4>3. \A o \in left : o.op = "ban" /\ o \in Q
        BY <1>1, <3>1 DEF Beside
      <4>4. \A o \in Q : o.op = "ban" => o \in left
        BY <1>1, <3>1
      <4>5. t.warnings = q.row.warnings
        BY <3>1, <4>2 DEF Agree
      <4> QED
        BY <4>1, <4>2, <4>3, <4>4, <4>5 DEF Agree
    <3>2. CASE q.op = "ban"
      <4>1. PICK r \in C : c.warnings = r.warnings
        BY <3>2
      <4>2. c.daysban = q.row.daysban /\ Agree(t, r, Q)
        BY <2>2, <3>2
      <4>3. \A o \in left : o.op = "update" /\ o \in Q
        BY <1>1, <3>2 DEF Beside
      <4>4. \A o \in Q : o.op = "update" => o \in left
        BY <1>1, <3>2
      <4>5. t.daysban = q.row.daysban
        BY <3>2, <4>2 DEF Agree
      <4> QED
        BY <4>1, <4>2, <4>3, <4>4, <4>5 DEF Agree
    <3> QED
      BY <1>4, <3>1, <3>2
  <2> QED
    BY <2>3, <2>4, <2>5 DEF Pair, left
<1> QED
  BY <1>2, <1>3, <1>4 DEF Writes

\* With nothing under way the rows of a user are the same.
LEMMA RestingPair ==
  ASSUME NEW T \in SUBSET Rows, NEW C \in SUBSET Rows, Pair(T, C, {}),
         \A t \in T, c \in C : t.name = c.name
  PROVE  /\ T = C
         /\ \A t \in T, c \in C : t.warnings = c.warnings /\ t.daysban = c.daysban
<1>1. (T = {} <=> C = {}) /\ \A t \in T, c \in C : t.warnings = c.warnings /\ t.daysban = c.daysban
  BY DEF Pair, Agree
<1>2. \A t \in T, c \in C : t = c
  <2>1. ASSUME NEW t \in T, NEW c \in C PROVE t = c
    <3>1. t \in Rows /\ c \in Rows /\ t.name = c.name /\ t.warnings = c.warnings /\ t.daysban = c.daysban
      BY <1>1
    <3> QED
      BY <3>1 DEF Rows
  <2> QED
    BY <2>1
<1>3. T = C
  <2>1. CASE T = {}
    BY <1>1, <2>1
  <2>2. CASE T /= {}
    <3>1. PICK t \in T, c \in C : TRUE
      BY <1>1, <2>2
    <3> QED
      BY <1>2, <3>1
  <2> QED
    BY <2>1, <2>2
<1> QED
  BY <1>1, <1>3, Zenon

\* Nothing is under way when a command or the check asks.
LEMMA IssuedPair ==
  ASSUME NEW C, \A c, d \in C : c = d, NEW Q,
         \A q \in Q : /\ q.op \in Writes /\ q.stage = "sent"
                      /\ q.op = "add" => C = {}
                      /\ q.op = "update" => C /= {}
  PROVE  Pair(C, C, Q)
<1>1. \A q \in Q : q.stage /= "done"
  OBVIOUS
<1>2. \A c, d \in C : Agree(c, d, Q)
  BY <1>1 DEF Agree
<1> QED
  BY <1>1, <1>2, Zenon DEF Pair

LEMMA ExecutedCovered ==
  ASSUME NEW n, NEW T, NEW Q, NEW q \in Q, NEW done, NEW new, Covered(n, T, Q),
         done.op = q.op, done.row = q.row,
         q.op \notin {"update", "remove"} => \A t \in T : \E r \in new : r.warnings = t.warnings
  PROVE  Covered(n, new, (Q \ {q}) \cup {done})
<1> DEFINE left == (Q \ {q}) \cup {done}
<1>1. \A o : o \in left <=> o = done \/ (o \in Q /\ o /= q)
  OBVIOUS
<1> HIDE DEF left
<1>2. Covered(n, new, left)
  BY <1>1 DEF Covered
<1> QED
  BY <1>2 DEF left

LEMMA ConsumedCovered ==
  ASSUME NEW n, NEW T, NEW C, NEW Q, NEW q \in Q, Covered(n, T, Q), Pair(T, C, Q), Beside(q, Q),
         q.op \in Writes, q.stage = "done"
  PROVE  Covered(n, T, Q \ {q})
<1> DEFINE left == Q \ {q}
<1>1. \A o : o \in left <=> o \in Q /\ o /= q
  OBVIOUS
<1> HIDE DEF left
<1>2. CASE q.op = "add"
  <2>1. T = {q.row} /\ \A o : o \notin left
    BY <1>1, <1>2 DEF Pair, Beside
  <2>2. \A o \in Q : o = q
    BY <1>1, <2>1
  <2> QED
    BY <1>2, <2>1, <2>2 DEF Covered, left
<1>3. CASE q.op = "remove"
  <2>1. \A o \in Q : o = q
    BY <1>1, <1>3 DEF Beside
  <2> QED
    BY <1>3, <2>1 DEF Covered, left
<1>4. CASE q.op = "update"
  <2>1. (\A o \in left : o.op = "ban") /\ \A o \in Q : o.op \in {"update", "ban"}
    BY <1>1, <1>4 DEF Beside
  <2>2. C /= {} /\ (T = {} <=> C = {}) /\ \A t \in T, c \in C : Agree(t, c, Q)
    BY <1>4, <2>1 DEF Pair
  <2>3. PICK t \in T, c \in C : t.warnings = q.row.warnings
    BY <1>4, <2>2 DEF Agree
  <2>4. \A o \in Q : o = q \/ o.op = "ban"
    BY <1>1, <2>1
  <2> QED
    BY <1>4, <2>1, <2>3, <2>4 DEF Covered, left
<1>5. CASE q.op = "ban"
  <2>1. \A o \in Q : o.op \in {"add", "update"} => o \in left
    BY <1>1, <1>5
  <2> QED
    BY <1>1, <2>1 DEF Covered, left
<1> QED
  BY <1>2, <1>3, <1>4, <1>5 DEF Writes

LEMMA IssuedCovered ==
  ASSUME NEW n, NEW T, NEW Q, Covered(n, T, {}), \A q \in Q : q.op \notin {"update", "remove"}
  PROVE  Covered(n, T, Q)
BY DEF Covered

---------------------------------------------------------------------------
(* The inductive invariant of the order                                    *)

\* A list under way is alone, and when it is executed it has the rows of the table.
Listing == Len(queries) = 1 /\ queries[1].op = "list" /\ (queries[1].stage = "done" => queries[1].rows = table)

Paired ==
  /\ \A k \in DOMAIN queries : queries[k].op /= "list"
  /\ Apart(queries)
  /\ \A u \in User : Pair(Find(table, u), Find(cache, u), Own(queries, u))

Struck == \A u \in User : Covered(strikes[u], Find(table, u), Own(queries, u))

Ordered == OneEach(table) /\ OneEach(cache) /\ (Listing \/ Paired) /\ Struck

OrderInv == ~disorder => Ordered

IInv == State /\ OrderInv

\* With one row at most on both sides, the rows that agree are the same.
LEMMA SameRows ==
  ASSUME State, Ordered, queries = <<>>
  PROVE  /\ Paired /\ \A u : Own(queries, u) = {}
         /\ \A u \in User : /\ Pair(Find(table, u), Find(cache, u), {})
                            /\ Find(table, u) = Find(cache, u)
                            /\ Covered(strikes[u], Find(table, u), {})
<1>1. \A u : Own(queries, u) = {}
  BY DEF Own
<1>2. Paired
  <2>1. Len(queries) = 0
    OBVIOUS
  <2> QED
    BY <2>1 DEF Ordered, Listing
<1>3. table \in Seq(Rows) /\ cache \in Seq(Rows) /\ OneEach(table) /\ OneEach(cache)
  BY DEF State, Data, Ordered
<1>4. ASSUME NEW u \in User
      PROVE  /\ Pair(Find(table, u), Find(cache, u), {}) /\ Find(table, u) = Find(cache, u)
             /\ Covered(strikes[u], Find(table, u), {})
  <2> DEFINE T == Find(table, u)
             C == Find(cache, u)
  <2>1. Pair(T, C, {}) /\ Covered(strikes[u], T, {})
    BY <1>1, <1>2, Zenon DEF Paired, Ordered, Struck
  <2>2. T \in SUBSET Rows /\ C \in SUBSET Rows /\ \A t \in T \cup C : t.name = u
    BY <1>3, FindPositions
  <2> HIDE DEF T, C
  <2>3. T = C
    <3>1. \A t \in T, c \in C : t.name = c.name
      BY <2>2
    <3> QED
      BY <2>1, <2>2, <3>1, RestingPair, Zenon
  <2> QED
    BY <2>1, <2>3 DEF T, C
<1> QED
  BY <1>1, <1>2, <1>4

\* What a command or the check asks for finds nothing under way.
LEMMA IssueOrder ==
  ASSUME IInv, NEW qs, Asks(qs), Issue(qs), ~disorder'
  PROVE  /\ ~disorder /\ queries = <<>> /\ queries' = qs
         /\ OneEach(table') /\ OneEach(cache') /\ Paired'
         /\ table' = table /\ cache' = cache
<1>1. queries' = queries \o qs /\ table' = table /\ cache' = cache /\ ~disorder /\ queries = <<>>
  BY Zenon DEF Issue
<1>2. State /\ Ordered /\ cache \in Seq(Rows) /\ table \in Seq(Rows) /\ OneEach(table) /\ OneEach(cache)
  BY <1>1 DEF IInv, OrderInv, Ordered, State, Data
<1>3. queries' = qs
  <2>1. qs \in Seq(Asked)
    BY DEF Asks
  <2> QED
    BY <1>1, <2>1
<1>4. ASSUME NEW u \in User PROVE Pair(Find(table, u), Find(cache, u), Own(qs, u))
  <2> DEFINE T == Find(table, u)
             C == Find(cache, u)
             Q == Own(qs, u)
  <2>1. T = C
    BY <1>1, <1>2, SameRows
  <2>2. \A c, d \in C : c = d
    BY <1>2, FindOne
  <2>3. IsWarn(u) <=> C /= {}
    BY <1>2, FindWarn
  <2>4. \A q \in Q : \E k \in DOMAIN qs : qs[k] = q /\ qs[k].row.name = u
    BY OwnMembers DEF Asks
  <2>5. \A k \in DOMAIN qs : qs[k] \in Asked
    BY DEF Asks
  <2>6. \A k \in DOMAIN qs : qs[k].op \in Writes
    BY <2>5 DEF Asks, Asked, Writes
  <2> HIDE DEF T, C, Q
  <2>7. \A q \in Q : /\ q.op \in Writes /\ q.stage = "sent"
                     /\ q.op = "add" => C = {}
                     /\ q.op = "update" => C /= {}
    BY <2>3, <2>4, <2>6 DEF Asks
  <2>8. Pair(C, C, Q)
    BY <2>2, <2>7, IssuedPair, Zenon
  <2> QED
    BY <2>1, <2>8 DEF T, C, Q
<1>5. Paired'
  <2>1. (\A k \in DOMAIN qs : qs[k].op /= "list") /\ Apart(qs)
    BY DEF Asks
  <2>2. \A u \in User : Pair(Find(table, u), Find(cache, u), Own(qs, u))'
    BY <1>1, <1>3, <1>4
  <2> QED
    BY <1>1, <1>3, <1>4, <2>1 DEF Paired, Apart
<1> QED
  BY <1>1, <1>2, <1>3, <1>5

\* A ban or its lift leaves the warns as they are.
LEMMA QuietOrder ==
  ASSUME IInv, NEW qs, Asks(qs), Issue(qs), strikes' = strikes,
         \A k \in DOMAIN qs : qs[k].op \in {"add", "ban"}
  PROVE  OrderInv'
<1> SUFFICES ASSUME ~disorder' PROVE Ordered'
  BY DEF OrderInv
<1>1. /\ ~disorder /\ queries = <<>> /\ queries' = qs /\ OneEach(table') /\ OneEach(cache') /\ Paired'
      /\ table' = table
  BY IssueOrder
<1>2. State /\ Ordered
  BY <1>1 DEF IInv, OrderInv
<1>3. ASSUME NEW u \in User PROVE Covered(strikes[u], Find(table, u), Own(qs, u))
  <2>1. Covered(strikes[u], Find(table, u), {})
    BY <1>1, <1>2, SameRows
  <2>2. \A q \in Own(qs, u) : \E k \in DOMAIN qs : qs[k] = q
    BY OwnMembers DEF Asks
  <2>3. \A q \in Own(qs, u) : q.op \notin {"update", "remove"}
    BY <2>2
  <2> QED
    BY <2>1, <2>3, IssuedCovered
<1>4. Struck'
  BY <1>1, <1>3 DEF Struck
<1> QED
  BY <1>1, <1>4 DEF Ordered

\* A warn is in what is asked for; with none left there is nothing to find.
LEMMA CountOrder ==
  ASSUME IInv, NEW qs, Asks(qs), Issue(qs), NEW u \in User, NEW n \in Nat, Count(u, n),
         \A k \in DOMAIN qs : qs[k].row.name = u,
         ~disorder' => n = 0 \/ \E k \in DOMAIN qs : qs[k].op \in {"add", "update"} /\ n <= qs[k].row.warnings
  PROVE  OrderInv'
<1> SUFFICES ASSUME ~disorder' PROVE Ordered'
  BY DEF OrderInv
<1>1. /\ ~disorder /\ queries = <<>> /\ queries' = qs /\ OneEach(table') /\ OneEach(cache') /\ Paired'
      /\ table' = table
  BY IssueOrder
<1>2. State /\ Ordered /\ strikes \in [User -> Nat]
  BY <1>1 DEF IInv, OrderInv, State
<1>3. strikes'[u] = n /\ \A v \in User : v /= u => strikes'[v] = strikes[v]
  BY <1>2 DEF Count
<1>4. Covered(n, Find(table, u), Own(qs, u))
  <2>1. \A k \in DOMAIN qs : qs[k] \in Own(qs, u)
    BY OwnMembers DEF Asks
  <2> QED
    BY <2>1, Zenon DEF Covered
<1>5. ASSUME NEW v \in User, v /= u PROVE Covered(strikes[v], Find(table, v), Own(qs, v))
  <2>1. Covered(strikes[v], Find(table, v), {})
    BY <1>1, <1>2, SameRows
  <2>2. \A q \in Own(qs, v) : FALSE
    BY <1>5, OwnMembers DEF Asks
  <2> QED
    BY <2>1, <2>2, IssuedCovered
<1>6. Struck'
  BY <1>1, <1>3, <1>4, <1>5 DEF Struck
<1> QED
  BY <1>1, <1>6 DEF Ordered

\* The warns of a user at rest: at most those of the row in m_Warns.
LEMMA StrikesOfRow ==
  ASSUME IInv, ~disorder, queries = <<>>, NEW u \in User
  PROVE  /\ ~IsWarn(u) => strikes[u] = 0
         /\ IsWarn(u) => strikes[u] <= Warn(u).warnings
<1>1. State /\ Ordered /\ cache \in Seq(Rows) /\ strikes \in [User -> Nat] /\ OneEach(cache)
  BY DEF IInv, OrderInv, State, Data, Ordered
<1>2. Find(table, u) = Find(cache, u) /\ Covered(strikes[u], Find(table, u), {})
  BY <1>1, SameRows
<1>3. strikes[u] = 0 \/ \E t \in Find(cache, u) : strikes[u] <= t.warnings
  BY <1>2 DEF Covered
<1>4. CASE IsWarn(u)
  <2>1. Warn(u) \in Find(cache, u) /\ Warn(u).warnings \in 0..MaxWarns
    BY <1>1, <1>4, WarnType DEF Find
  <2>2. Find(cache, u) = {Warn(u)}
    BY <1>1, <2>1, FindOne
  <2> QED
    BY <1>1, <1>3, <1>4, <2>1, <2>2
<1>5. CASE ~IsWarn(u)
  <2>1. Find(cache, u) = {}
    BY <1>1, <1>5, FindWarn
  <2> QED
    BY <1>3, <1>5, <2>1
<1> QED
  BY <1>4, <1>5

\* When a command counts in order, nothing is under way.
LEMMA IssueCalm ==
  ASSUME NEW qs, Issue(qs), ~disorder'
  PROVE  ~disorder /\ queries = <<>>
BY Zenon DEF Issue

LEMMA RefreshOrder ==
  ASSUME IInv, DailyRefresh \/ \E us \in {{}, User} : Reload(us)
  PROVE  OrderInv'
<1> SUFFICES ASSUME ~disorder' PROVE Ordered'
  BY DEF OrderInv
<1> DEFINE K == {k \in DOMAIN queries : queries[k].op /= "list"}
<1>1. /\ queries' = <<List>> \o Kept(queries, K) \/ queries' = <<List>> \o queries
      /\ table' = table /\ cache' = cache /\ strikes' = strikes /\ ~disorder /\ queries = <<>>
  <2>1. CASE DailyRefresh
    BY <2>1, Zenon DEF DailyRefresh
  <2>2. CASE \E us \in {{}, User} : Reload(us)
    BY <2>2, Zenon DEF Reload
  <2> QED
    BY <2>1, <2>2
<1>2. State /\ Ordered /\ OneEach(table) /\ OneEach(cache)
  BY <1>1 DEF IInv, OrderInv, Ordered
<1>3. queries' = <<List>>
  <2>1. K = {} /\ K \in SUBSET (DOMAIN queries) /\ queries \in Seq(Asked)
    BY <1>1, <1>2 DEF State, Data
  <2> HIDE DEF K
  <2>2. Kept(queries, K) \in Seq(Asked) /\ DOMAIN Kept(queries, K) = 1..Cardinality(K)
    BY <2>1, KeptMembers
  <2>3. Cardinality(K) = 0
    BY <2>1, FS_EmptySet
  <2>4. Kept(queries, K) = <<>>
    BY <2>2, <2>3
  <2> DEFINE first == <<List>>
  <2>5. first \in Seq(Asked)
    BY AskTypes
  <2> HIDE DEF first
  <2>6. first \o <<>> = first
    BY <2>5
  <2> QED
    BY <1>1, <2>4, <2>6 DEF first
<1>4. Listing'
  <2> DEFINE q == List
  <2>1. q.op = "list" /\ q.stage = "sent"
    BY AskTypes
  <2> HIDE DEF q
  <2>2. queries' = <<q>>
    BY <1>3 DEF q
  <2>3. Len(queries') = 1 /\ queries'[1] = q
    BY <2>2
  <2> QED
    BY <2>1, <2>3 DEF Listing
<1>5. \A u \in User : Covered(strikes[u], Find(table, u), Own(queries', u))
  <2>1. \A u : \A q \in Own(queries', u) : q.op = "list"
    BY <1>3, AskTypes DEF Own
  <2> SUFFICES ASSUME NEW u \in User PROVE Covered(strikes[u], Find(table, u), Own(queries', u))
    OBVIOUS
  <2>2. Covered(strikes[u], Find(table, u), {})
    BY <1>1, <1>2, SameRows
  <2>3. \A q \in Own(queries', u) : q.op \notin {"update", "remove"}
    BY <2>1
  <2> QED
    BY <2>2, <2>3, IssuedCovered
<1>6. Struck'
  BY <1>1, <1>5 DEF Struck
<1>7. OneEach(table') /\ OneEach(cache')
  BY <1>1, <1>2
<1> QED
  BY <1>4, <1>6, <1>7 DEF Ordered

LEMMA CommandsOrder ==
  ASSUME IInv, Commands
  PROVE  OrderInv'
<1>1. State /\ Data /\ cache \in Seq(Rows) /\ strikes \in [User -> Nat]
  BY DEF IInv, State, Data
<1>2. ASSUME NEW u \in User, NEW h \in Terms, Cban(u, h) PROVE OrderInv'
  <2> DEFINE q == CbanQuery(u, h)
             qs == <<q>>
  <2>1. hour + h <= MaxHour /\ Command(qs) /\ strikes' = strikes
    BY <1>2, Zenon DEF Cban
  <2>2. h \in Nat
    BY Numbers
  <2>3. Asks(qs) /\ q.op \in {"add", "ban"}
    BY <1>1, <2>1, <2>2, AsksCban
  <2> HIDE DEF q
  <2>4. \A k \in DOMAIN qs : qs[k].op \in {"add", "ban"}
    BY <2>3
  <2> HIDE DEF qs
  <2> QED
    BY <1>1, <2>1, <2>3, <2>4, CommandData, QuietOrder
<1>3. ASSUME NEW u \in User, FirstWarn(u) PROVE OrderInv'
  <2> DEFINE q == Add(u, 1, 0)
             qs == <<q>>
             n == strikes[u] + 1
  <2>1. ~IsWarn(u) /\ Command(qs) /\ Count(u, n)
    BY <1>3, Zenon DEF FirstWarn
  <2>2. Asks(qs)
    BY <2>1, Numbers, AsksAdd
  <2>3. q.op = "add" /\ q.row.name = u /\ q.row.warnings = 1
    <3>1. 1 \in 0..MaxWarns /\ 0 \in 0..MaxHour
      BY Numbers
    <3> QED
      BY <3>1, AskFields, RowType
  <2>4. Issue(qs)
    BY <1>1, <2>1, <2>2, CommandData
  <2>5. ~disorder' => n <= 1
    BY <2>1, <2>4, IssueCalm, StrikesOfRow
  <2>6. n \in Nat
    BY <1>1
  <2> HIDE DEF q, n
  <2>7. DOMAIN qs = {1} /\ qs[1] = q
    OBVIOUS
  <2> HIDE DEF qs
  <2>8. /\ \A k \in DOMAIN qs : qs[k].row.name = u
        /\ ~disorder' => \E k \in DOMAIN qs : qs[k].op \in {"add", "update"} /\ n <= qs[k].row.warnings
    BY <2>3, <2>5, <2>7
  <2> QED
    BY <2>1, <2>2, <2>4, <2>6, <2>8, CountOrder
<1>4. ASSUME NEW u \in User, NextWarn(u) PROVE OrderInv'
  <2> DEFINE w == Warn(u).warnings + 1
             q == UpdateAdd(u, w)
             qs == <<q>>
             n == strikes[u] + 1
  <2>1. IsWarn(u) /\ ~Third(u) /\ Command(qs) /\ Count(u, n)
    BY <1>4, Zenon DEF NextWarn
  <2>2. w \in 0..MaxWarns
    BY <1>1, <2>1, WarnType, Numbers DEF Third
  <2>3. Asks(qs)
    BY <2>1, <2>2, AsksUpdate
  <2>4. q.op = "update" /\ q.row.name = u /\ q.row.warnings = w
    <3>1. 0 \in 0..MaxHour
      BY Numbers
    <3> HIDE DEF w
    <3> QED
      BY <2>2, <3>1, AskFields, RowType
  <2>5. Issue(qs)
    BY <1>1, <2>1, <2>3, CommandData
  <2>6. ~disorder' => n <= w
    <3>1. ~disorder' => strikes[u] <= Warn(u).warnings
      BY <2>1, <2>5, IssueCalm, StrikesOfRow
    <3>2. strikes[u] \in Nat /\ Warn(u).warnings \in 0..MaxWarns
      BY <1>1, WarnType
    <3> QED
      BY <3>1, <3>2, Numbers
  <2>7. n \in Nat
    BY <1>1
  <2> HIDE DEF q, n, w
  <2>8. DOMAIN qs = {1} /\ qs[1] = q
    OBVIOUS
  <2> HIDE DEF qs
  <2>9. /\ \A k \in DOMAIN qs : qs[k].row.name = u
        /\ ~disorder' => \E k \in DOMAIN qs : qs[k].op \in {"add", "update"} /\ n <= qs[k].row.warnings
    BY <2>4, <2>6, <2>8
  <2> QED
    BY <2>1, <2>3, <2>5, <2>7, <2>9, CountOrder
<1>5. ASSUME NEW u \in User, LastWarn(u) PROVE OrderInv'
  <2> DEFINE a == UpdateAdd(u, 0)
             b == CbanQuery(u, WarnTerm)
  <2>1. /\ IsWarn(u) /\ hour + WarnTerm <= MaxHour /\ Count(u, 0)
        /\ Command(<<a, b>>) \/ Command(<<a>>)
    BY <1>5, Zenon DEF LastWarn
  <2>2. 0 \in 0..MaxWarns /\ 0 \in 0..MaxHour /\ WarnTerm \in Nat
    BY Numbers
  <2>3. Asks(<<a, b>>)
    BY <1>1, <2>1, <2>2, AsksCban
  <2>4. Asks(<<a>>)
    BY <2>1, <2>2, AsksUpdate
  <2>5. a.row.name = u
    BY <2>2, AskFields, RowType
  <2>6. b.row.name = u
    <3> DEFINE d == hour + WarnTerm
    <3>1. d \in 0..MaxHour
      BY <1>1, <2>1, <2>2, Numbers DEF Data
    <3> HIDE DEF d
    <3>2. b = ChannelBan(u, d)
      BY <2>1, Zenon DEF CbanQuery, d
    <3> QED
      BY <2>2, <3>1, <3>2, AskFields, RowType
  <2> HIDE DEF a, b
  <2>7. \A k \in DOMAIN <<a, b>> : <<a, b>>[k].row.name = u
    BY <2>5, <2>6
  <2>8. \A k \in DOMAIN <<a>> : <<a>>[k].row.name = u
    BY <2>5
  <2>9. ASSUME NEW qs, Command(qs), Asks(qs), \A k \in DOMAIN qs : qs[k].row.name = u PROVE OrderInv'
    BY <1>1, <2>1, <2>9, CommandData, CountOrder
  <2> QED
    BY <2>1, <2>3, <2>4, <2>7, <2>8, <2>9, Zenon
<1>6. ASSUME NEW u \in User, DelWarn(u) \/ EraseWarn(u) PROVE OrderInv'
  <2> DEFINE a == UpdateAdd(u, 0)
             b == Erase(u)
  <2>1. IsWarn(u) /\ Count(u, 0) /\ (Command(<<a>>) \/ Command(<<b>>))
    BY <1>6, Zenon DEF DelWarn, EraseWarn
  <2>2. 0 \in 0..MaxWarns /\ 0 \in 0..MaxHour
    BY Numbers
  <2>3. Asks(<<a>>) /\ Asks(<<b>>)
    BY <2>1, <2>2, AsksUpdate, AsksErase
  <2>4. a.row.name = u /\ b.row.name = u
    BY <2>2, AskFields, RowType
  <2> HIDE DEF a, b
  <2>5. (\A k \in DOMAIN <<a>> : <<a>>[k].row.name = u) /\ \A k \in DOMAIN <<b>> : <<b>>[k].row.name = u
    BY <2>4
  <2>6. ASSUME NEW qs, Command(qs), Asks(qs), \A k \in DOMAIN qs : qs[k].row.name = u PROVE OrderInv'
    BY <1>1, <2>1, <2>6, CommandData, CountOrder
  <2> QED
    BY <2>1, <2>3, <2>5, <2>6, Zenon
<1>7. ASSUME NEW u \in User, NEW v \in User, DelCban(u) \/ Info(u, v) PROVE OrderInv'
  <2> DEFINE q == ChannelBan(u, 0)
             qs == <<q>>
  <2>1. Command(qs) /\ strikes' = strikes
    BY <1>7, Zenon DEF DelCban, Info
  <2>2. Asks(qs) /\ q.op = "ban"
    BY Numbers, AsksBan, AskFields
  <2> HIDE DEF q
  <2>3. \A k \in DOMAIN qs : qs[k].op \in {"add", "ban"}
    BY <2>2
  <2> HIDE DEF qs
  <2> QED
    BY <1>1, <2>1, <2>2, <2>3, CommandData, QuietOrder
<1>8. CASE FixCban
  BY <1>8 DEF FixCban, OrderInv
<1>9. ASSUME NEW us \in {{}, User}, Reload(us) PROVE OrderInv'
  BY <1>9, RefreshOrder
<1> QED
  BY <1>2, <1>3, <1>4, <1>5, <1>6, <1>7, <1>8, <1>9, Zenon DEF Commands

LEMMA OrderUnchanged ==
  ASSUME OrderInv, table' = table, cache' = cache, queries' = queries, strikes' = strikes,
         ~disorder' => ~disorder
  PROVE  OrderInv'
BY DEF OrderInv, Ordered, OneEach, Listing, Paired, Apart, Struck

LEMMA ChannelOrder ==
  ASSUME IInv, Check \/ DailyRefresh \/ Tick \/ \E u \in User : Join(u)
  PROVE  OrderInv'
<1>1. State /\ cache \in Seq(Rows) /\ OrderInv
  BY DEF IInv, State, Data
<1>2. CASE Check
  <2> DEFINE us == {r.name : r \in {r \in ToSet(cache) : Expired(r)}}
             qs == SetToSeq({ChannelBan(u, 0) : u \in us})
  <2>1. Issue(qs) /\ strikes' = strikes
    BY <1>2, Zenon DEF Check
  <2>2. us \in SUBSET User
    <3>1. \A r \in ToSet(cache) : r \in Rows
      BY <1>1 DEF ToSet
    <3>2. \A r \in ToSet(cache) : r.name \in User
      BY <3>1 DEF Rows
    <3> QED
      BY <3>2
  <2> HIDE DEF us
  <2>3. Asks(qs) /\ \A k \in DOMAIN qs : qs[k].op = "ban"
    BY <2>2, AsksLifts
  <2> HIDE DEF qs
  <2>4. \A k \in DOMAIN qs : qs[k].op \in {"add", "ban"}
    BY <2>3
  <2> QED
    BY <2>1, <2>3, <2>4, QuietOrder
<1>3. CASE DailyRefresh
  BY <1>3, RefreshOrder
<1>4. CASE Tick \/ \E u \in User : Join(u)
  <2>1. table' = table /\ cache' = cache /\ queries' = queries /\ strikes' = strikes
    BY <1>4, Zenon DEF Tick, Join
  <2>2. disorder' = disorder \/ disorder' = (disorder \/ queries /= <<>>)
    BY <1>4, Zenon DEF Tick, Join
  <2>3. ~disorder' => ~disorder
    BY <2>2, Zenon
  <2> QED
    BY <1>1, <2>1, <2>3, OrderUnchanged
<1> QED
  BY <1>2, <1>3, <1>4

---------------------------------------------------------------------------
(* The queries between the table and m_Warns keep the order.               *)

\* What a query writes changes the row of its user alone.
LEMMA WrittenEffect ==
  ASSUME Data, OneEach(table), NEW i \in DOMAIN queries, queries[i].op \in Writes,
         queries[i].op = "add" => Find(table, queries[i].row.name) = {}
  PROVE  LET q == queries[i]
             T == Find(table, q.row.name)
             new == Find(Written(q), q.row.name)
         IN  /\ OneEach(Written(q))
             /\ \A u : u /= q.row.name => Find(Written(q), u) = Find(table, u)
             /\ q.op = "add" => new = T \cup {q.row}
             /\ q.op = "remove" => new = {}
             /\ q.op \in {"update", "ban"} => (new = {} <=> T = {})
             /\ q.op = "update" => \A t \in new : t.warnings = q.row.warnings /\ \E r \in T : t.daysban = r.daysban
             /\ q.op = "ban" => \A t \in new : t.daysban = q.row.daysban /\ \E r \in T : t.warnings = r.warnings
             /\ q.op \notin {"update", "remove"} => \A t \in T : \E r \in new : r.warnings = t.warnings
<1> DEFINE q == queries[i]
           v == q.row.name
           T == Find(table, v)
           W == Written(q)
           new == Find(W, v)
<1>1. /\ q.row \in Rows /\ v \in User /\ q.row.warnings \in 0..MaxWarns /\ q.row.daysban \in 0..MaxHour
      /\ table \in Seq(Rows) /\ q.op \in Writes
  BY QueryKinds DEF Data
<1>2. /\ q.op = "add" => W = Append(table, q.row)
      /\ q.op = "update" => W = SetAll(table, v, "warnings", q.row.warnings)
      /\ q.op = "ban" => W = SetAll(table, v, "daysban", q.row.daysban)
      /\ q.op = "remove" => W = Without(table, v)
  BY WrittenRows
<1> DEFINE Effect ==
             /\ OneEach(W)
             /\ \A u : u /= v => Find(W, u) = Find(table, u)
             /\ q.op = "add" => new = T \cup {q.row}
             /\ q.op = "remove" => new = {}
             /\ q.op \in {"update", "ban"} => (new = {} <=> T = {})
             /\ q.op = "update" => \A t \in new : t.warnings = q.row.warnings /\ \E r \in T : t.daysban = r.daysban
             /\ q.op = "ban" => \A t \in new : t.daysban = q.row.daysban /\ \E r \in T : t.warnings = r.warnings
             /\ q.op \notin {"update", "remove"} => \A t \in T : \E r \in new : r.warnings = t.warnings
<1>3. q.op = "add" => T = {}
  OBVIOUS
<1> SUFFICES Effect
  BY Zenon
<1> HIDE DEF W, q
<1>4. CASE q.op = "add"
  <2>1. /\ Find(Append(table, q.row), v) = Find(table, v) \cup {q.row}
        /\ \A u : u /= v => Find(Append(table, q.row), u) = Find(table, u)
        /\ OneEach(Append(table, q.row))
    BY <1>1, <1>3, <1>4, AppendRows
  <2> QED
    BY <1>2, <1>3, <1>4, <2>1
<1>5. CASE q.op = "remove"
  <2>1. Find(W, v) = {} /\ (\A u : u /= v => Find(W, u) = Find(table, u)) /\ OneEach(W)
    BY <1>1, <1>2, <1>5, WithoutRows
  <2> QED
    BY <1>5, <2>1
<1>6. CASE q.op = "update"
  <2> DEFINE w == q.row.warnings
  <2>1. w \in 0..MaxWarns /\ W = SetAll(table, v, "warnings", w)
    BY <1>1, <1>2, <1>6
  <2> HIDE DEF w
  <2>2. /\ \A u : u /= v => Find(W, u) = Find(table, u)
        /\ Find(W, v) = {} <=> Find(table, v) = {}
        /\ \A t \in Find(W, v) : \E r \in Find(table, v) : t.warnings = w /\ t.daysban = r.daysban
        /\ OneEach(W)
    BY <1>1, <2>1, SetWarnings
  <2>3. \A t \in new : t.warnings = w /\ \E r \in T : t.daysban = r.daysban
    BY <2>2, Zenon
  <2> QED
    BY <1>6, <2>2, <2>3 DEF w
<1>7. CASE q.op = "ban"
  <2> DEFINE d == q.row.daysban
  <2>1. d \in 0..MaxHour /\ W = SetAll(table, v, "daysban", d)
    BY <1>1, <1>2, <1>7
  <2> HIDE DEF d
  <2>2. /\ \A u : u /= v => Find(W, u) = Find(table, u)
        /\ Find(W, v) = {} <=> Find(table, v) = {}
        /\ \A t \in Find(W, v) : \E r \in Find(table, v) : t.daysban = d /\ t.warnings = r.warnings
        /\ OneEach(W)
    BY <1>1, <2>1, SetBans
  <2>3. \A t \in new : t.daysban = d /\ \E r \in T : t.warnings = r.warnings
    BY <2>2, Zenon
  <2>4. ASSUME NEW t \in T PROVE \E r \in new : r.warnings = t.warnings
    <3>1. T = {t}
      BY <1>1, FindOne
    <3>2. PICK r \in new : TRUE
      BY <2>2, <3>1
    <3> QED
      BY <2>3, <3>1, <3>2
  <2> QED
    BY <1>7, <2>2, <2>3, <2>4 DEF d
<1> QED
  BY <1>1, <1>4, <1>5, <1>6, <1>7 DEF Writes

LEMMA CopiedEffect ==
  ASSUME Data, OneEach(cache), NEW i \in DOMAIN queries, queries[i].op \in Writes,
         queries[i].op = "add" => Find(cache, queries[i].row.name) = {}
  PROVE  LET q == queries[i]
             C == Find(cache, q.row.name)
             new == Find(Copied(q), q.row.name)
         IN  /\ OneEach(Copied(q))
             /\ \A u : u /= q.row.name => Find(Copied(q), u) = Find(cache, u)
             /\ q.op = "add" => new = C \cup {q.row}
             /\ q.op = "remove" => new = {}
             /\ q.op \in {"update", "ban"} => (new = {} <=> C = {})
             /\ q.op = "update" => \A c \in new : c.warnings = q.row.warnings /\ \E r \in C : c.daysban = r.daysban
             /\ q.op = "ban" => \A c \in new : c.daysban = q.row.daysban /\ \E r \in C : c.warnings = r.warnings
<1> DEFINE q == queries[i]
           v == q.row.name
           C == Find(cache, v)
           W == Copied(q)
           new == Find(W, v)
           updated == Row(v, q.row.warnings, Warn(v).daysban)
           ban == Row(v, Warn(v).warnings, q.row.daysban)
<1>1. /\ q.row \in Rows /\ v \in User /\ cache \in Seq(Rows) /\ q.op \in Writes
  BY QueryKinds DEF Data
<1>2. /\ q.op = "add" => W = Append(cache, q.row)
      /\ q.op = "update" => W = Rebuilt(v, updated)
      /\ q.op = "ban" => W = Rebuilt(v, ban)
      /\ q.op = "remove" => W = Without(cache, v)
      /\ updated \in Rows /\ ban \in Rows
  BY CopiedRows
<1>3. /\ updated.name = v /\ updated.warnings = q.row.warnings /\ updated.daysban = Warn(v).daysban
      /\ ban.name = v /\ ban.daysban = q.row.daysban /\ ban.warnings = Warn(v).warnings
  BY DEF Row
<1>4. C /= {} => Warn(v) \in C
  <2>1. IsWarn(v) <=> C /= {}
    BY <1>1, FindWarn
  <2> QED
    BY <1>1, <2>1, WarnType DEF Find
<1> DEFINE Effect ==
             /\ OneEach(W)
             /\ \A u : u /= v => Find(W, u) = Find(cache, u)
             /\ q.op = "add" => new = C \cup {q.row}
             /\ q.op = "remove" => new = {}
             /\ q.op \in {"update", "ban"} => (new = {} <=> C = {})
             /\ q.op = "update" => \A c \in new : c.warnings = q.row.warnings /\ \E r \in C : c.daysban = r.daysban
             /\ q.op = "ban" => \A c \in new : c.daysban = q.row.daysban /\ \E r \in C : c.warnings = r.warnings
<1>5. q.op = "add" => C = {}
  OBVIOUS
<1> SUFFICES Effect
  BY Zenon
<1> HIDE DEF W, updated, ban, q
<1>6. CASE q.op = "add"
  <2>1. /\ Find(Append(cache, q.row), v) = Find(cache, v) \cup {q.row}
        /\ \A u : u /= v => Find(Append(cache, q.row), u) = Find(cache, u)
        /\ OneEach(Append(cache, q.row))
    BY <1>1, <1>5, <1>6, AppendRows
  <2> QED
    BY <1>2, <1>5, <1>6, <2>1
<1>7. CASE q.op = "remove"
  <2>1. Find(W, v) = {} /\ (\A u : u /= v => Find(W, u) = Find(cache, u)) /\ OneEach(W)
    BY <1>1, <1>2, <1>7, WithoutRows
  <2> QED
    BY <1>7, <2>1
<1>8. ASSUME NEW row \in Rows, row.name = v, W = Rebuilt(v, row)
      PROVE  /\ OneEach(W) /\ \A u : u /= v => Find(W, u) = Find(cache, u)
             /\ Find(W, v) = IF Find(cache, v) = {} THEN {} ELSE {row}
  <2>1. /\ \A u : u /= v => Find(Rebuilt(v, row), u) = Find(cache, u)
        /\ Find(Rebuilt(v, row), v) = IF Find(cache, v) = {} THEN {} ELSE {row}
        /\ OneEach(cache) => OneEach(Rebuilt(v, row))
    BY <1>1, <1>8, RebuiltRows, Zenon
  <2> QED
    BY <1>8, <2>1
<1>9. CASE q.op = "update"
  <2>1. /\ OneEach(W) /\ \A u : u /= v => Find(W, u) = Find(cache, u)
        /\ Find(W, v) = IF Find(cache, v) = {} THEN {} ELSE {updated}
    BY <1>2, <1>3, <1>8, <1>9
  <2> QED
    BY <1>3, <1>4, <1>9, <2>1
<1>10. CASE q.op = "ban"
  <2>1. /\ OneEach(W) /\ \A u : u /= v => Find(W, u) = Find(cache, u)
        /\ Find(W, v) = IF Find(cache, v) = {} THEN {} ELSE {ban}
    BY <1>2, <1>3, <1>8, <1>10
  <2> QED
    BY <1>3, <1>4, <1>10, <2>1
<1> QED
  BY <1>1, <1>6, <1>7, <1>9, <1>10 DEF Writes

LEMMA ExecuteOrder ==
  ASSUME IInv, NEW i \in DOMAIN queries, Execute(i)
  PROVE  OrderInv'
<1> SUFFICES ASSUME ~disorder' PROVE Ordered'
  BY DEF OrderInv
<1> DEFINE q == queries[i]
           done == queries'[i]
<1>1. cache' = cache /\ strikes' = strikes /\ disorder' = disorder
  BY Zenon DEF Execute
<1>2. State /\ Data /\ Ordered /\ queries \in Seq(Asked)
  BY <1>1 DEF IInv, OrderInv, State, Data
<1>3. /\ State' /\ table' = Written(q) /\ q.stage = "sent" /\ DOMAIN queries' = DOMAIN queries
      /\ done.stage = "done" /\ done.op = q.op /\ done.row = q.row
      /\ q.op = "list" => done.rows = table
      /\ \A k \in DOMAIN queries : k /= i => queries'[k] = queries[k]
  BY <1>2, ExecuteState
<1>4. queries' \in Seq(Asked)
  BY <1>3 DEF State, Data
<1>5. CASE Listing
  <2>1. i = 1 /\ DOMAIN queries = {1} /\ q.op = "list"
    BY <1>2, <1>5 DEF Listing
  <2>2. table' = table
    BY <1>2, <1>3, <2>1, WrittenRows
  <2>3. Len(queries') = 1
    BY <1>2, <1>3, <1>4, <1>5 DEF Listing
  <2>4. Listing'
    BY <1>3, <2>1, <2>2, <2>3 DEF Listing
  <2>5. (\A u : \A o \in Own(queries, u) : o.op = "list") /\ \A u : \A o \in Own(queries', u) : o.op = "list"
    <3>1. \A k \in DOMAIN queries : queries[k].op = "list" /\ queries'[k].op = "list"
      BY <1>3, <2>1
    <3> QED
      BY <1>2, <1>3, <1>4, <3>1, OwnMembers
  <2>6. \A u \in User : Covered(strikes[u], Find(table, u), Own(queries', u))
    <3> SUFFICES ASSUME NEW u \in User PROVE Covered(strikes[u], Find(table, u), Own(queries', u))
      OBVIOUS
    <3>1. Covered(strikes[u], Find(table, u), Own(queries, u))
      BY <1>2 DEF Ordered, Struck
    <3>2. (\A o \in Own(queries, u) : o.op = "list") /\ \A o \in Own(queries', u) : o.op = "list"
      BY <2>5
    <3> QED
      BY <3>1, <3>2 DEF Covered
  <2>7. Struck'
    BY <1>1, <2>2, <2>6 DEF Struck
  <2>8. OneEach(table') /\ OneEach(cache')
    BY <1>1, <1>2, <2>2 DEF Ordered
  <2> QED
    BY <2>4, <2>7, <2>8 DEF Ordered
<1>6. CASE Paired
  <2> DEFINE v == q.row.name
             T == Find(table, v)
             C == Find(cache, v)
             Q == Own(queries, v)
  <2>1. v \in User /\ q.op \in Writes
    BY <1>2, <1>6, QueryKinds DEF Paired, Writes
  <2>2. q \in Q /\ Beside(q, Q)
    BY <1>2, <1>6, OwnApart DEF Paired, Beside
  <2>3. Pair(T, C, Q) /\ Covered(strikes[v], T, Q)
    BY <1>2, <1>6, <2>1 DEF Paired, Ordered, Struck
  <2>4. q.op = "add" => T = {}
    <3>1. "sent" /= "done"
      OBVIOUS
    <3> QED
      BY <1>3, <2>2, <2>3, <3>1 DEF Pair
  <2>5. /\ OneEach(table')
        /\ \A u : u /= v => Find(table', u) = Find(table, u)
        /\ q.op = "add" => Find(table', v) = T \cup {q.row}
        /\ q.op = "remove" => Find(table', v) = {}
        /\ q.op \in {"update", "ban"} => (Find(table', v) = {} <=> T = {})
        /\ q.op = "update" => \A t \in Find(table', v) :
                                t.warnings = q.row.warnings /\ \E r \in T : t.daysban = r.daysban
        /\ q.op = "ban" => \A t \in Find(table', v) :
                             t.daysban = q.row.daysban /\ \E r \in T : t.warnings = r.warnings
        /\ q.op \notin {"update", "remove"} => \A t \in T : \E r \in Find(table', v) : r.warnings = t.warnings
    <3>1. OneEach(table)
      BY <1>2 DEF Ordered
    <3> QED
      BY <1>2, <1>3, <2>1, <2>4, <3>1, WrittenEffect
  <2>6. /\ Apart(queries') /\ \A u : u /= v => Own(queries', u) = Own(queries, u)
        /\ Own(queries', v) = (Q \ {q}) \cup {done}
    BY <1>2, <1>3, <1>4, <1>6, OwnChanged DEF Paired
  <2>7. Pair(Find(table', v), C, (Q \ {q}) \cup {done})
    <3> DEFINE new == Find(table', v)
               last == done
    <3> HIDE DEF T, C, Q, new, last, q
    <3>1. last.stage = "done" /\ last.op = q.op /\ last.row = q.row /\ q.stage = "sent"
      BY <1>3 DEF last, q
    <3>2. /\ q.op = "add" => new = T \cup {q.row}
          /\ q.op = "remove" => new = {}
          /\ q.op \in {"update", "ban"} => (new = {} <=> T = {})
          /\ q.op = "update" => \A t \in new : t.warnings = q.row.warnings /\ \E r \in T : t.daysban = r.daysban
          /\ q.op = "ban" => \A t \in new : t.daysban = q.row.daysban /\ \E r \in T : t.warnings = r.warnings
      BY <2>5 DEF new
    <3>3. Pair(new, C, (Q \ {q}) \cup {last})
      BY <2>1, <2>2, <2>3, <3>1, <3>2, ExecutedPair
    <3> QED
      BY <3>3 DEF new, last
  <2>8. Covered(strikes[v], Find(table', v), (Q \ {q}) \cup {done})
    <3> DEFINE new == Find(table', v)
               last == done
               n == strikes[v]
    <3> HIDE DEF T, C, Q, new, last, q, n
    <3>1. last.op = q.op /\ last.row = q.row /\ Covered(n, T, Q)
      BY <1>3, <2>3 DEF last, q, n
    <3>2. q.op \notin {"update", "remove"} => \A t \in T : \E r \in new : r.warnings = t.warnings
      BY <2>5 DEF new
    <3>3. Covered(n, new, (Q \ {q}) \cup {last})
      BY <2>2, <3>1, <3>2, ExecutedCovered
    <3> QED
      BY <3>3 DEF new, last, n
  <2>9. \A u \in User : /\ Pair(Find(table', u), Find(cache, u), Own(queries', u))
                        /\ Covered(strikes[u], Find(table', u), Own(queries', u))
    <3> SUFFICES ASSUME NEW u \in User
                 PROVE  /\ Pair(Find(table', u), Find(cache, u), Own(queries', u))
                        /\ Covered(strikes[u], Find(table', u), Own(queries', u))
      OBVIOUS
    <3>1. CASE u = v
      BY <2>6, <2>7, <2>8, <3>1
    <3>2. CASE u /= v
      <4>1. Find(table', u) = Find(table, u) /\ Own(queries', u) = Own(queries, u)
        BY <2>5, <2>6, <3>2
      <4>2. /\ Pair(Find(table, u), Find(cache, u), Own(queries, u))
            /\ Covered(strikes[u], Find(table, u), Own(queries, u))
        BY <1>2, <1>6, Zenon DEF Paired, Ordered, Struck
      <4> QED
        BY <4>1, <4>2
    <3> QED
      BY <3>1, <3>2
  <2>10. \A k \in DOMAIN queries' : queries'[k].op /= "list"
    <3>1. \A k \in DOMAIN queries : queries[k].op /= "list"
      BY <1>6 DEF Paired
    <3> QED
      BY <1>3, <3>1
  <2>11. Paired'
    BY <1>1, <2>6, <2>9, <2>10 DEF Paired, Apart
  <2>12. Struck'
    BY <1>1, <2>9 DEF Struck
  <2>13. OneEach(cache')
    BY <1>1, <1>2 DEF Ordered
  <2> QED
    BY <2>5, <2>11, <2>12, <2>13 DEF Ordered
<1> QED
  BY <1>2, <1>5, <1>6 DEF Ordered

LEMMA ConsumeOrder ==
  ASSUME IInv, NEW i \in DOMAIN queries, Consume(i)
  PROVE  OrderInv'
<1> SUFFICES ASSUME ~disorder' PROVE Ordered'
  BY DEF OrderInv
<1> DEFINE q == queries[i]
           left == RemoveAt(queries, i)
<1>1. /\ table' = table /\ strikes' = strikes /\ disorder' = disorder
      /\ cache' = Copied(q) /\ queries' = left /\ q.stage = "done"
  BY Zenon DEF Consume
<1>2. State /\ Data /\ Ordered /\ queries \in Seq(Asked) /\ table \in Seq(Rows)
  BY <1>1 DEF IInv, OrderInv, State, Data
<1>3. left \in Seq(Asked)
  BY <1>2, RemoveType
<1>4. CASE Listing
  <2>1. i = 1 /\ Len(queries) = 1 /\ q.op = "list" /\ q.rows = table
    BY <1>1, <1>2, <1>4 DEF Listing
  <2>2. cache' = table
    BY <1>1, <1>2, <2>1, CopiedRows
  <2>3. left = <<>>
    <3>1. SubSeq(queries, 1, 0) = <<>> /\ SubSeq(queries, 2, 1) = <<>>
      BY <1>2
    <3> QED
      BY <2>1, <3>1 DEF RemoveAt
  <2>4. \A u : Own(left, u) = {}
    BY <2>3 DEF Own
  <2>5. \A u \in User : /\ Pair(Find(table, u), Find(table, u), Own(left, u))
                        /\ Covered(strikes[u], Find(table, u), Own(left, u))
    <3> SUFFICES ASSUME NEW u \in User
                 PROVE  /\ Pair(Find(table, u), Find(table, u), Own(left, u))
                        /\ Covered(strikes[u], Find(table, u), Own(left, u))
      OBVIOUS
    <3>1. \A s, t \in Find(table, u) : s = t
      BY <1>2, FindOne DEF Ordered
    <3>2. Pair(Find(table, u), Find(table, u), Own(left, u))
      BY <2>4, <3>1 DEF Pair, Agree
    <3>3. Covered(strikes[u], Find(table, u), Own(queries, u))
      BY <1>2 DEF Ordered, Struck
    <3>4. \A o \in Own(queries, u) : o.op = "list"
      BY <1>2, <2>1, OwnMembers
    <3>5. Covered(strikes[u], Find(table, u), Own(left, u))
      BY <2>4, <3>3, <3>4 DEF Covered
    <3> QED
      BY <3>2, <3>5
  <2>6. Paired'
    BY <1>1, <2>2, <2>3, <2>5 DEF Paired, Apart
  <2>7. Struck'
    BY <1>1, <2>5 DEF Struck
  <2>8. OneEach(table') /\ OneEach(cache')
    BY <1>1, <1>2, <2>2 DEF Ordered
  <2> QED
    BY <2>6, <2>7, <2>8 DEF Ordered
<1>5. CASE Paired
  <2> DEFINE v == q.row.name
             T == Find(table, v)
             C == Find(cache, v)
             Q == Own(queries, v)
  <2>1. v \in User /\ q.op \in Writes
    BY <1>2, <1>5, QueryKinds DEF Paired, Writes
  <2>2. q \in Q /\ Beside(q, Q)
    BY <1>2, <1>5, OwnApart DEF Paired, Beside
  <2>3. Pair(T, C, Q) /\ Covered(strikes[v], T, Q)
    BY <1>2, <1>5, <2>1 DEF Paired, Ordered, Struck
  <2>4. q.op = "add" => C = {}
    BY <2>2, <2>3 DEF Pair
  <2>5. /\ OneEach(cache')
        /\ \A u : u /= v => Find(cache', u) = Find(cache, u)
        /\ q.op = "add" => Find(cache', v) = C \cup {q.row}
        /\ q.op = "remove" => Find(cache', v) = {}
        /\ q.op \in {"update", "ban"} => (Find(cache', v) = {} <=> C = {})
        /\ q.op = "update" => \A c \in Find(cache', v) :
                                c.warnings = q.row.warnings /\ \E r \in C : c.daysban = r.daysban
        /\ q.op = "ban" => \A c \in Find(cache', v) :
                             c.daysban = q.row.daysban /\ \E r \in C : c.warnings = r.warnings
    <3>1. OneEach(cache)
      BY <1>2 DEF Ordered
    <3> QED
      BY <1>1, <1>2, <2>1, <2>4, <3>1, CopiedEffect
  <2>6. /\ Apart(left) /\ \A j \in DOMAIN left : \E k \in DOMAIN queries : left[j] = queries[k]
        /\ \A u : u /= v => Own(left, u) = Own(queries, u)
        /\ Own(left, v) = Q \ {q}
    BY <1>2, <1>5, OwnRemoved DEF Paired
  <2>7. Pair(T, Find(cache', v), Q \ {q})
    <3> DEFINE new == Find(cache', v)
    <3> HIDE DEF T, C, Q, new, q
    <3>1. q.stage = "done"
      BY <1>1 DEF q
    <3>2. /\ q.op = "add" => new = C \cup {q.row}
          /\ q.op = "remove" => new = {}
          /\ q.op \in {"update", "ban"} => (new = {} <=> C = {})
          /\ q.op = "update" => \A c \in new : c.warnings = q.row.warnings /\ \E r \in C : c.daysban = r.daysban
          /\ q.op = "ban" => \A c \in new : c.daysban = q.row.daysban /\ \E r \in C : c.warnings = r.warnings
      BY <2>5 DEF new
    <3>3. Pair(T, new, Q \ {q})
      BY <2>1, <2>2, <2>3, <3>1, <3>2, ConsumedPair
    <3> QED
      BY <3>3 DEF new
  <2>8. Covered(strikes[v], T, Q \ {q})
    <3> DEFINE n == strikes[v]
    <3> HIDE DEF T, C, Q, q, n
    <3>1. q.stage = "done" /\ Covered(n, T, Q)
      BY <1>1, <2>3 DEF q, n
    <3>2. Covered(n, T, Q \ {q})
      BY <2>1, <2>2, <2>3, <3>1, ConsumedCovered
    <3> QED
      BY <3>2 DEF n
  <2>9. \A u \in User : /\ Pair(Find(table, u), Find(cache', u), Own(left, u))
                        /\ Covered(strikes[u], Find(table, u), Own(left, u))
    <3> SUFFICES ASSUME NEW u \in User
                 PROVE  /\ Pair(Find(table, u), Find(cache', u), Own(left, u))
                        /\ Covered(strikes[u], Find(table, u), Own(left, u))
      OBVIOUS
    <3>1. CASE u = v
      BY <2>6, <2>7, <2>8, <3>1
    <3>2. CASE u /= v
      <4>1. Find(cache', u) = Find(cache, u) /\ Own(left, u) = Own(queries, u)
        BY <2>5, <2>6, <3>2
      <4>2. /\ Pair(Find(table, u), Find(cache, u), Own(queries, u))
            /\ Covered(strikes[u], Find(table, u), Own(queries, u))
        BY <1>2, <1>5, Zenon DEF Paired, Ordered, Struck
      <4> QED
        BY <4>1, <4>2
    <3> QED
      BY <3>1, <3>2
  <2>10. \A k \in DOMAIN left : left[k].op /= "list"
    <3>1. \A k \in DOMAIN queries : queries[k].op /= "list"
      BY <1>5 DEF Paired
    <3> QED
      BY <2>6, <3>1
  <2>11. Paired'
    BY <1>1, <2>6, <2>9, <2>10 DEF Paired, Apart
  <2>12. Struck'
    BY <1>1, <2>9 DEF Struck
  <2>13. OneEach(table')
    BY <1>1, <1>2 DEF Ordered
  <2> QED
    BY <2>5, <2>11, <2>12, <2>13 DEF Ordered
<1> QED
  BY <1>2, <1>4, <1>5 DEF Ordered

LEMMA InitOrder == Init => OrderInv
<1> SUFFICES ASSUME Init PROVE Ordered
  BY DEF OrderInv
<1>1. /\ cache = <<>> /\ queries = <<List>>
      /\ strikes = [u \in User |-> IF table = <<>> THEN 0 ELSE IF table[1].name = u THEN 1 ELSE 0]
  BY Zenon DEF Init
<1>2. table \in Seq(Rows) /\ OneEach(table) /\ \A r \in ToSet(table) : r.warnings = 1
  BY InitTable
<1>3. OneEach(cache)
  BY <1>1 DEF OneEach
<1>4. List.op = "list" /\ List.stage = "sent"
  BY AskTypes
<1> DEFINE q == List
<1> HIDE DEF q
<1>5. queries = <<q>> /\ q.op = "list" /\ q.stage = "sent"
  BY <1>1, <1>4 DEF q
<1>6. Listing
  BY <1>5 DEF Listing
<1>7. ASSUME NEW u \in User PROVE Covered(strikes[u], Find(table, u), Own(queries, u))
  <2>1. \A o \in Own(queries, u) : o.op = "list"
    BY <1>5 DEF Own
  <2>2. strikes[u] = IF table = <<>> THEN 0 ELSE IF table[1].name = u THEN 1 ELSE 0
    BY <1>1
  <2>3. CASE table = <<>> \/ table[1].name /= u
    BY <2>2, <2>3 DEF Covered
  <2>4. CASE table /= <<>> /\ table[1].name = u
    <3>1. 1 \in DOMAIN table
      BY <1>2, <2>4
    <3>2. table[1] \in Find(table, u) /\ table[1].warnings = 1
      BY <1>2, <2>4, <3>1 DEF Find, ToSet
    <3> QED
      BY <2>1, <2>2, <2>4, <3>2 DEF Covered
  <2> QED
    BY <2>3, <2>4
<1>8. Struck
  BY <1>7, Zenon DEF Struck
<1> QED
  BY <1>2, <1>3, <1>6, <1>8, Zenon DEF Ordered

LEMMA StepOrder ==
  ASSUME IInv, [Next]_vars
  PROVE  OrderInv'
<1>1. CASE Next
  <2>1. \/ Commands \/ Check \/ DailyRefresh \/ Tick \/ \E u \in User : Join(u)
        \/ \E i \in DOMAIN queries : Execute(i) \/ Fail(i) \/ Consume(i)
    BY <1>1, Zenon DEF Next
  <2>2. ASSUME NEW i \in DOMAIN queries, Fail(i) PROVE OrderInv'
    <3>1. disorder' = TRUE
      BY <2>2, Zenon DEF Fail
    <3> QED
      BY <3>1 DEF OrderInv
  <2>3. ASSUME NEW i \in DOMAIN queries, Execute(i) \/ Consume(i) PROVE OrderInv'
    BY <2>3, ExecuteOrder, ConsumeOrder
  <2> QED
    BY <2>1, <2>2, <2>3, CommandsOrder, ChannelOrder
<1>2. CASE UNCHANGED vars
  <2>1. table' = table /\ cache' = cache /\ queries' = queries /\ strikes' = strikes /\ disorder' = disorder
    BY <1>2, Zenon DEF vars
  <2> QED
    BY <2>1, OrderUnchanged DEF IInv
<1> QED
  BY <1>1, <1>2

---------------------------------------------------------------------------
(* The theorems                                                            *)

\* The inductive invariant: types, and, as long as every query was asked of what the
\* queries before had done and none failed, what the rows of a user in the table and in
\* m_Warns have to do with the queries between them (CBNET::Update, guard/bnet.cpp).
THEOREM WarnsCorrect == Spec => []IInv
<1>1. Init => IInv
  BY InitState, InitOrder DEF IInv
<1>2. IInv /\ [Next]_vars => IInv'
  <2> SUFFICES ASSUME IInv, [Next]_vars PROVE IInv'
    OBVIOUS
  <2>1. State'
    BY StepState DEF IInv
  <2>2. OrderInv'
    BY StepOrder
  <2> QED
    BY <2>1, <2>2 DEF IInv
<1> QED
  BY <1>1, <1>2, PTL DEF Spec

LEMMA LengthOfRows ==
  ASSUME NEW rows \in Seq(Rows), OneEach(rows)
  PROVE  Len(rows) = Cardinality(ToSet(rows)) /\ IsFiniteSet(ToSet(rows))
<1> DEFINE n == Len(rows)
<1>1. n \in Nat /\ DOMAIN rows = 1..n /\ rows \in [1..n -> Rows]
  OBVIOUS
<1>2. ToSet(rows) = {rows[k] : k \in 1..n}
  BY <1>1 DEF ToSet
<1>3. rows \in Surjection(1..n, ToSet(rows))
  BY <1>1, <1>2 DEF Surjection
<1>4. \A j, k \in 1..n : rows[j] = rows[k] => j = k
  BY <1>1 DEF OneEach
<1>5. rows \in Bijection(1..n, ToSet(rows))
  BY <1>3, <1>4 DEF Bijection, Injection, IsInjective, Surjection
<1>6. IsFiniteSet(1..n) /\ Cardinality(1..n) = n
  BY <1>1, FS_Interval
<1> DEFINE S == 1..n
           R == ToSet(rows)
<1> HIDE DEF S, R, n
<1>7. IsFiniteSet(S) /\ Cardinality(S) = n /\ rows \in Bijection(S, R)
  BY <1>5, <1>6 DEF S, R
<1>8. IsFiniteSet(R) /\ Cardinality(R) = Cardinality(S)
  BY <1>7, FS_Bijection, Zenon DEF ExistsBijection
<1> QED
  BY <1>7, <1>8 DEF R, n

\* When every query is consumed, none having failed or met another command, m_Warns has
\* the rows of the table: the two queries of a third warn (UpdateAddWarn, ChannelBanWarn)
\* write different fields, in any order.
THEOREM SameWarnsCorrect == Spec => []SameWarns
<1>1. IInv => SameWarns
  <2> SUFFICES ASSUME IInv, queries = <<>>, ~disorder
               PROVE  Len(cache) = Len(table) /\ ToSet(cache) = ToSet(table)
    BY DEF SameWarns
  <2>1. /\ State /\ Ordered /\ table \in Seq(Rows) /\ cache \in Seq(Rows)
        /\ OneEach(table) /\ OneEach(cache)
    BY DEF IInv, OrderInv, Ordered, State, Data
  <2>2. \A u \in User : Find(table, u) = Find(cache, u)
    BY <2>1, SameRows
  <2>3. \A r \in ToSet(table) \cup ToSet(cache) : r.name \in User
    <3>1. \A r \in ToSet(table) \cup ToSet(cache) : r \in Rows
      BY <2>1 DEF ToSet
    <3> QED
      BY <3>1 DEF Rows
  <2>4. ToSet(cache) = ToSet(table)
    BY <2>2, <2>3 DEF Find
  <2>5. Len(cache) = Cardinality(ToSet(cache)) /\ Len(table) = Cardinality(ToSet(table))
    BY <2>1, LengthOfRows
  <2> QED
    BY <2>4, <2>5
<1> QED
  BY <1>1, WarnsCorrect, PTL

\* Nobody has more than MaxWarns warnings in a row, whatever is lost or reordered; and as
\* long as each warn was in m_Warns before the next, nobody who can be banned collects
\* more than MaxWarns without the ban (the third warn of the command warn).
THEOREM WarningsCorrect == Spec => []WarningsBounded
<1>1. IInv => WarningsBounded
  <2> SUFFICES ASSUME IInv PROVE TypeOK /\ ThirdWarnBans
    BY DEF WarningsBounded
  <2>1. TypeOK
    BY StateType DEF IInv
  <2>2. ASSUME ~disorder, NEW u \in Bannable PROVE strikes[u] <= MaxWarns
    <3>1. u \in User
      BY SetAssumption
    <3>2. Covered(strikes[u], Find(table, u), Own(queries, u))
      BY <2>2, <3>1 DEF IInv, OrderInv, Ordered, Struck
    <3>3. State /\ strikes[u] \in Nat /\ table \in Seq(Rows) /\ queries \in Seq(Asked)
      BY <3>1 DEF IInv, State, Data
    <3>4. \A t \in Find(table, u) : t.warnings \in 0..MaxWarns
      <4>1. \A t \in Find(table, u) : t \in Rows
        BY <3>3, FindPositions
      <4> QED
        BY <4>1 DEF Rows
    <3>5. \A q \in Own(queries, u) : q.row.warnings \in 0..MaxWarns
      <4>1. \A q \in Own(queries, u) : q \in Asked
        BY <3>3, OwnMembers
      <4>2. \A q \in Own(queries, u) : q.row \in Rows
        BY <4>1 DEF Asked
      <4> QED
        BY <4>2 DEF Rows
    <3> QED
      BY <3>2, <3>3, <3>4, <3>5, Numbers DEF Covered
  <2>3. ThirdWarnBans
    BY <2>2 DEF ThirdWarnBans
  <2> QED
    BY <2>1, <2>3
<1> QED
  BY <1>1, WarnsCorrect, PTL

\* A ban stands until its hour: what the check of Update decides on m_Warns frees nobody
\* whose ban in the table goes on.
THEOREM BansStand == Spec => BanStands
<1> DEFINE Stands == ~disorder' /\ commands' = commands =>
                       \A u \in banned \ banned', r \in ToSet(table) : r.name = u => r.daysban <= hour
<1>1. IInv /\ [Next]_vars => [Stands]_vars
  <2> SUFFICES ASSUME IInv, Next, ~disorder', commands' = commands,
                      NEW u \in banned \ banned', NEW r \in ToSet(table), r.name = u
               PROVE  r.daysban <= hour
    BY DEF vars
  <2>1. State /\ commands \in Nat /\ table \in Seq(Rows) /\ cache \in Seq(Rows)
    BY Numbers DEF IInv, State, Data
  <2>2. ~Commands
    <3>1. commands + 1 /= commands
      BY <2>1
    <3>2. Commands => commands' = commands + 1
      BY Zenon DEF Commands, Cban, FirstWarn, NextWarn, LastWarn, DelWarn, EraseWarn, DelCban, FixCban,
                   Info, Reload, Command
    <3> QED
      BY <3>1, <3>2
  <2>3. banned' /= banned
    OBVIOUS
  <2>4. ~DailyRefresh /\ ~Tick /\ ~\E i \in DOMAIN queries : Execute(i) \/ Fail(i) \/ Consume(i)
    BY <2>3, Zenon DEF DailyRefresh, Tick, Execute, Fail, Consume
  <2>5. ASSUME NEW v \in User PROVE ~Join(v)
    BY DEF Join, Ban
  <2>6. Check
    BY <2>2, <2>4, <2>5, Zenon DEF Next
  <2> DEFINE us == {p.name : p \in {p \in ToSet(cache) : Expired(p)}}
             qs == SetToSeq({ChannelBan(v, 0) : v \in us})
  <2>7. Issue(qs) /\ Unban(us)
    BY <2>6, Zenon DEF Check
  <2>8. PICK p \in ToSet(cache) : Expired(p) /\ p.name = u
    BY <2>7 DEF Unban
  <2> HIDE DEF us, qs
  <2>9. ~disorder /\ queries = <<>>
    BY <2>7, IssueCalm
  <2>10. u \in User /\ Ordered
    BY <2>9 DEF IInv, OrderInv, State, Server
  <2>11. Find(table, u) = Find(cache, u) /\ OneEach(table)
    BY <2>1, <2>9, <2>10, SameRows DEF Ordered
  <2>12. r \in Find(table, u) /\ p \in Find(cache, u)
    BY <2>8 DEF Find
  <2>13. r = p
    BY <2>1, <2>11, <2>12, FindOne
  <2>14. hour \in Nat
    BY <2>1, Numbers DEF State, Data
  <2> QED
    BY <2>8, <2>13, <2>14 DEF Expired
<1>2. Spec => [][Stands]_vars
  BY <1>1, WarnsCorrect, PTL DEF Spec
<1> QED
  BY <1>2 DEF BanStands
=============================================================================
