-------------------------- MODULE InfoCacheProofs --------------------------
(***************************************************************************)
(* Proofs about InfoCache, for any accounts, levels, points and number of  *)
(* commands: m_Infos shows only what the database has accepted, however    *)
(* the queries are reordered, overwritten or failed (AcceptedCorrect).     *)
(* While they neither overlap nor fail, m_Infos agrees with the table and  *)
(* no account has two rows (SequentialCorrect, OneRowCorrect).             *)
(*                                                                         *)
(* Nothing but the members of a sequence of queries matters, so the steps  *)
(* that issue, drop and consume queries need no more than where a member   *)
(* comes from.                                                             *)
(***************************************************************************)
EXTENDS InfoCache, SequenceTheorems, WellFoundedInduction, TLAPS

\* A finite set of positions has a last one.
LEMMA Greatest ==
  ASSUME NEW n \in Nat, NEW S \in SUBSET (1..n), S /= {}
  PROVE  \E m \in S : \A k \in S : k <= m
<1> DEFINE T == {n - k : k \in S}
<1>1. T \subseteq Nat /\ T /= {}
  <2>1. \A k \in S : n - k \in Nat
    OBVIOUS
  <2>2. \E k \in S : n - k \in T
    BY Zenon
  <2> QED
    BY <2>1, <2>2, Zenon
<1>2. PICK x \in T : \A y \in T : ~(<<y, x>> \in OpToRel(<, Nat))
  BY <1>1, WFMin, NatLessThanWellFounded, Zenon
<1>3. \A y \in T : <<y, x>> \in OpToRel(<, Nat) <=> y < x
  BY <1>1, <1>2, Zenon DEF OpToRel
<1>4. PICK m \in S : x = n - m
  BY <1>2, Zenon
<1>5. \A k \in S : ~(n - k < n - m)
  BY <1>2, <1>3, <1>4, Zenon
<1> QED
  BY <1>4, <1>5

\* The points of an account are a number, whatever rows it has.
LEMMA PointsType ==
  ASSUME NEW rows \in Seq(Row)
  PROVE  Points(rows) \in Int
<1> DEFINE paid == {k \in DOMAIN rows : rows[k].pts /= 0}
<1>1. CASE paid = {}
  BY <1>1, PointAssumption DEF Points
<1>2. CASE paid /= {}
  <2>1. Len(rows) \in Nat /\ DOMAIN rows = 1..Len(rows)
    OBVIOUS
  <2>2. paid \in SUBSET (1..Len(rows))
    BY <2>1
  <2>3. PICK m \in paid : \A k \in paid : k <= m
    BY <2>1, <2>2, <1>2, Greatest
  <2>4. \A k \in paid : m >= k
    BY <2>1, <2>2, <2>3
  <2>5. Max(paid) \in paid
    BY <2>3, <2>4, Zenon DEF Max
  <2>6. rows[Max(paid)] \in Row
    BY <2>5
  <2>7. rows[Max(paid)].pts \in Int
    BY <2>6, PointAssumption DEF Row
  <2> QED
    BY <2>7, <1>2 DEF Points
<1> QED
  BY <1>1, <1>2

LEMMA StoredType ==
  ASSUME NEW p \in Int
  PROVE  Stored(p) \in 0..(Width - 1)
BY PointAssumption DEF Stored

---------------------------------------------------------------------------
\* Rows whose levels and points are among the facts.
Backed(rows, facts) ==
  \A k \in DOMAIN rows : <<"lvl", rows[k].lvl>> \in facts /\ <<"pts", rows[k].pts>> \in facts

\* The queries guard may have outstanding when the database has accepted e: the
\* type of a query, with what it has read and what it has written accepted.
Good(e) ==
  {q \in Query : /\ q.val \in ValuesOf(q.op)
                 /\ \A u \in User : Backed(q.rows[u], e[u])
                 /\ q.stage = "done" => Values(q) \subseteq e[q.user]}

Tables ==
  /\ table \in [User -> Seq(Row)] /\ \A u \in User : Backed(table[u], ever[u])
  /\ cache \in [User -> Seq(Row)] /\ \A u \in User : Backed(cache[u], ever[u])
  /\ ever \in [User -> SUBSET Fact] /\ commands \in Nat

Flags == failed \in BOOLEAN /\ overlap \in BOOLEAN

LEMMA AcceptedBacked == \A rows, u : Accepted(rows, u) <=> Backed(rows, ever[u])
BY DEF Accepted, Backed

\* IInv is about the tables, the members of queries and the flags, apart.
LEMMA IInvParts == IInv <=> Tables /\ queries \in Seq(Good(ever)) /\ Flags
<1>1. ASSUME IInv PROVE Tables /\ Flags /\ queries \in Seq(Good(ever))
  <2>1. Tables /\ Flags
    BY <1>1, AcceptedBacked DEF IInv, TypeOK, CacheAccepted, Sources, Tables, Flags
  <2>2. queries \in Seq(Query)
    BY <1>1 DEF IInv, TypeOK
  <2>3. ASSUME NEW i \in DOMAIN queries PROVE queries[i] \in Good(ever)
    <3>1. queries[i] \in Query
      BY <2>2
    <3> QED
      BY <3>1, <1>1, AcceptedBacked, Zenon DEF IInv, TypeOK, Sources, Good
  <2>4. queries \in Seq(Good(ever))
    BY <2>2, <2>3
  <2> QED
    BY <2>1, <2>4
<1>2. ASSUME Tables, Flags, queries \in Seq(Good(ever)) PROVE IInv
  <2>1. \A i \in DOMAIN queries : queries[i] \in Good(ever)
    BY <1>2
  <2>2. Good(ever) \subseteq Query
    BY DEF Good
  <2>3. queries \in Seq(Query)
    BY <1>2, <2>2
  <2>4. /\ \A i \in DOMAIN queries : queries[i].val \in ValuesOf(queries[i].op)
        /\ Sources
    BY <2>1, <1>2, AcceptedBacked, Zenon DEF Good, Sources, Tables
  <2> QED
    BY <2>3, <2>4, <1>2, AcceptedBacked DEF IInv, TypeOK, CacheAccepted, Tables, Flags
<1> QED
  BY <1>1, <1>2

\* What the database has accepted stays accepted.
LEMMA GoodGrows ==
  ASSUME NEW e, NEW f, \A u \in User : e[u] \subseteq f[u]
  PROVE  Good(e) \subseteq Good(f)
BY DEF Good, Backed, Query

\* A query just issued has read and written nothing.
LEMMA AskGood ==
  ASSUME NEW e, NEW op \in {"add", "lvl", "win", "lose", "del", "list"}, NEW u \in User,
         NEW val \in ValuesOf(op)
  PROVE  Ask(op, u, val) \in Good(e)
<1>1. val \in Nat
  BY PointAssumption DEF ValuesOf
<1>2. NoRows \in [User -> Seq(Row)] /\ \A v \in User : NoRows[v] = <<>>
  BY DEF NoRows
<1>3. \A v \in User : Backed(NoRows[v], e[v])
  BY <1>2 DEF Backed
<1>4. Ask(op, u, val) \in Query
  BY <1>1, <1>2 DEF Ask, Query
<1> QED
  BY <1>3, <1>4 DEF Good, Ask

LEMMA RemoveType ==
  ASSUME NEW S, NEW s \in Seq(S), NEW i \in DOMAIN s
  PROVE  RemoveAt(s, i) \in Seq(S)
<1>1. Len(s) \in Nat /\ i \in 1..Len(s)
  OBVIOUS
<1>2. SubSeq(s, 1, i - 1) \in Seq(S) /\ SubSeq(s, i + 1, Len(s)) \in Seq(S)
  BY <1>1
<1> QED
  BY <1>2 DEF RemoveAt

\* What a query writes to rows stays backed if it is a fact.
LEMMA AppendBacked ==
  ASSUME NEW F, NEW rows \in Seq(Row), Backed(rows, F), NEW l \in 0..7,
         <<"lvl", l>> \in F, <<"pts", 0>> \in F
  PROVE  Append(rows, NewRow(l)) \in Seq(Row) /\ Backed(Append(rows, NewRow(l)), F)
<1>1. NewRow(l) \in Row
  BY PointAssumption DEF NewRow, Row
<1>2. Append(rows, NewRow(l)) \in Seq(Row)
  BY <1>1
<1>3. ASSUME NEW k \in DOMAIN Append(rows, NewRow(l))
      PROVE  \/ k \in DOMAIN rows /\ Append(rows, NewRow(l))[k] = rows[k]
             \/ Append(rows, NewRow(l))[k] = NewRow(l)
  OBVIOUS
<1>4. NewRow(l).lvl = l /\ NewRow(l).pts = 0
  BY DEF NewRow
<1> QED
  BY <1>2, <1>3, <1>4 DEF Backed

LEMMA SetAllBacked ==
  ASSUME NEW F, NEW rows \in Seq(Row), Backed(rows, F), NEW v
  PROVE  /\ v \in 0..7 /\ <<"lvl", v>> \in F =>
              SetAll(rows, "lvl", v) \in Seq(Row) /\ Backed(SetAll(rows, "lvl", v), F)
         /\ v \in 0..(Width - 1) /\ <<"pts", v>> \in F =>
              SetAll(rows, "pts", v) \in Seq(Row) /\ Backed(SetAll(rows, "pts", v), F)
<1>1. DOMAIN rows = 1..Len(rows) /\ Len(rows) \in Nat /\ \A k \in DOMAIN rows : rows[k] \in Row
  OBVIOUS
<1>2. ASSUME v \in 0..7, <<"lvl", v>> \in F
      PROVE  SetAll(rows, "lvl", v) \in Seq(Row) /\ Backed(SetAll(rows, "lvl", v), F)
  <2>1. \A k \in DOMAIN rows : [rows[k] EXCEPT !["lvl"] = v] = [lvl |-> v, pts |-> rows[k].pts]
    BY <1>1 DEF Row
  <2>2. SetAll(rows, "lvl", v) = [k \in 1..Len(rows) |-> [lvl |-> v, pts |-> rows[k].pts]]
    BY <1>1, <2>1 DEF SetAll
  <2>3. \A k \in 1..Len(rows) : [lvl |-> v, pts |-> rows[k].pts] \in Row
    BY <1>1, <1>2 DEF Row
  <2>4. [k \in 1..Len(rows) |-> [lvl |-> v, pts |-> rows[k].pts]] \in Seq(Row)
    BY <1>1, <2>3
  <2>5. \A k \in 1..Len(rows) : <<"lvl", rows[k].lvl>> \in F /\ <<"pts", rows[k].pts>> \in F
    BY <1>1 DEF Backed
  <2>6. Backed([k \in 1..Len(rows) |-> [lvl |-> v, pts |-> rows[k].pts]], F)
    BY <1>1, <1>2, <2>5 DEF Backed
  <2> QED
    BY <2>2, <2>4, <2>6
<1>3. ASSUME v \in 0..(Width - 1), <<"pts", v>> \in F
      PROVE  SetAll(rows, "pts", v) \in Seq(Row) /\ Backed(SetAll(rows, "pts", v), F)
  <2>1. \A k \in DOMAIN rows : [rows[k] EXCEPT !["pts"] = v] = [lvl |-> rows[k].lvl, pts |-> v]
    BY <1>1 DEF Row
  <2>2. SetAll(rows, "pts", v) = [k \in 1..Len(rows) |-> [lvl |-> rows[k].lvl, pts |-> v]]
    BY <1>1, <2>1 DEF SetAll
  <2>3. \A k \in 1..Len(rows) : [lvl |-> rows[k].lvl, pts |-> v] \in Row
    BY <1>1, <1>3 DEF Row
  <2>4. [k \in 1..Len(rows) |-> [lvl |-> rows[k].lvl, pts |-> v]] \in Seq(Row)
    BY <1>1, <2>3
  <2>5. \A k \in 1..Len(rows) : <<"lvl", rows[k].lvl>> \in F /\ <<"pts", rows[k].pts>> \in F
    BY <1>1 DEF Backed
  <2>6. Backed([k \in 1..Len(rows) |-> [lvl |-> rows[k].lvl, pts |-> v]], F)
    BY <1>1, <1>3, <2>5 DEF Backed
  <2> QED
    BY <2>2, <2>4, <2>6
<1> QED
  BY <1>2, <1>3

LEMMA SetFirstBacked ==
  ASSUME NEW F, NEW rows \in Seq(Row), Backed(rows, F), NEW v
  PROVE  /\ v \in 0..7 /\ <<"lvl", v>> \in F =>
              SetFirst(rows, "lvl", v) \in Seq(Row) /\ Backed(SetFirst(rows, "lvl", v), F)
         /\ v \in 0..(Width - 1) /\ <<"pts", v>> \in F =>
              SetFirst(rows, "pts", v) \in Seq(Row) /\ Backed(SetFirst(rows, "pts", v), F)
<1>1. CASE rows = <<>>
  BY <1>1 DEF SetFirst, Backed
<1>2. CASE rows /= <<>>
  <2>1. 1 \in DOMAIN rows /\ Head(rows) = rows[1] /\ rows[1] \in Row
    BY <1>2
  <2>2. ASSUME v \in 0..7, <<"lvl", v>> \in F
        PROVE  SetFirst(rows, "lvl", v) \in Seq(Row) /\ Backed(SetFirst(rows, "lvl", v), F)
    <3>1. SetFirst(rows, "lvl", v) = <<[lvl |-> v, pts |-> rows[1].pts]>>
      BY <2>1, <1>2 DEF SetFirst, Row
    <3>2. [lvl |-> v, pts |-> rows[1].pts] \in Row
      BY <2>1, <2>2 DEF Row
    <3>3. <<[lvl |-> v, pts |-> rows[1].pts]>> \in Seq(Row)
      BY <3>2
    <3>4. <<"lvl", rows[1].lvl>> \in F /\ <<"pts", rows[1].pts>> \in F
      BY <2>1 DEF Backed
    <3>5. Backed(<<[lvl |-> v, pts |-> rows[1].pts]>>, F)
      BY <2>2, <3>4 DEF Backed
    <3> QED
      BY <3>1, <3>3, <3>5
  <2>3. ASSUME v \in 0..(Width - 1), <<"pts", v>> \in F
        PROVE  SetFirst(rows, "pts", v) \in Seq(Row) /\ Backed(SetFirst(rows, "pts", v), F)
    <3>1. SetFirst(rows, "pts", v) = <<[lvl |-> rows[1].lvl, pts |-> v]>>
      BY <2>1, <1>2 DEF SetFirst, Row
    <3>2. [lvl |-> rows[1].lvl, pts |-> v] \in Row
      BY <2>1, <2>3 DEF Row
    <3>3. <<[lvl |-> rows[1].lvl, pts |-> v]>> \in Seq(Row)
      BY <3>2
    <3>4. <<"lvl", rows[1].lvl>> \in F /\ <<"pts", rows[1].pts>> \in F
      BY <2>1 DEF Backed
    <3>5. Backed(<<[lvl |-> rows[1].lvl, pts |-> v]>>, F)
      <4>1. \A k \in DOMAIN <<[lvl |-> rows[1].lvl, pts |-> v]>> :
              <<[lvl |-> rows[1].lvl, pts |-> v]>>[k] = [lvl |-> rows[1].lvl, pts |-> v]
        OBVIOUS
      <4>2. [lvl |-> rows[1].lvl, pts |-> v].lvl = rows[1].lvl /\ [lvl |-> rows[1].lvl, pts |-> v].pts = v
        OBVIOUS
      <4> QED
        BY <4>1, <4>2, <2>3, <3>4, Zenon DEF Backed
    <3> QED
      BY <3>1, <3>3, <3>5
  <2> QED
    BY <2>2, <2>3
<1> QED
  BY <1>1, <1>2

---------------------------------------------------------------------------
State == Tables /\ queries \in Seq(Good(ever)) /\ Flags

\* Whatever is issued joins the queries; an outstanding list may leave them.
LEMMA IssueState ==
  ASSUME State, NEW qs \in Seq(Good(ever)), Issue(qs), commands' \in Nat
  PROVE  State'
<1>1. /\ queries' = (IF Last(qs).op = "list" THEN Others ELSE queries) \o qs
      /\ overlap' = (overlap \/ queries /= <<>> \/ Len(qs) > 1)
      /\ table' = table /\ cache' = cache /\ ever' = ever /\ failed' = failed
  BY Zenon DEF Issue
<1>2. queries \in Seq(Good(ever))
  BY DEF State
<1>3. Others \in Seq(Good(ever))
  <2>1. CASE Lists = {}
    BY <2>1, <1>2 DEF Others
  <2>2. CASE Lists /= {}
    <3>1. (CHOOSE i \in Lists : TRUE) \in DOMAIN queries
      BY <2>2 DEF Lists
    <3> QED
      BY <3>1, <2>2, <1>2, RemoveType DEF Others
  <2> QED
    BY <2>1, <2>2
<1>4. queries' \in Seq(Good(ever'))
  <2>1. CASE Last(qs).op = "list"
    BY <2>1, <1>1, <1>3
  <2>2. CASE Last(qs).op /= "list"
    BY <2>2, <1>1, <1>2
  <2> QED
    BY <2>1, <2>2
<1>5. Tables'
  BY <1>1 DEF State, Tables
<1>6. Flags'
  BY <1>1, Zenon DEF State, Flags
<1> QED
  BY <1>4, <1>5, <1>6, Zenon DEF State

\* Commands ask for what the types of the callables can hold.
LEMMA CommandState ==
  ASSUME State,
         \/ \E u \in User : Join(u) \/ DelInfo(u) \/ \E l \in Level : ChangeLvl(u, l)
         \/ \E old, new \in User : AccountChange(old, new)
         \/ \E w, l \in User, d \in Delta : Game(w, l, d)
         \/ Refresh \/ DailyRefresh
  PROVE  State'
<1>1. \A op \in {"add", "lvl", "win", "lose", "del", "list"}, u \in User :
        \A val \in ValuesOf(op) : Ask(op, u, val) \in Good(ever)
  BY AskGood
<1>2. /\ ValuesOf("add") = 0..7 /\ ValuesOf("lvl") = 0..7
      /\ ValuesOf("win") = 0..(Width - 1) /\ ValuesOf("lose") = 0..(Width - 1)
      /\ 0 \in ValuesOf("del") /\ 0 \in ValuesOf("list")
  BY PointAssumption DEF ValuesOf
<1>3. commands \in Nat
  BY DEF State, Tables
<1>4. Command => commands' \in Nat
  BY <1>3 DEF Command
<1>5. \A u \in User : cache[u] \in Seq(Row)
  BY DEF State, Tables
<1>6. ASSUME NEW u \in User, Join(u)
      PROVE  State'
  <2>1. Ask("add", u, AutoLvl) \in Good(ever)
    BY <1>1, <1>2, LevelAssumption
  <2>2. <<Ask("add", u, AutoLvl)>> \in Seq(Good(ever))
    BY <2>1
  <2> QED
    BY <2>2, <1>4, <1>6, IssueState DEF Join
<1>7. ASSUME NEW u \in User, DelInfo(u)
      PROVE  State'
  <2>1. Ask("del", u, 0) \in Good(ever)
    BY <1>1, <1>2
  <2>2. <<Ask("del", u, 0)>> \in Seq(Good(ever))
    BY <2>1
  <2> QED
    BY <2>2, <1>4, <1>7, IssueState DEF DelInfo
<1>8. ASSUME NEW u \in User, NEW l \in Level, ChangeLvl(u, l)
      PROVE  State'
  <2>1. Ask(IF IsInfo(u) THEN "lvl" ELSE "add", u, l) \in Good(ever)
    BY <1>1, <1>2, LevelAssumption
  <2>2. <<Ask(IF IsInfo(u) THEN "lvl" ELSE "add", u, l)>> \in Seq(Good(ever))
    BY <2>1
  <2> QED
    BY <2>2, <1>4, <1>8, IssueState DEF ChangeLvl
<1>9. ASSUME NEW old \in User, NEW new \in User, AccountChange(old, new)
      PROVE  State'
  <2> DEFINE l == IF IsInfo(old) THEN Head(cache[old]).lvl ELSE 1
  <2>1. l \in 0..7
    <3>1. CASE IsInfo(old)
      <4>1. Head(cache[old]) \in Row
        BY <3>1, <1>5 DEF IsInfo
      <4> QED
        BY <4>1, <3>1 DEF Row
    <3>2. CASE ~IsInfo(old)
      BY <3>2
    <3> QED
      BY <3>1, <3>2
  <2>2. Issue(<<Ask("lvl", old, 0), Ask("lvl", new, l)>>) /\ Command
    BY <1>9, Zenon DEF AccountChange
  <2> HIDE DEF l
  <2>3. Ask("lvl", old, 0) \in Good(ever) /\ Ask("lvl", new, l) \in Good(ever)
    BY <2>1, <1>1, <1>2
  <2>4. <<Ask("lvl", old, 0), Ask("lvl", new, l)>> \in Seq(Good(ever))
    BY <2>3
  <2> QED
    BY <2>2, <2>4, <1>4, IssueState
<1>10. ASSUME NEW w \in User, NEW l \in User, NEW d \in Delta, Game(w, l, d)
       PROVE  State'
  <2> DEFINE p == Stored(Points(cache[w]) + d)
             q == Stored(Points(cache[l]) - d)
  <2>1. p \in 0..(Width - 1) /\ q \in 0..(Width - 1)
    <3>1. Points(cache[w]) \in Int /\ Points(cache[l]) \in Int /\ d \in Int
      BY <1>5, PointsType, PointAssumption
    <3>2. Points(cache[w]) + d \in Int /\ Points(cache[l]) - d \in Int
      BY <3>1
    <3> QED
      BY <3>2, StoredType
  <2>2. Issue(<<Ask("win", w, p), Ask("lose", l, q), Ask("list", l, 0)>>) /\ Command
    BY <1>10, Zenon DEF Game
  <2> HIDE DEF p, q
  <2>3. Ask("win", w, p) \in Good(ever) /\ Ask("lose", l, q) \in Good(ever) /\ Ask("list", l, 0) \in Good(ever)
    BY <2>1, <1>1, <1>2
  <2>4. <<Ask("win", w, p), Ask("lose", l, q), Ask("list", l, 0)>> \in Seq(Good(ever))
    BY <2>3
  <2> QED
    BY <2>2, <2>4, <1>4, IssueState
<1>11. CASE Refresh \/ DailyRefresh
  <2> DEFINE u == CHOOSE u \in User : TRUE
  <2>1. u \in User
    BY KnownAssumption, Zenon
  <2>2. Issue(<<Ask("list", u, 0)>>) /\ commands' \in Nat
    BY <1>3, <1>4, <1>11 DEF Refresh, DailyRefresh
  <2> HIDE DEF u
  <2>3. Ask("list", u, 0) \in Good(ever)
    BY <2>1, <1>1, <1>2
  <2>4. <<Ask("list", u, 0)>> \in Seq(Good(ever))
    BY <2>3
  <2> QED
    BY <2>2, <2>4, IssueState
<1> QED
  BY <1>6, <1>7, <1>8, <1>9, <1>10, <1>11

\* What the main loop and the threads may assume of a query.
LEMMA QueryType ==
  ASSUME State, NEW i \in DOMAIN queries
  PROVE  /\ queries[i] \in Good(ever) /\ queries[i] \in Query
         /\ queries[i].user \in User
         /\ queries[i].op \in {"add", "lvl", "win", "lose", "del", "list"}
         /\ queries[i].val \in ValuesOf(queries[i].op)
<1>1. queries[i] \in Good(ever)
  BY DEF State
<1> QED
  BY <1>1 DEF Good, Query

LEMMA ValuesFacts ==
  ASSUME NEW q \in Query, q.val \in ValuesOf(q.op)
  PROVE  /\ Values(q) \subseteq Fact
         /\ q.op = "add" => Values(q) = {<<"lvl", q.val>>, <<"pts", 0>>} /\ q.val \in 0..7
         /\ q.op = "lvl" => Values(q) = {<<"lvl", q.val>>} /\ q.val \in 0..7
         /\ q.op \in {"win", "lose"} => Values(q) = {<<"pts", q.val>>} /\ q.val \in 0..(Width - 1)
<1>1. q.op \in {"add", "lvl", "win", "lose", "del", "list"}
  BY DEF Query
<1>2. CASE q.op = "add"
  BY <1>2, PointAssumption DEF Values, ValuesOf, Fact
<1>3. CASE q.op = "lvl"
  BY <1>3 DEF Values, ValuesOf, Fact
<1>4. CASE q.op \in {"win", "lose"}
  <2>1. q.val \in 0..(Width - 1)
    BY <1>4 DEF ValuesOf
  <2>2. Values(q) = {<<"pts", q.val>>}
    BY <1>4 DEF Values
  <2> QED
    BY <1>4, <2>1, <2>2 DEF Fact
<1>5. CASE q.op \in {"del", "list"}
  BY <1>5 DEF Values
<1> QED
  BY <1>1, <1>2, <1>3, <1>4, <1>5

LEMMA BackedGrows ==
  ASSUME NEW rows, NEW F, NEW G, F \subseteq G, Backed(rows, F)
  PROVE  Backed(rows, G)
BY DEF Backed

\* A query that is executed writes to the table what it makes a fact.
LEMMA ExecuteState ==
  ASSUME State, NEW i \in DOMAIN queries, Execute(i)
  PROVE  State'
<1> DEFINE q == queries[i]
           u == q.user
           read == IF q.op = "list" THEN table ELSE NoRows
<1>1. /\ q \in Query /\ q \in Good(ever) /\ u \in User
      /\ q.op \in {"add", "lvl", "win", "lose", "del", "list"} /\ q.val \in ValuesOf(q.op)
  BY QueryType
<1>2. /\ table' = Written(q)
      /\ ever' = [ever EXCEPT ![u] = @ \cup Values(q)]
      /\ queries' = [queries EXCEPT ![i].stage = "done", ![i].rows = read]
      /\ cache' = cache /\ commands' = commands /\ failed' = failed /\ overlap' = overlap
  BY Zenon DEF Execute
<1>3. /\ table \in [User -> Seq(Row)] /\ \A v \in User : Backed(table[v], ever[v])
      /\ cache \in [User -> Seq(Row)] /\ \A v \in User : Backed(cache[v], ever[v])
      /\ ever \in [User -> SUBSET Fact] /\ commands \in Nat
  BY DEF State, Tables
<1> HIDE DEF q, u, read
<1>4. Values(q) \subseteq Fact
  BY <1>1, ValuesFacts
<1>5. /\ ever' \in [User -> SUBSET Fact]
      /\ \A v \in User : ever[v] \subseteq ever'[v]
      /\ Values(q) \subseteq ever'[u]
  BY <1>1, <1>2, <1>3, <1>4
<1>6. \A v \in User : Backed(table[v], ever'[v]) /\ Backed(cache[v], ever'[v])
  BY <1>3, <1>5, BackedGrows
<1>7. table' \in [User -> Seq(Row)] /\ \A v \in User : Backed(table'[v], ever'[v])
  <2>1. CASE q.op = "add"
    <3>1. table' = [table EXCEPT ![u] = Append(@, NewRow(q.val))]
      BY <2>1, <1>2 DEF Written, u
    <3>2. /\ Append(table[u], NewRow(q.val)) \in Seq(Row)
          /\ Backed(Append(table[u], NewRow(q.val)), ever'[u])
      BY <2>1, <1>1, <1>3, <1>5, <1>6, ValuesFacts, AppendBacked
    <3> QED
      BY <3>1, <3>2, <1>1, <1>3, <1>6
  <2>2. CASE q.op = "lvl"
    <3>1. table' = [table EXCEPT ![u] = SetAll(@, "lvl", q.val)]
      BY <2>2, <1>2 DEF Written, u
    <3>2. SetAll(table[u], "lvl", q.val) \in Seq(Row) /\ Backed(SetAll(table[u], "lvl", q.val), ever'[u])
      BY <2>2, <1>1, <1>3, <1>5, <1>6, ValuesFacts, SetAllBacked
    <3> QED
      BY <3>1, <3>2, <1>1, <1>3, <1>6
  <2>3. CASE q.op \in {"win", "lose"}
    <3>1. table' = [table EXCEPT ![u] = SetAll(@, "pts", q.val)]
      BY <2>3, <1>2 DEF Written, u
    <3>2. SetAll(table[u], "pts", q.val) \in Seq(Row) /\ Backed(SetAll(table[u], "pts", q.val), ever'[u])
      BY <2>3, <1>1, <1>3, <1>5, <1>6, ValuesFacts, SetAllBacked
    <3> QED
      BY <3>1, <3>2, <1>1, <1>3, <1>6
  <2>4. CASE q.op = "del"
    <3>1. table' = [table EXCEPT ![u] = <<>>]
      BY <2>4, <1>2 DEF Written, u
    <3>2. <<>> \in Seq(Row) /\ Backed(<<>>, ever'[u])
      BY DEF Backed
    <3> QED
      BY <3>1, <3>2, <1>1, <1>3, <1>6
  <2>5. CASE q.op = "list"
    <3>1. table' = table
      BY <2>5, <1>2 DEF Written
    <3> QED
      BY <3>1, <1>3, <1>6
  <2> QED
    BY <2>1, <2>2, <2>3, <2>4, <2>5, <1>1
<1>8. queries' \in Seq(Good(ever'))
  <2> DEFINE done == [op |-> q.op, user |-> u, val |-> q.val, stage |-> "done", rows |-> read]
  <2>1. read \in [User -> Seq(Row)] /\ \A v \in User : Backed(read[v], ever'[v])
    <3>1. CASE q.op = "list"
      BY <3>1, <1>3, <1>6 DEF read
    <3>2. CASE q.op /= "list"
      BY <3>2 DEF read, NoRows, Backed
    <3> QED
      BY <3>1, <3>2
  <2>2. done \in Query
    BY <2>1, <1>1 DEF Query, u
  <2>3. Values(done) = Values(q)
    BY DEF Values
  <2>4. done \in Good(ever')
    <3>1. done.op = q.op /\ done.val = q.val /\ done.user = u /\ done.rows = read
      OBVIOUS
    <3> QED
      BY <2>1, <2>2, <2>3, <3>1, <1>1, <1>5, Zenon DEF Good
  <2>5. [[q EXCEPT !.stage = "done"] EXCEPT !.rows = read] = done
    <3> DEFINE half == [op |-> q.op, user |-> q.user, val |-> q.val, stage |-> "done", rows |-> q.rows]
    <3>1. [q EXCEPT !.stage = "done"] = half
      BY <1>1 DEF Query
    <3>2. [half EXCEPT !.rows = read] = [op |-> q.op, user |-> q.user, val |-> q.val, stage |-> "done", rows |-> read]
      OBVIOUS
    <3> QED
      BY <3>1, <3>2, Zenon DEF u
  <2>6. queries' = [queries EXCEPT ![i] = done]
    <3>1. queries' = [queries EXCEPT ![i] = [[q EXCEPT !.stage = "done"] EXCEPT !.rows = read]]
      BY <1>2 DEF q
    <3> QED
      BY <3>1, <2>5
  <2>7. queries \in Seq(Good(ever'))
    <3>1. Good(ever) \subseteq Good(ever')
      BY <1>5, GoodGrows
    <3> QED
      BY <3>1 DEF State
  <2> HIDE DEF done
  <2> QED
    BY <2>4, <2>6, <2>7
<1>9. Tables'
  BY <1>2, <1>3, <1>5, <1>6, <1>7 DEF Tables
<1>10. Flags'
  BY <1>2, Zenon DEF State, Flags
<1> QED
  BY <1>8, <1>9, <1>10, Zenon DEF State

\* A query that fails has nothing to show.
LEMMA FailState ==
  ASSUME State, NEW i \in DOMAIN queries, Fail(i)
  PROVE  State'
<1> DEFINE q == queries[i]
           lost == [op |-> q.op, user |-> q.user, val |-> q.val, stage |-> "failed", rows |-> q.rows]
<1>1. q \in Good(ever) /\ q \in Query
  BY QueryType
<1>2. /\ queries' = [queries EXCEPT ![i].stage = "failed"]
      /\ table' = table /\ cache' = cache /\ commands' = commands /\ ever' = ever
      /\ failed' = TRUE /\ overlap' = overlap
  BY Zenon DEF Fail
<1>3. lost \in Good(ever)
  BY <1>1 DEF Good, Query
<1>4. [q EXCEPT !.stage = "failed"] = lost
  BY <1>1 DEF Query
<1>5. queries' = [queries EXCEPT ![i] = lost]
  BY <1>2, <1>4
<1> HIDE DEF lost
<1>6. queries' \in Seq(Good(ever'))
  BY <1>2, <1>3, <1>5 DEF State
<1>7. Tables'
  BY <1>2 DEF State, Tables
<1>8. Flags'
  BY <1>2, Zenon DEF State, Flags
<1> QED
  BY <1>6, <1>7, <1>8, Zenon DEF State

\* What is applied to m_Infos was accepted when the query succeeded, and a list
\* that failed has no rows.
LEMMA ConsumeState ==
  ASSUME State, NEW i \in DOMAIN queries, Consume(i)
  PROVE  State'
<1> DEFINE q == queries[i]
           u == q.user
<1>1. /\ q \in Query /\ q \in Good(ever) /\ u \in User
      /\ q.op \in {"add", "lvl", "win", "lose", "del", "list"} /\ q.val \in ValuesOf(q.op)
  BY QueryType
<1>2. /\ cache' = Copied(q) /\ queries' = RemoveAt(queries, i)
      /\ table' = table /\ commands' = commands /\ ever' = ever
      /\ failed' = failed /\ overlap' = overlap
  BY Zenon DEF Consume, history
<1>3. /\ cache \in [User -> Seq(Row)] /\ \A v \in User : Backed(cache[v], ever[v])
      /\ ever \in [User -> SUBSET Fact]
  BY DEF State, Tables
<1> HIDE DEF q, u
<1>4. q.rows \in [User -> Seq(Row)] /\ \A v \in User : Backed(q.rows[v], ever[v])
  BY <1>1 DEF Good, Query
<1>5. Applied(q) => Values(q) \subseteq ever[u]
  BY <1>1 DEF Good, Applied, u
<1>6. cache' \in [User -> Seq(Row)] /\ \A v \in User : Backed(cache'[v], ever[v])
  <2>1. CASE q.op = "list"
    <3>1. cache' = q.rows
      BY <2>1, <1>2 DEF Copied, Loaded
    <3> QED
      BY <3>1, <1>4
  <2>2. CASE q.op /= "list" /\ ~Applied(q)
    <3>1. cache' = cache
      BY <2>2, <1>2 DEF Copied
    <3> QED
      BY <3>1, <1>3
  <2>3. CASE q.op = "add" /\ Applied(q)
    <3>1. cache' = [cache EXCEPT ![u] = Append(@, NewRow(q.val))]
      BY <2>3, <1>2 DEF Copied, u
    <3>2. /\ Append(cache[u], NewRow(q.val)) \in Seq(Row)
          /\ Backed(Append(cache[u], NewRow(q.val)), ever[u])
      BY <2>3, <1>1, <1>3, <1>5, ValuesFacts, AppendBacked
    <3> QED
      BY <3>1, <3>2, <1>1, <1>3
  <2>4. CASE q.op = "lvl" /\ Applied(q)
    <3>1. cache' = [cache EXCEPT ![u] = SetFirst(@, "lvl", q.val)]
      BY <2>4, <1>2 DEF Copied, u
    <3>2. SetFirst(cache[u], "lvl", q.val) \in Seq(Row) /\ Backed(SetFirst(cache[u], "lvl", q.val), ever[u])
      BY <2>4, <1>1, <1>3, <1>5, ValuesFacts, SetFirstBacked
    <3> QED
      BY <3>1, <3>2, <1>1, <1>3
  <2>5. CASE q.op \in {"win", "lose"} /\ Applied(q)
    <3>1. cache' = [cache EXCEPT ![u] = SetFirst(@, "pts", q.val)]
      BY <2>5, <1>2 DEF Copied, u
    <3>2. SetFirst(cache[u], "pts", q.val) \in Seq(Row) /\ Backed(SetFirst(cache[u], "pts", q.val), ever[u])
      BY <2>5, <1>1, <1>3, <1>5, ValuesFacts, SetFirstBacked
    <3> QED
      BY <3>1, <3>2, <1>1, <1>3
  <2>6. CASE q.op = "del" /\ Applied(q)
    <3>1. cache' = [cache EXCEPT ![u] = <<>>]
      BY <2>6, <1>2 DEF Copied, u
    <3>2. <<>> \in Seq(Row) /\ Backed(<<>>, ever[u])
      BY DEF Backed
    <3> QED
      BY <3>1, <3>2, <1>1, <1>3
  <2> QED
    BY <2>1, <2>2, <2>3, <2>4, <2>5, <2>6, <1>1
<1>7. Tables'
  BY <1>2, <1>6 DEF State, Tables
<1>8. queries' \in Seq(Good(ever'))
  BY <1>2, RemoveType DEF State
<1>9. Flags'
  BY <1>2, Zenon DEF State, Flags
<1> QED
  BY <1>7, <1>8, <1>9, Zenon DEF State

---------------------------------------------------------------------------
LEMMA InitState == Init => State
<1> SUFFICES ASSUME Init PROVE State
  OBVIOUS
<1> DEFINE first == CHOOSE u \in User : TRUE
<1>1. first \in User
  BY KnownAssumption, Zenon
<1>2. /\ table = [u \in User |-> IF u \in Known THEN <<NewRow(AutoLvl)>> ELSE <<>>]
      /\ cache = NoRows /\ queries = <<Ask("list", first, 0)>> /\ commands = 0
      /\ ever = [u \in User |-> IF u \in Known THEN {<<"lvl", AutoLvl>>, <<"pts", 0>>} ELSE {}]
      /\ failed = FALSE /\ overlap = FALSE
  BY Zenon DEF Init
<1> HIDE DEF first
<1>3. Ask("list", first, 0) \in Good(ever)
  BY <1>1, PointAssumption, AskGood DEF ValuesOf
<1>4. queries \in Seq(Good(ever))
  BY <1>2, <1>3
<1>5. NewRow(AutoLvl) \in Row /\ NewRow(AutoLvl).lvl = AutoLvl /\ NewRow(AutoLvl).pts = 0
  BY LevelAssumption, PointAssumption DEF NewRow, Row
<1>6. ASSUME NEW u \in User
      PROVE  /\ table[u] \in Seq(Row) /\ Backed(table[u], ever[u])
             /\ cache[u] \in Seq(Row) /\ Backed(cache[u], ever[u])
             /\ ever[u] \subseteq Fact
  <2>1. cache[u] = <<>> /\ <<>> \in Seq(Row) /\ Backed(<<>>, ever[u])
    BY <1>2 DEF NoRows, Backed
  <2>2. CASE u \in Known
    <3>1. table[u] = <<NewRow(AutoLvl)>> /\ ever[u] = {<<"lvl", AutoLvl>>, <<"pts", 0>>}
      BY <2>2, <1>2
    <3>2. <<NewRow(AutoLvl)>> \in Seq(Row) /\ Backed(<<NewRow(AutoLvl)>>, ever[u])
      BY <3>1, <1>5 DEF Backed
    <3>3. ever[u] \subseteq Fact
      BY <3>1, LevelAssumption, PointAssumption DEF Fact
    <3> QED
      BY <2>1, <3>1, <3>2, <3>3
  <2>3. CASE u \notin Known
    <3>1. table[u] = <<>> /\ ever[u] = {}
      BY <2>3, <1>2
    <3> QED
      BY <2>1, <3>1
  <2> QED
    BY <2>2, <2>3
<1>7. Tables
  <2>1. table = [u \in User |-> table[u]] /\ cache = [u \in User |-> cache[u]]
          /\ ever = [u \in User |-> ever[u]] /\ commands \in Nat
    BY <1>2 DEF NoRows
  <2> QED
    BY <2>1, <1>6 DEF Tables
<1>8. Flags
  BY <1>2 DEF Flags
<1> QED
  BY <1>4, <1>7, <1>8 DEF State

LEMMA StepState == State /\ [Next]_vars => State'
<1> SUFFICES ASSUME State, [Next]_vars PROVE State'
  OBVIOUS
<1>1. CASE UNCHANGED vars
  <2>1. /\ table' = table /\ cache' = cache /\ queries' = queries /\ commands' = commands
        /\ ever' = ever /\ failed' = failed /\ overlap' = overlap
    BY <1>1, Zenon DEF vars, history
  <2>2. Tables' /\ Flags' /\ queries' \in Seq(Good(ever'))
    BY <2>1 DEF State, Tables, Flags
  <2> QED
    BY <2>2 DEF State
<1>2. CASE \E i \in DOMAIN queries : Execute(i) \/ Fail(i) \/ Consume(i)
  BY <1>2, ExecuteState, FailState, ConsumeState, Zenon
<1> QED
  BY <1>1, <1>2, CommandState, Zenon DEF Next

THEOREM InfoCacheCorrect == Spec => []IInv
<1>1. State => IInv
  BY IInvParts, Zenon DEF State
<1> QED
  BY <1>1, InitState, StepState, PTL DEF Spec

\* m_Infos shows only levels and points the database has accepted.
THEOREM AcceptedCorrect == Spec => []CacheAccepted
<1>1. IInv => CacheAccepted
  BY DEF IInv
<1> QED
  BY <1>1, InfoCacheCorrect, PTL
---------------------------------------------------------------------------
(* While no query fails or meets another, at most one is outstanding.       *)

Alone == ~failed /\ ~overlap

\* What is known of the only outstanding query: a list that was read is the
\* table; another query finds m_Infos equal to the table and, when it has been
\* executed, makes it so again; an account is added that has no row.
Sole(q) ==
  \/ q.op = "list" /\ q.stage = "sent"
  \/ q.op = "list" /\ q.stage = "done" /\ q.rows = table
  \/ q.op /= "list" /\ q.stage = "sent" /\ cache = table /\ (q.op = "add" => table[q.user] = <<>>)
  \/ q.op /= "list" /\ q.stage = "done" /\ Copied(q) = table

Rest == \/ queries = <<>> /\ cache = table
        \/ \E q \in Good(ever) : queries = <<q>> /\ Sole(q)

AloneInv == Alone => Rest /\ \A u \in User : Len(table[u]) <= 1

\* On one row, changing every row and changing the first is the same.
LEMMA OneRowSet ==
  ASSUME NEW rows \in Seq(Row), Len(rows) <= 1, NEW field, NEW v
  PROVE  SetAll(rows, field, v) = SetFirst(rows, field, v) /\ Len(SetAll(rows, field, v)) <= 1
<1>1. CASE Len(rows) = 0
  <2>1. rows = <<>> /\ DOMAIN rows = {}
    BY <1>1
  <2>2. SetAll(rows, field, v) = <<>>
    BY <2>1 DEF SetAll
  <2> QED
    BY <2>1, <2>2 DEF SetFirst
<1>2. CASE Len(rows) = 1
  <2>1. DOMAIN rows = 1..1 /\ rows /= <<>> /\ Head(rows) = rows[1]
    BY <1>2
  <2>2. SetAll(rows, field, v) = [k \in 1..1 |-> [rows[k] EXCEPT ![field] = v]]
    BY <2>1, Zenon DEF SetAll
  <2>3. SetFirst(rows, field, v) = <<[rows[1] EXCEPT ![field] = v]>>
    BY <2>1, Zenon DEF SetFirst
  <2> DEFINE r == [rows[1] EXCEPT ![field] = v]
  <2>4. [k \in 1..1 |-> [rows[k] EXCEPT ![field] = v]] = [k \in 1..1 |-> r]
    OBVIOUS
  <2> HIDE DEF r
  <2>5. [k \in 1..1 |-> r] = <<r>> /\ Len(<<r>>) <= 1
    OBVIOUS
  <2>6. SetFirst(rows, field, v) = <<r>>
    BY <2>3, Zenon DEF r
  <2>7. SetAll(rows, field, v) = <<r>>
    BY <2>2, <2>4, <2>5, Zenon
  <2> QED
    BY <2>5, <2>6, <2>7, Zenon
<1>3. Len(rows) \in Nat
  BY LenProperties
<1>4. Len(rows) <= 1
  OBVIOUS
<1>5. Len(rows) = 0 \/ Len(rows) = 1
  BY <1>3, <1>4
<1> QED
  BY <1>1, <1>2, <1>5, Zenon

\* A command that is alone finds nothing outstanding, and asks for one thing.
LEMMA IssueAlone ==
  ASSUME State, AloneInv, NEW qs \in Seq(Good(ever)), Issue(qs), Alone', qs /= <<>>
  PROVE  /\ queries = <<>> /\ Len(qs) = 1 /\ queries' = qs /\ Alone
         /\ cache = table /\ \A u \in User : Len(table[u]) <= 1
<1>1. /\ queries' = (IF Last(qs).op = "list" THEN Others ELSE queries) \o qs
      /\ overlap' = (overlap \/ queries /= <<>> \/ Len(qs) > 1)
      /\ failed' = failed
  BY Zenon DEF Issue
<1>2. ~overlap /\ queries = <<>> /\ ~(Len(qs) > 1) /\ ~failed
  BY <1>1, Zenon DEF Alone
<1>3. Others = <<>>
  BY <1>2 DEF Others, Lists
<1>4. <<>> \o qs = qs /\ Len(qs) = 1
  BY <1>2
<1>5. queries' = qs
  <2>1. CASE Last(qs).op = "list"
    BY <2>1, <1>1, <1>3, <1>4
  <2>2. CASE Last(qs).op /= "list"
    BY <2>2, <1>1, <1>2, <1>4
  <2> QED
    BY <2>1, <2>2
<1>6. Rest /\ \A u \in User : Len(table[u]) <= 1
  BY <1>2 DEF AloneInv, Alone
<1>7. cache = table
  BY <1>2, <1>6 DEF Rest
<1> QED
  BY <1>2, <1>4, <1>5, <1>6, <1>7 DEF Alone

\* One query issued alone; only an account that m_Infos does not have is added.
LEMMA AskAlone ==
  ASSUME State, AloneInv, Alone', commands' \in Nat,
         NEW op \in {"add", "lvl", "win", "lose", "del", "list"}, NEW u \in User,
         NEW val \in ValuesOf(op), Issue(<<Ask(op, u, val)>>),
         op = "add" => ~IsInfo(u)
  PROVE  AloneInv'
<1> DEFINE q == Ask(op, u, val)
<1>1. q \in Good(ever)
  BY AskGood
<1>2. q.op = op /\ q.user = u /\ q.stage = "sent"
  BY DEF Ask
<1> HIDE DEF q
<1>3. <<q>> \in Seq(Good(ever)) /\ <<q>> /= <<>>
  BY <1>1
<1>4. /\ queries = <<>> /\ queries' = <<q>> /\ cache = table
      /\ \A v \in User : Len(table[v]) <= 1
  BY <1>3, IssueAlone DEF q
<1>5. table' = table /\ cache' = cache /\ ever' = ever
  BY Zenon DEF Issue
<1>6. Sole(q)'
  <2>1. CASE op = "list"
    BY <2>1, <1>2 DEF Sole
  <2>2. CASE op /= "list"
    <3>1. op = "add" => table'[u] = <<>>
      BY <1>4, <1>5 DEF IsInfo
    <3>2. q.op /= "list" /\ q.stage = "sent" /\ cache' = table' /\ (q.op = "add" => table'[q.user] = <<>>)
      BY <2>2, <3>1, <1>2, <1>4, <1>5
    <3> QED
      BY <3>2 DEF Sole
  <2> QED
    BY <2>1, <2>2
<1>7. Rest'
  BY <1>1, <1>4, <1>5, <1>6 DEF Rest
<1> QED
  BY <1>4, <1>5, <1>7 DEF AloneInv

\* Two or more queries at once are not alone.
LEMMA ManyNotAlone ==
  ASSUME NEW qs, Issue(qs), Len(qs) > 1
  PROVE  AloneInv'
<1>1. overlap' = (overlap \/ queries /= <<>> \/ Len(qs) > 1)
  BY Zenon DEF Issue
<1> QED
  BY <1>1, Zenon DEF AloneInv, Alone

LEMMA CommandAlone ==
  ASSUME State, AloneInv,
         \/ \E u \in User : Join(u) \/ DelInfo(u) \/ \E l \in Level : ChangeLvl(u, l)
         \/ \E old, new \in User : AccountChange(old, new)
         \/ \E w, l \in User, d \in Delta : Game(w, l, d)
         \/ Refresh \/ DailyRefresh
  PROVE  AloneInv'
<1> SUFFICES ASSUME Alone' PROVE AloneInv'
  BY Zenon DEF AloneInv
<1>1. /\ ValuesOf("add") = 0..7 /\ ValuesOf("lvl") = 0..7
      /\ 0 \in ValuesOf("del") /\ 0 \in ValuesOf("list")
  BY PointAssumption DEF ValuesOf
<1>2. commands \in Nat
  BY DEF State, Tables
<1>3. Command => commands' \in Nat
  BY <1>2 DEF Command
<1>4. ASSUME NEW u \in User, Join(u) PROVE AloneInv'
  <2>1. Issue(<<Ask("add", u, AutoLvl)>>) /\ ~IsInfo(u) /\ Command
    BY <1>4, Zenon DEF Join, JoinGuard
  <2> QED
    BY <2>1, <1>1, <1>3, LevelAssumption, AskAlone
<1>5. ASSUME NEW u \in User, DelInfo(u) PROVE AloneInv'
  <2>1. Issue(<<Ask("del", u, 0)>>) /\ Command
    BY <1>5, Zenon DEF DelInfo
  <2> QED
    BY <2>1, <1>1, <1>3, AskAlone
<1>6. ASSUME NEW u \in User, NEW l \in Level, ChangeLvl(u, l) PROVE AloneInv'
  <2>1. Issue(<<Ask(IF IsInfo(u) THEN "lvl" ELSE "add", u, l)>>) /\ Command
    BY <1>6, Zenon DEF ChangeLvl
  <2>2. CASE IsInfo(u)
    BY <2>1, <2>2, <1>1, <1>3, LevelAssumption, AskAlone
  <2>3. CASE ~IsInfo(u)
    BY <2>1, <2>3, <1>1, <1>3, LevelAssumption, AskAlone
  <2> QED
    BY <2>2, <2>3
<1>7. ASSUME NEW old \in User, NEW new \in User, AccountChange(old, new) PROVE AloneInv'
  <2> DEFINE l == IF IsInfo(old) THEN Head(cache[old]).lvl ELSE 1
             qs == <<Ask("lvl", old, 0), Ask("lvl", new, l)>>
  <2>1. Issue(qs)
    BY <1>7, Zenon DEF AccountChange
  <2> HIDE DEF l
  <2>2. Len(qs) > 1
    OBVIOUS
  <2> HIDE DEF qs
  <2> QED
    BY <2>1, <2>2, ManyNotAlone
<1>8. ASSUME NEW w \in User, NEW l \in User, NEW d \in Delta, Game(w, l, d) PROVE AloneInv'
  <2> DEFINE a == Ask("win", w, Stored(Points(cache[w]) + d))
             b == Ask("lose", l, Stored(Points(cache[l]) - d))
             c == Ask("list", l, 0)
             qs == <<a, b, c>>
  <2>1. Issue(qs)
    BY <1>8, Zenon DEF Game
  <2> HIDE DEF a, b, c
  <2>2. Len(qs) > 1
    OBVIOUS
  <2> HIDE DEF qs
  <2> QED
    BY <2>1, <2>2, ManyNotAlone
<1>9. CASE Refresh \/ DailyRefresh
  <2> DEFINE u == CHOOSE u \in User : TRUE
  <2>1. u \in User
    BY KnownAssumption, Zenon
  <2>2. Issue(<<Ask("list", u, 0)>>) /\ commands' \in Nat
    BY <1>2, <1>3, <1>9 DEF Refresh, DailyRefresh
  <2> HIDE DEF u
  <2> QED
    BY <2>1, <2>2, <1>1, AskAlone
<1> QED
  BY <1>4, <1>5, <1>6, <1>7, <1>8, <1>9
\* A thread runs the query that is alone: the table follows what m_Infos will be.
LEMMA ExecuteAlone ==
  ASSUME State, AloneInv, Alone, NEW i \in DOMAIN queries, Execute(i)
  PROVE  AloneInv'
<1>1. PICK q \in Good(ever) : queries = <<q>> /\ Sole(q)
  <2>1. Rest
    BY DEF AloneInv
  <2>2. queries /= <<>>
    OBVIOUS
  <2> QED
    BY <2>1, <2>2, Zenon DEF Rest
<1> DEFINE u == q.user
           read == IF q.op = "list" THEN table ELSE NoRows
<1>2. i = 1 /\ queries[i] = q
  BY <1>1
<1>3. /\ q.stage = "sent" /\ table' = Written(q)
      /\ queries' = [queries EXCEPT ![i].stage = "done", ![i].rows = read]
      /\ cache' = cache
  BY <1>2, Zenon DEF Execute
<1>4. q \in Query /\ u \in User /\ q.op \in {"add", "lvl", "win", "lose", "del", "list"}
  BY DEF Good, Query
<1>5. table \in [User -> Seq(Row)] /\ \A v \in User : Len(table[v]) <= 1
  BY DEF State, Tables, AloneInv
<1>6. PICK done : done = [op |-> q.op, user |-> u, val |-> q.val, stage |-> "done", rows |-> read]
  OBVIOUS
<1>7. queries' = <<done>>
  <2>1. queries' = [queries EXCEPT ![1] = [[q EXCEPT !.stage = "done"] EXCEPT !.rows = read]]
    BY <1>2, <1>3
  <2> DEFINE half == [op |-> q.op, user |-> q.user, val |-> q.val, stage |-> "done", rows |-> q.rows]
  <2>2. [q EXCEPT !.stage = "done"] = half
    BY <1>4 DEF Query
  <2>3. [half EXCEPT !.rows = read] = done
    BY <1>6
  <2>4. queries' = [queries EXCEPT ![1] = done]
    BY <2>1, <2>2, <2>3, Zenon
  <2> QED
    BY <2>4, <1>1
<1>8. done.op = q.op /\ done.user = u /\ done.val = q.val /\ done.stage = "done" /\ done.rows = read
  BY <1>6
<1>9. done \in Good(ever')
  <2>1. State'
    BY ExecuteState
  <2>2. 1 \in DOMAIN queries' /\ queries'[1] = done
    BY <1>7
  <2> QED
    BY <2>1, <2>2 DEF State
<1> HIDE DEF read, u
<1>10. CASE q.op = "list"
  <2>1. table' = table
    BY <1>3, <1>10 DEF Written
  <2>2. done.rows = table'
    BY <2>1, <1>8, <1>10 DEF read
  <2>3. Sole(done)'
    BY <2>2, <1>8, <1>10 DEF Sole
  <2>4. Rest'
    BY <2>3, <1>7, <1>9 DEF Rest
  <2> QED
    BY <2>1, <2>4, <1>5 DEF AloneInv
<1>11. CASE q.op /= "list"
  <2>1. cache = table /\ (q.op = "add" => table[u] = <<>>)
    BY <1>1, <1>3, <1>11 DEF Sole, u
  <2>2. Copied(done)' = table' /\ \A v \in User : Len(table'[v]) <= 1
    <3>1. CASE q.op = "add"
      <4>1. table' = [table EXCEPT ![u] = Append(@, NewRow(q.val))]
        BY <3>1, <1>3 DEF Written, u
      <4>2. Copied(done)' = [cache EXCEPT ![u] = Append(@, NewRow(q.val))]
        BY <3>1, <1>3, <1>8 DEF Copied, Applied
      <4>3. Len(Append(table[u], NewRow(q.val))) <= 1
        BY <2>1, <3>1
      <4> QED
        BY <4>1, <4>2, <4>3, <2>1, <1>4, <1>5
    <3>2. CASE q.op = "lvl"
      <4>1. table' = [table EXCEPT ![u] = SetAll(@, "lvl", q.val)]
        BY <3>2, <1>3 DEF Written, u
      <4>2. Copied(done)' = [cache EXCEPT ![u] = SetFirst(@, "lvl", q.val)]
        BY <3>2, <1>3, <1>8 DEF Copied, Applied
      <4>3. SetAll(table[u], "lvl", q.val) = SetFirst(table[u], "lvl", q.val) /\ Len(SetAll(table[u], "lvl", q.val)) <= 1
        BY <1>4, <1>5, OneRowSet
      <4> QED
        BY <4>1, <4>2, <4>3, <2>1, <1>4, <1>5
    <3>3. CASE q.op \in {"win", "lose"}
      <4>1. table' = [table EXCEPT ![u] = SetAll(@, "pts", q.val)]
        BY <3>3, <1>3 DEF Written, u
      <4>2. Copied(done)' = [cache EXCEPT ![u] = SetFirst(@, "pts", q.val)]
        BY <3>3, <1>3, <1>8 DEF Copied, Applied
      <4>3. SetAll(table[u], "pts", q.val) = SetFirst(table[u], "pts", q.val) /\ Len(SetAll(table[u], "pts", q.val)) <= 1
        BY <1>4, <1>5, OneRowSet
      <4> QED
        BY <4>1, <4>2, <4>3, <2>1, <1>4, <1>5
    <3>4. CASE q.op = "del"
      <4>1. table' = [table EXCEPT ![u] = <<>>]
        BY <3>4, <1>3 DEF Written, u
      <4>2. Copied(done)' = [cache EXCEPT ![u] = <<>>]
        BY <3>4, <1>3, <1>8 DEF Copied, Applied
      <4> QED
        BY <4>1, <4>2, <2>1, <1>4, <1>5
    <3> QED
      BY <3>1, <3>2, <3>3, <3>4, <1>4, <1>11
  <2>3. Sole(done)'
    BY <2>2, <1>8, <1>11 DEF Sole
  <2>4. Rest'
    BY <2>3, <1>7, <1>9 DEF Rest
  <2> QED
    BY <2>2, <2>4 DEF AloneInv
<1> QED
  BY <1>10, <1>11

\* Applied to m_Infos, the query that was alone makes it the table again.
LEMMA ConsumeAlone ==
  ASSUME State, AloneInv, Alone, NEW i \in DOMAIN queries, Consume(i)
  PROVE  AloneInv'
<1>1. PICK q \in Good(ever) : queries = <<q>> /\ Sole(q)
  <2>1. Rest
    BY DEF AloneInv
  <2>2. queries /= <<>>
    OBVIOUS
  <2> QED
    BY <2>1, <2>2, Zenon DEF Rest
<1>2. i = 1 /\ queries[i] = q
  BY <1>1
<1>3. q.stage /= "sent" /\ cache' = Copied(q) /\ queries' = RemoveAt(queries, i) /\ table' = table
  BY <1>2, Zenon DEF Consume
<1>4. queries' = <<>>
  BY <1>1, <1>2, <1>3 DEF RemoveAt
<1>5. cache' = table
  <2>1. CASE q.op = "list"
    <3>1. q.rows = table
      BY <2>1, <1>1, <1>3 DEF Sole
    <3> QED
      BY <2>1, <3>1, <1>3 DEF Copied, Loaded
  <2>2. CASE q.op /= "list"
    BY <2>2, <1>1, <1>3 DEF Sole
  <2> QED
    BY <2>1, <2>2
<1> QED
  BY <1>3, <1>4, <1>5 DEF AloneInv, Rest

LEMMA InitAlone == Init => AloneInv
<1> SUFFICES ASSUME Init PROVE AloneInv
  OBVIOUS
<1> DEFINE first == CHOOSE u \in User : TRUE
           q == Ask("list", first, 0)
<1>1. first \in User
  BY KnownAssumption, Zenon
<1>2. /\ table = [u \in User |-> IF u \in Known THEN <<NewRow(AutoLvl)>> ELSE <<>>]
      /\ queries = <<q>>
  BY Zenon DEF Init
<1> HIDE DEF first
<1>3. q \in Good(ever)
  BY <1>1, PointAssumption, AskGood DEF ValuesOf
<1>4. q.op = "list" /\ q.stage = "sent"
  BY DEF Ask
<1> HIDE DEF q
<1>5. Rest
  BY <1>2, <1>3, <1>4, Zenon DEF Rest, Sole
<1>6. \A u \in User : Len(table[u]) <= 1
  BY <1>2
<1> QED
  BY <1>5, <1>6 DEF AloneInv

LEMMA StepAlone == State /\ AloneInv /\ [Next]_vars => AloneInv'
<1> SUFFICES ASSUME State, AloneInv, [Next]_vars PROVE AloneInv'
  OBVIOUS
<1>1. CASE UNCHANGED vars
  <2>1. /\ table' = table /\ cache' = cache /\ queries' = queries /\ ever' = ever
        /\ failed' = failed /\ overlap' = overlap
    BY <1>1, Zenon DEF vars, history
  <2>2. Rest' <=> Rest
    BY <2>1 DEF Rest, Sole, Copied, Applied, Loaded
  <2> QED
    BY <2>1, <2>2 DEF AloneInv, Alone
<1>2. ASSUME NEW i \in DOMAIN queries, Execute(i) PROVE AloneInv'
  <2>1. failed' = failed /\ overlap' = overlap
    BY <1>2, Zenon DEF Execute
  <2>2. CASE Alone
    BY <1>2, <2>2, ExecuteAlone
  <2>3. CASE ~Alone
    BY <2>1, <2>3, Zenon DEF AloneInv, Alone
  <2> QED
    BY <2>2, <2>3
<1>3. ASSUME NEW i \in DOMAIN queries, Fail(i) PROVE AloneInv'
  <2>1. failed'
    BY <1>3, Zenon DEF Fail
  <2> QED
    BY <2>1, Zenon DEF AloneInv, Alone
<1>4. ASSUME NEW i \in DOMAIN queries, Consume(i) PROVE AloneInv'
  <2>1. failed' = failed /\ overlap' = overlap
    BY <1>4, Zenon DEF Consume, history
  <2>2. CASE Alone
    BY <1>4, <2>2, ConsumeAlone
  <2>3. CASE ~Alone
    BY <2>1, <2>3, Zenon DEF AloneInv, Alone
  <2> QED
    BY <2>2, <2>3
<1> QED
  BY <1>1, <1>2, <1>3, <1>4, CommandAlone, Zenon DEF Next

LEMMA AloneCorrect == Spec => []AloneInv
BY InitState, StepState, InitAlone, StepAlone, PTL DEF Spec

\* Without failures and overlaps m_Infos is the table whenever nothing is
\* outstanding.
THEOREM SequentialCorrect == Spec => []SequentialAgrees
<1>1. AloneInv => SequentialAgrees
  BY DEF AloneInv, Alone, Rest, SequentialAgrees
<1> QED
  BY <1>1, AloneCorrect, PTL

\* Without failures and overlaps no account has two rows.
THEOREM OneRowCorrect == Spec => []OneRowAlone
<1>1. AloneInv => OneRowAlone
  BY Zenon DEF AloneInv, Alone, OneRowAlone
<1> QED
  BY <1>1, AloneCorrect, PTL
=============================================================================
