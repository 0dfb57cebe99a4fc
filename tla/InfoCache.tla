----------------------------- MODULE InfoCache -----------------------------
(***************************************************************************)
(* The table infos and its copy m_Infos in a CBNET (guard/bnet.cpp,        *)
(* guard/ghostdbmysql.cpp): levels and ladder points of the accounts.      *)
(*                                                                         *)
(* Commands read m_Infos and issue queries; a thread executes each query   *)
(* on the table at some time; the main loop later applies to m_Infos what  *)
(* a successful query wrote.  Between the three, other queries on the same *)
(* account may be issued, executed and applied, in any order.  The threads *)
(* and connections themselves are in Callables.tla.                        *)
(***************************************************************************)
EXTENDS Integers, FiniteSets, SequencesExt

CONSTANTS
  User,        \* lower-case account names
  Level,       \* access levels given by clvl, a subset of 0..7
  AutoLvl,     \* m_DefaultAutoLvl, the level of a new account
  Delta,       \* what a ladder game may be worth
  Default,     \* the points of an account that has none: 1000
  Width,       \* points are stored modulo Width: 2^32
  Known,       \* accounts that are in the table when guard starts
  MaxCommands  \* bound of the model on the number of commands

ASSUME LevelAssumption == Level \subseteq 0..7 /\ AutoLvl \in 0..7
ASSUME PointAssumption ==
  /\ Width \in Nat /\ Default \in 1..(Width - 1)
  /\ Delta \subseteq 1..(Width - 1)
ASSUME KnownAssumption == Known \subseteq User /\ User /= {}
ASSUME MaxAssumption == MaxCommands \in Nat

VARIABLES
  table,      \* the rows of each account in infos, in the order of their ids
  cache,      \* the rows of each account in m_Infos
  queries,    \* the outstanding queries, in the order they were issued
  commands,   \* number of commands so far
  ever,       \* history: the levels and points the database has accepted for each account
  failed,     \* history: some query failed
  overlap,    \* history: two queries were outstanding at the same time
  fair        \* history: the points of each account by the announced results

history == <<ever, failed, overlap, fair>>
vars == <<table, cache, queries, commands, history>>

NewRow(l)  == [lvl |-> l, pts |-> 0]
NoRows     == [u \in User |-> <<>>]
InTable(u) == table[u] /= <<>>

\* IsInfo looks an account up in m_Infos.
IsInfo(u) == cache[u] /= <<>>

\* GetUserPrivPoints and GetUserPubPoints: of the rows that have points, the
\* last one counts.
Points(rows) ==
  LET paid == {k \in DOMAIN rows : rows[k].pts /= 0}
  IN  IF paid = {} THEN Default ELSE rows[Max(paid)].pts

---------------------------------------------------------------------------
(* Commands and events read the cache and issue queries.                   *)

Ask(op, u, val) == [op |-> op, user |-> u, val |-> val, stage |-> "sent", rows |-> NoRows]

\* A second list query takes the pointer of the first, whose answer is lost.
Lists  == {i \in DOMAIN queries : queries[i].op = "list"}
Others == IF Lists = {} THEN queries ELSE RemoveAt(queries, CHOOSE i \in Lists : TRUE)

Issue(qs) ==
  /\ queries' = (IF Last(qs).op = "list" THEN Others ELSE queries) \o qs
  /\ overlap' = (overlap \/ queries /= <<>> \/ Len(qs) > 1)
  /\ UNCHANGED <<table, cache, ever, failed>>

Command ==
  /\ commands < MaxCommands
  /\ commands' = commands + 1

\* EID_JOIN, and a lookup of an account m_Infos does not have.
MutJoinGuard(u) == TRUE
JoinGuard(u) == ~IsInfo(u)

Join(u) ==
  /\ Command
  /\ JoinGuard(u)
  /\ Issue(<<Ask("add", u, AutoLvl)>>)
  /\ UNCHANGED fair

\* clvl: an account without info gets one.
ChangeLvl(u, l) ==
  /\ Command
  /\ Issue(<<Ask(IF IsInfo(u) THEN "lvl" ELSE "add", u, l)>>)
  /\ UNCHANGED fair

\* chacc: the new account takes the level of the old one, which is shut out.
AccountChange(old, new) ==
  /\ Command
  /\ old /= new
  /\ Issue(<<Ask("lvl", old, 0),
             Ask("lvl", new, IF IsInfo(old) THEN Head(cache[old]).lvl ELSE 1)>>)
  /\ UNCHANGED fair

DelInfo(u) ==
  /\ Command
  /\ Issue(<<Ask("del", u, 0)>>)
  /\ UNCHANGED fair

\* uint32_t
Stored(p) == p % Width

\* AddGameInLadder on the ag of a hostbot, for one winner and one loser.  The
\* test that should keep losers above 0 compares with a negative number and is
\* always true.
Game(w, l, d) ==
  /\ Command
  /\ w /= l
  /\ Issue(<<Ask("win", w, Stored(Points(cache[w]) + d)),
             Ask("lose", l, Stored(Points(cache[l]) - d)),
             Ask("list", l, 0)>>)
  /\ fair' = [fair EXCEPT ![w] = @ + d, ![l] = @ - d]

\* refresh, fix and cal
Refresh ==
  /\ Command
  /\ Issue(<<Ask("list", CHOOSE u \in User : TRUE, 0)>>)
  /\ UNCHANGED fair

\* Once a day, unless a list is being loaded.
DailyRefresh ==
  /\ Lists = {}
  /\ Issue(<<Ask("list", CHOOSE u \in User : TRUE, 0)>>)
  /\ UNCHANGED <<commands, fair>>

---------------------------------------------------------------------------
(* The threads execute the queries on the table.                           *)

\* Every row of the account is updated.
SetAll(rows, field, val) == [k \in DOMAIN rows |-> [rows[k] EXCEPT ![field] = val]]

\* infos has no unique name: its key is the pair of an AUTO_INCREMENT id and
\* the name.
Written(q) ==
  LET u == q.user
  IN  CASE q.op = "add" -> [table EXCEPT ![u] = Append(@, NewRow(q.val))]
        [] q.op = "lvl" -> [table EXCEPT ![u] = SetAll(@, "lvl", q.val)]
        [] q.op \in {"win", "lose"} -> [table EXCEPT ![u] = SetAll(@, "pts", q.val)]
        [] q.op = "del" -> [table EXCEPT ![u] = <<>>]
        [] q.op = "list" -> table

Values(q) ==
  CASE q.op = "add" -> {<<"lvl", q.val>>, <<"pts", 0>>}
    [] q.op = "lvl" -> {<<"lvl", q.val>>}
    [] q.op \in {"win", "lose"} -> {<<"pts", q.val>>}
    [] q.op \in {"del", "list"} -> {}

\* An UPDATE that finds no row succeeds too.
Execute(i) ==
  /\ queries[i].stage = "sent"
  /\ table' = Written(queries[i])
  /\ queries' = [queries EXCEPT ![i].stage = "done",
                                ![i].rows = IF queries[i].op = "list" THEN table ELSE NoRows]
  /\ ever' = [ever EXCEPT ![queries[i].user] = @ \cup Values(queries[i])]
  /\ UNCHANGED <<cache, commands, failed, overlap, fair>>

\* No connection, or the query fails: m_Result is false, or an empty list.
Fail(i) ==
  /\ queries[i].stage = "sent"
  /\ queries' = [queries EXCEPT ![i].stage = "failed"]
  /\ failed' = TRUE
  /\ UNCHANGED <<table, cache, commands, ever, overlap, fair>>

---------------------------------------------------------------------------
(* The main loop applies the results to m_Infos.                           *)

\* UpdateLvlInfo, PrivPointsInfo and PubPointsInfo make one row of all those of
\* the account, from the first of them.
MutSetFirst(rows, field, val) ==
  IF rows = <<>> THEN <<>> ELSE Append(rows, [Head(rows) EXCEPT ![field] = val])
SetFirst(rows, field, val) ==
  IF rows = <<>> THEN <<>> ELSE <<[Head(rows) EXCEPT ![field] = val]>>

MutApplied(q) == q.stage \in {"done", "failed"}
Applied(q) == q.stage = "done"

MutLoaded(q) == [u \in User |-> cache[u] \o q.rows[u]]
Loaded(q) == q.rows

Copied(q) ==
  LET u == q.user
  IN  CASE q.op = "list" -> Loaded(q)
        [] q.op /= "list" /\ ~Applied(q) -> cache
        [] q.op = "add" /\ Applied(q) -> [cache EXCEPT ![u] = Append(@, NewRow(q.val))]
        [] q.op = "lvl" /\ Applied(q) -> [cache EXCEPT ![u] = SetFirst(@, "lvl", q.val)]
        [] q.op \in {"win", "lose"} /\ Applied(q) -> [cache EXCEPT ![u] = SetFirst(@, "pts", q.val)]
        [] q.op = "del" /\ Applied(q) -> [cache EXCEPT ![u] = <<>>]

Consume(i) ==
  /\ queries[i].stage /= "sent"
  /\ cache' = Copied(queries[i])
  /\ queries' = RemoveAt(queries, i)
  /\ UNCHANGED <<table, commands, history>>

---------------------------------------------------------------------------
\* The constructor of CBNET asks for the list.
Init ==
  /\ table = [u \in User |-> IF u \in Known THEN <<NewRow(AutoLvl)>> ELSE <<>>]
  /\ cache = NoRows
  /\ queries = <<Ask("list", CHOOSE u \in User : TRUE, 0)>>
  /\ commands = 0
  /\ ever = [u \in User |-> IF u \in Known THEN {<<"lvl", AutoLvl>>, <<"pts", 0>>} ELSE {}]
  /\ failed = FALSE /\ overlap = FALSE
  /\ fair = [u \in User |-> Default]

Next ==
  \/ \E u \in User : Join(u) \/ DelInfo(u) \/ \E l \in Level : ChangeLvl(u, l)
  \/ \E old, new \in User : AccountChange(old, new)
  \/ \E w, l \in User, d \in Delta : Game(w, l, d)
  \/ Refresh \/ DailyRefresh
  \/ \E i \in DOMAIN queries : Execute(i) \/ Fail(i) \/ Consume(i)

Spec == Init /\ [][Next]_vars

Of(op, A(_)) == \E i \in DOMAIN queries : queries[i].op = op /\ A(i)

\* Queries of every kind are executed and consumed, a list is asked for every
\* day, and the database does not fail every list for ever.
Fairness ==
  /\ WF_vars(DailyRefresh)
  /\ SF_vars(Of("list", Execute))
  /\ \A op \in {"add", "lvl", "win", "lose", "del", "list"} :
       /\ WF_vars(Of(op, Execute) \/ Of(op, Fail))
       /\ WF_vars(Of(op, Consume))

FairSpec == Spec /\ Fairness

---------------------------------------------------------------------------
(* Properties                                                              *)

Row  == [lvl : 0..7, pts : 0..(Width - 1)]
Fact == ({"lvl"} \X (0..7)) \cup ({"pts"} \X (0..(Width - 1)))

Query ==
  [op : {"add", "lvl", "win", "lose", "del", "list"}, user : User, val : Nat,
   stage : {"sent", "done", "failed"}, rows : [User -> Seq(Row)]]
ValuesOf(op) == IF op \in {"add", "lvl"} THEN 0..7 ELSE 0..(Width - 1)

\* Rows, queries and counters have the types of CDBInfo and the callables.
TypeOK ==
  /\ table \in [User -> Seq(Row)]
  /\ cache \in [User -> Seq(Row)]
  /\ queries \in Seq(Query)
  /\ \A i \in DOMAIN queries : queries[i].val \in ValuesOf(queries[i].op)
  /\ commands \in Nat
  /\ ever \in [User -> SUBSET Fact]
  /\ {failed, overlap} \subseteq BOOLEAN

Accepted(rows, u) ==
  \A k \in DOMAIN rows : {<<"lvl", rows[k].lvl>>, <<"pts", rows[k].pts>>} \subseteq ever[u]

\* However queries are reordered, overwritten or failed, m_Infos shows only
\* levels and points that the database has accepted for the account.  (It need
\* not have stored them: an UPDATE that comes before the INSERT of its account
\* succeeds on no row, and m_Infos shows it all the same.)
CacheAccepted == \A u \in User : Accepted(cache[u], u)

\* Why: so does the table, so does every list that was read from it, and what a
\* query that succeeded will write to m_Infos has been accepted.
Sources ==
  /\ \A u \in User : Accepted(table[u], u)
  /\ \A i \in DOMAIN queries :
       /\ \A u \in User : Accepted(queries[i].rows[u], u)
       /\ queries[i].stage = "done" => Values(queries[i]) \subseteq ever[queries[i].user]

IInv == TypeOK /\ CacheAccepted /\ Sources

\* When no query ever failed or met another, m_Infos agrees with the table as
\* soon as nothing is outstanding: the cost of keeping the copy up to date by
\* hand, in place of reading the table, is paid only when queries overlap.
SequentialAgrees == queries = <<>> /\ ~failed /\ ~overlap => cache = table

\* An account once known to m_Infos is never entered a second time by the
\* queries of one that was alone: without failures and overlaps no account has
\* two rows (EID_JOIN and clvl look it up before they add it).
OneRowAlone == ~failed /\ ~overlap => \A u \in User : Len(table[u]) <= 1

\* Whatever went wrong, the daily refresh makes m_Infos agree with the table
\* again.
Heals == []<>(cache = table)

\* "You earn N points from this game.": once every query has succeeded and is
\* consumed, an account that was always in the table has what it was told.
EarnsAsTold ==
  queries = <<>> /\ ~failed =>
    \A u \in Known : Len(table[u]) = 1 => Points(table[u]) = fair[u]
=============================================================================
