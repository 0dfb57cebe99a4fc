------------------------------- MODULE Warns -------------------------------
(***************************************************************************)
(* Warns and channel bans (guard/bnet.cpp, guard/ghostdbmysql.cpp): the    *)
(* table warns, its copy m_Warns in a CBNET, the queries between them, and *)
(* the bans the server has been told of.                                   *)
(*                                                                         *)
(* The server knows no expiry: guard sends "/ban" at once, records in a    *)
(* row of warns the hour at which the ban ends, and every 15 minutes sends *)
(* "/unban" for the rows of m_Warns whose hour has come. Order, row and    *)
(* copy are three places that change one after the other.                  *)
(***************************************************************************)
EXTENDS SequencesExt, Subsequence

CONSTANTS
  User,         \* users who have a record in infos
  Warnable,     \* those of a level below the admin's
  Bannable,     \* those of level 1 to 3
  Operator,     \* m_IsOperator: guard may "/ban", otherwise it can only "/kick"
  MaxWarns,     \* warnings after which the next one bans, 2
  WarnTerm,     \* length of that ban, 72 hours
  Terms,        \* lengths given to cban, below 337 hours; 1 for flames
  MaxHour,      \* bound of the model on the hours that pass
  MaxCommands,  \* bound of the model on the number of commands
  MaxQueries    \* bound of the model on the number of outstanding queries

ASSUME SetAssumption == Bannable \subseteq Warnable /\ Warnable \subseteq User /\ Operator \in BOOLEAN
ASSUME UserAssumption == IsFiniteSet(User) /\ User /= {}
ASSUME NumberAssumption ==
  /\ {MaxWarns, WarnTerm, MaxHour, MaxCommands, MaxQueries} \subseteq Nat
  /\ MaxWarns > 0 /\ MaxHour > 0
  /\ Terms \cup {WarnTerm} \subseteq 0..336

VARIABLES
  table,     \* the rows of warns, in the order they were inserted
  cache,     \* m_Warns
  queries,   \* the outstanding queries
  hour,      \* GetHoursSince1970
  banned,    \* the users the server keeps out of the channel
  commands,  \* number of commands so far
  strikes,   \* history: warns of each user since the last ban for them, delwarn or erasewarn
  lost,      \* history: users the server may keep out although no row says until when
  disorder   \* history: a query failed, something was asked of the database before m_Warns
             \* knew what the queries before did, or a fix freed users against their rows

vars == <<table, cache, queries, hour, banned, commands, strikes, lost, disorder>>

Row(u, w, d) == [name |-> u, warnings |-> w, daysban |-> d]
NoRow == [warnings |-> 0, daysban |-> 0]

\* IsWarn: the first row of the user
IsWarn(u) == \E k \in DOMAIN cache : cache[k].name = u
Warn(u) == IF IsWarn(u) THEN cache[Min({k \in DOMAIN cache : cache[k].name = u})] ELSE NoRow

Without(rows, u) == Kept(rows, {k \in DOMAIN rows : rows[k].name /= u})

---------------------------------------------------------------------------
(* Commands and events                                                     *)

Ask(op, row) == [op |-> op, row |-> row, stage |-> "sent", rows |-> <<>>]
Add(u, w, d)      == Ask("add", Row(u, w, d))
UpdateAdd(u, w)   == Ask("update", Row(u, w, 0))
ChannelBan(u, d)    == Ask("ban", Row(u, 0, d))
Erase(u)            == Ask("remove", Row(u, 0, 0))
List                == Ask("list", Row(CHOOSE u \in User : TRUE, 0, 0))

Issue(qs) ==
  /\ queries' = queries \o qs
  /\ disorder' = (disorder \/ queries /= <<>>)
  /\ UNCHANGED <<table, cache, hour>>

Command(qs) ==
  /\ commands < MaxCommands
  /\ Cardinality({k \in DOMAIN queries : queries[k].op /= "list"}) + Len(qs) <= MaxQueries
  /\ commands' = commands + 1
  /\ Issue(qs)

\* Kept while ThirdWarnBans asks for it.
Count(u, n) == strikes' = IF disorder' THEN [v \in User |-> 0] ELSE [strikes EXCEPT ![u] = n]

\* A query that may still take a ban out of the table
Lifting(u) ==
  \E q \in ToSet(queries) : q.row.name = u /\ (q.op = "remove" \/ (q.op = "ban" /\ q.row.daysban = 0))

\* "/ban", or "/kick" for who is no operator; recorded: a row says, or is about to say,
\* when the ban ends.
Ban(u, recorded) ==
  /\ banned' = IF Operator THEN banned \cup {u} ELSE banned
  /\ lost' = IF recorded /\ ~Lifting(u) THEN lost \ {u} ELSE lost \cup ({u} \cap banned')

Unban(us) == banned' = banned \ us /\ lost' = lost \ us

\* Cban: who has no row gets one, with a warning.
CbanQuery(u, hours) ==
  IF IsWarn(u) THEN ChannelBan(u, hour + hours) ELSE Add(u, 1, hour + hours)

Cban(u, hours) ==
  /\ u \in Bannable
  /\ hour + hours <= MaxHour
  /\ Command(<<CbanQuery(u, hours)>>)
  /\ Ban(u, TRUE)
  /\ UNCHANGED strikes

FirstWarn(u) ==
  /\ ~IsWarn(u)
  /\ Command(<<Add(u, 1, 0)>>)
  /\ Count(u, strikes[u] + 1)
  /\ UNCHANGED <<banned, lost>>

MutThird(u) == Warn(u).warnings = MaxWarns + 1
Third(u) == Warn(u).warnings = MaxWarns

NextWarn(u) ==
  /\ IsWarn(u) /\ ~Third(u)
  /\ Command(<<UpdateAdd(u, Warn(u).warnings + 1)>>)
  /\ Count(u, strikes[u] + 1)
  /\ UNCHANGED <<banned, lost>>

\* The third warn bans, unless the level of the victim forbids it.
LastWarn(u) ==
  /\ IsWarn(u) /\ Third(u)
  /\ hour + WarnTerm <= MaxHour
  /\ IF u \in Bannable
     THEN Command(<<UpdateAdd(u, 0), CbanQuery(u, WarnTerm)>>) /\ Ban(u, TRUE)
     ELSE Command(<<UpdateAdd(u, 0)>>) /\ UNCHANGED <<banned, lost>>
  /\ Count(u, 0)

DelWarn(u) ==
  /\ IsWarn(u)
  /\ Command(<<UpdateAdd(u, 0)>>)
  /\ Count(u, 0)
  /\ UNCHANGED <<banned, lost>>

\* erasewarn forgets a ban that the server keeps.
EraseWarn(u) ==
  /\ IsWarn(u)
  /\ Command(<<Erase(u)>>)
  /\ Count(u, 0)
  /\ lost' = lost \cup ({u} \cap banned)
  /\ UNCHANGED banned

DelCban(u) ==
  /\ Warn(u).daysban > 0
  /\ Command(<<ChannelBan(u, 0)>>)
  /\ Unban({u})
  /\ UNCHANGED strikes

\* cban fix: every row that has a ban, expired or not
FixCban ==
  LET us == {r.name : r \in {r \in ToSet(cache) : r.daysban /= 0}}
  IN  /\ us /= {} /\ commands < MaxCommands
      /\ commands' = commands + 1
      /\ Unban(us)
      /\ disorder' = TRUE
      /\ UNCHANGED <<table, cache, queries, hour, strikes>>

\* info: u asks about v, finds that the ban of v has ended, and is freed.
Info(u, v) ==
  /\ Warn(v).daysban \in 1..hour
  /\ Command(<<ChannelBan(u, 0)>>)
  /\ Unban({u})
  /\ UNCHANGED strikes

\* A user whose row has a ban enters, or is there when guard enters, the channel.
Join(u) ==
  /\ Warn(u).daysban > 0 /\ u \notin banned
  /\ Ban(u, \E r \in ToSet(table) : r.name = u /\ r.daysban > 0)
  /\ disorder' = (disorder \/ queries /= <<>>)
  /\ UNCHANGED <<table, cache, queries, hour, commands, strikes>>

\* refresh: a list under way loses its pointer; fix does the same and frees everybody.
Reload(us) ==
  /\ commands < MaxCommands
  /\ commands' = commands + 1
  /\ queries' = <<List>> \o Kept(queries, {k \in DOMAIN queries : queries[k].op /= "list"})
  /\ disorder' = (disorder \/ queries /= <<>> \/ us /= {})
  /\ Unban(us)
  /\ UNCHANGED <<table, cache, hour, strikes>>

---------------------------------------------------------------------------
(* Update                                                                  *)

MutExpired(r) == r.daysban \in 1..(hour + 1)
MutMissed(r) == r.daysban = hour
Expired(r) == r.daysban \in 1..hour

\* Every 15 minutes, for every expired row; equal queries for rows of one user count as
\* one, and a check is left out while queries of the one before are under way.
Check ==
  LET us == {r.name : r \in {r \in ToSet(cache) : Expired(r)}}
  IN  /\ us /= {} /\ \A u \in us : ~Lifting(u)
      /\ Issue(SetToSeq({ChannelBan(u, 0) : u \in us}))
      /\ Unban(us)
      /\ UNCHANGED <<commands, strikes>>

DailyRefresh ==
  /\ ~\E k \in DOMAIN queries : queries[k].op = "list"
  /\ queries' = <<List>> \o queries
  /\ disorder' = (disorder \/ queries /= <<>>)
  /\ UNCHANGED <<table, cache, hour, banned, commands, strikes, lost>>

Tick ==
  /\ hour < MaxHour
  /\ hour' = hour + 1
  /\ UNCHANGED <<table, cache, queries, banned, commands, strikes, lost, disorder>>

---------------------------------------------------------------------------
(* The threads execute the queries on the table.                           *)

\* Every row of the user is updated.
SetAll(rows, u, field, val) ==
  [k \in DOMAIN rows |-> IF rows[k].name = u THEN [rows[k] EXCEPT ![field] = val] ELSE rows[k]]

Written(q) ==
  CASE q.op = "add" -> Append(table, q.row)
    [] q.op = "update" -> SetAll(table, q.row.name, "warnings", q.row.warnings)
    [] q.op = "ban" -> SetAll(table, q.row.name, "daysban", q.row.daysban)
    [] q.op = "remove" -> Without(table, q.row.name)
    [] q.op = "list" -> table

\* An UPDATE that meets no row records nothing.
Execute(i) ==
  LET q == queries[i]
  IN  /\ q.stage = "sent"
      /\ table' = Written(q)
      /\ queries' = [queries EXCEPT ![i].stage = "done",
                                    ![i].rows = IF q.op = "list" THEN table ELSE <<>>]
      /\ lost' = IF /\ q.op = "ban" /\ q.row.daysban > 0
                    /\ \A r \in ToSet(table) : r.name /= q.row.name
                 THEN lost \cup ({q.row.name} \cap banned) ELSE lost
      /\ UNCHANGED <<cache, hour, banned, commands, strikes, disorder>>

\* A query that failed is consumed without effect, a list with an empty result.
Fail(i) ==
  /\ queries[i].stage = "sent"
  /\ queries' = IF queries[i].op = "list" THEN [queries EXCEPT ![i].stage = "done"]
                ELSE RemoveAt(queries, i)
  /\ lost' = IF queries[i].row.daysban > 0 THEN lost \cup ({queries[i].row.name} \cap banned) ELSE lost
  /\ disorder' = TRUE
  /\ UNCHANGED <<table, cache, hour, banned, commands, strikes>>

---------------------------------------------------------------------------
(* The main loop applies the results to m_Warns.                           *)

\* UpdateAddWarn and ChannelBanWarn replace the rows of the user by one, made of the
\* first of them and of the query.
Rebuilt(u, row) == IF IsWarn(u) THEN Append(Without(cache, u), row) ELSE cache

MutBanOf(q) == q.row.daysban
BanOf(q) == Warn(q.row.name).daysban

UpdateAddWarn(q) ==
  Rebuilt(q.row.name, Row(q.row.name, q.row.warnings, BanOf(q)))
ChannelBanWarn(q) ==
  LET w == Warn(q.row.name)
  IN  Rebuilt(q.row.name, Row(q.row.name, w.warnings, q.row.daysban))

\* The list of a query that failed is empty and replaces m_Warns all the same.
Copied(q) ==
  CASE q.op = "list" -> q.rows
    [] q.op = "add" -> Append(cache, q.row)
    [] q.op = "update" -> UpdateAddWarn(q)
    [] q.op = "ban" -> ChannelBanWarn(q)
    [] q.op = "remove" -> Without(cache, q.row.name)

Consume(i) ==
  /\ queries[i].stage = "done"
  /\ cache' = Copied(queries[i])
  /\ queries' = RemoveAt(queries, i)
  /\ UNCHANGED <<table, hour, banned, commands, strikes, lost, disorder>>

---------------------------------------------------------------------------
\* The table may hold a ban of an earlier run, ended, which the server still knows of.
Init ==
  /\ hour = 1
  /\ table \in {<<>>} \cup {<<Row(u, 1, 1)>> : u \in Bannable}
  /\ banned = {r.name : r \in {r \in ToSet(table) : Operator /\ r.daysban > 0}}
  /\ cache = <<>>
  /\ queries = <<List>>
  /\ commands = 0
  /\ strikes = [u \in User |-> IF table = <<>> THEN 0 ELSE IF table[1].name = u THEN 1 ELSE 0]
  /\ lost = {}
  /\ disorder = FALSE

Commands ==
  \/ \E u \in User :
       \/ u \in Warnable /\ (FirstWarn(u) \/ NextWarn(u) \/ LastWarn(u))
       \/ DelWarn(u) \/ EraseWarn(u) \/ DelCban(u)
       \/ \E h \in Terms : Cban(u, h)
       \/ \E v \in User : Info(u, v)
  \/ FixCban
  \/ \E us \in {{}, User} : Reload(us)

Next ==
  \/ Commands \/ Check \/ DailyRefresh \/ Tick
  \/ \E u \in User : Join(u)
  \/ \E i \in DOMAIN queries : Execute(i) \/ Fail(i) \/ Consume(i)

Spec == Init /\ [][Next]_vars

IsList(q) == q.op = "list"
IsLift(q) == q.op = "ban" /\ q.row.daysban = 0
IsRecord(q) == ~IsList(q) /\ ~IsLift(q)
Some(Is(_), A(_)) == \E i \in DOMAIN queries : Is(queries[i]) /\ A(i)

\* As in InfoCache: a list is asked for every day, not every list fails, and other queries
\* end and are consumed, of which BanEnds needs those that are no lifts. Hours pass, and
\* the check runs 96 times between two daily refreshes.
Fairness ==
  /\ WF_vars(Tick)
  /\ SF_vars(Check)
  /\ WF_vars(DailyRefresh)
  /\ SF_vars(Some(IsList, Execute))
  /\ WF_vars(Some(IsList, Consume))
  /\ WF_vars(Some(IsRecord, Execute) \/ Some(IsRecord, Fail) \/ Some(IsRecord, Consume))

FairSpec == Spec /\ Fairness

---------------------------------------------------------------------------
(* Properties                                                              *)

Rows == [name : User, warnings : 0..MaxWarns, daysban : 0..MaxHour]

\* Rows have the fields of CDBWarn. Whatever is lost or reordered, nobody has more than
\* MaxWarns warnings.
TypeOK ==
  /\ \A r \in ToSet(table) \cup ToSet(cache) : r \in Rows
  /\ \A k \in DOMAIN queries : queries[k].row \in Rows /\ queries[k].stage \in {"sent", "done"}
  /\ hour \in 1..MaxHour /\ commands \in 0..MaxCommands
  /\ lost \subseteq banned /\ banned \subseteq User /\ disorder \in BOOLEAN

\* When every query is consumed, and none failed or met another command, m_Warns has
\* the rows of the table, although the two queries of a third warn are applied to
\* different fields in any order.
SameWarns ==
  queries = <<>> /\ ~disorder => Len(cache) = Len(table) /\ ToSet(cache) = ToSet(table)

\* Three warns in a row ban: nobody who can be banned collects more than two, as long
\* as each warn was in m_Warns before the next.
ThirdWarnBans == ~disorder => \A u \in Bannable : strikes[u] <= MaxWarns

\* Warnings are bounded, in the rows always, and in what was said while in order.
WarningsBounded == TypeOK /\ ThirdWarnBans

\* A ban stands until its hour: what Update decides on m_Warns frees nobody whose ban in
\* the table goes on.
BanStands ==
  [][~disorder' /\ commands' = commands =>
       \A u \in banned \ banned', r \in ToSet(table) : r.name = u => r.daysban <= hour]_vars

\* A ban ends, whatever is reordered or fails: nobody is kept out for ever unless the row
\* that says until when was erased or never written, or the ban was sent again while
\* its end was under way.
BanEnds == \A u \in User : []<>(u \notin banned \/ u \in lost)
===========================================================================
