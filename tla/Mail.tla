------------------------------- MODULE Mail -------------------------------
(***************************************************************************)
(* The mail box of the users of a channel: the table mails, its copy       *)
(* m_Mails in a CBNET and the queries between them (guard/bnet.cpp,        *)
(* guard/ghostdbmysql.cpp).                                                *)
(*                                                                         *)
(* Limits, ids, announcements and the mark that a mail was read are all    *)
(* decided on m_Mails, which learns of a mail only when its query is       *)
(* consumed; the table is changed by queries whose threads run in any      *)
(* order (see Callables.tla).                                              *)
(***************************************************************************)
EXTENDS SequencesExt, Subsequence

CONSTANTS
  User,         \* accounts in m_Infos
  Admin,        \* those of level 5, who get the mail of hostbots
  Hostbot,      \* an account of level 6
  All,          \* the receiver of an announcement, "-" in the code
  MaxSended,    \* bot_maxmailssend, 10
  MaxReceived,  \* bot_maxmailsreceive, 5
  MaxCommands,  \* bound of the model on the number of commands
  MaxQueries    \* bound of the model on the number of outstanding queries

ASSUME NameAssumption == Admin \subseteq User /\ {Hostbot, All} \cap User = {} /\ Hostbot /= All
ASSUME UserAssumption == IsFiniteSet(User)
ASSUME NumberAssumption == {MaxSended, MaxReceived, MaxCommands, MaxQueries} \subseteq Nat
\* The mail that may be there from an earlier run was within the limits.
ASSUME LimitAssumption == MaxSended > 0 /\ MaxReceived > 0

VARIABLES
  table,     \* the rows of mails, in the order they were inserted
  cache,     \* m_Mails
  queries,   \* the outstanding queries
  commands,  \* number of commands so far; the text of a mail is the number of its command
  ever,      \* history: the mails the database has accepted
  shown,     \* history: which text was shown to whom
  bypassed,  \* history: mail was sent to somebody without a look at the limits
  disorder   \* history: a query failed, or something was asked of the database, or two mails
             \* at once, before m_Mails knew what the queries before did

vars == <<table, cache, queries, commands, ever, shown, bypassed, disorder>>

Letter(m) == [id |-> m.id, from |-> m.from, to |-> m.to, text |-> m.text]
Count(rows, P(_)) == Cardinality({k \in DOMAIN rows : P(rows[k])})

---------------------------------------------------------------------------
(* What commands read in m_Mails                                           *)

\* GetMailId
MailId == Max({0} \cup {m.id : m \in ToSet(cache)})
MutNextId == MailId
NextId == MailId + 1

\* MailsSendedMaxLimit and MailsReceivedMaxLimit compare with ==.
SendedBy(u, rows)   == Count(rows, LAMBDA m : m.from = u)
ReceivedBy(u, rows) == Count(rows, LAMBDA m : m.to = u)
SendedMax(u) == SendedBy(u, cache) = MaxSended
MutReceivedMax(u) == ReceivedBy(u, cache) = MaxReceived + 1
ReceivedMax(u) == ReceivedBy(u, cache) = MaxReceived

IsMail(u) == \E m \in ToSet(cache) : u \in {m.from, m.to}

\* MailSpamAlreadyReaded: who has sent any mail is never shown an announcement.
MutAlreadyReaded(u, text) == \E m \in ToSet(cache) : m.from = u
AlreadyReaded(u, text) == \E m \in ToSet(cache) : m.from = u \/ (m.to = u /\ m.text = text)

---------------------------------------------------------------------------
(* Commands and events                                                     *)

Ask(op, mail) == [op |-> op, mail |-> mail, stage |-> "sent", rows |-> <<>>]
Mail(from, to, text) == [id |-> NextId, from |-> from, to |-> to, text |-> text, read |-> FALSE]
NoMail == [id |-> 0, from |-> All, to |-> All, text |-> 0, read |-> FALSE]

Add(m)        == Ask("add", m)
Readed(u)     == Ask("readed", [NoMail EXCEPT !.to = u])
Delete(u, id) == Ask("remove", [NoMail EXCEPT !.to = u, !.id = id])
List          == Ask("list", NoMail)

Adds(qs) == Count(qs, LAMBDA q : q.op = "add")

Issue(qs) ==
  /\ commands < MaxCommands
  /\ commands' = commands + 1
  /\ Len(queries) + Len(qs) <= MaxQueries
  /\ queries' = queries \o qs
  /\ disorder' = (disorder \/ queries /= <<>> \/ Adds(qs) > 1)
  /\ UNCHANGED <<table, ever>>

\* Kept while SeenBeforeRead asks for it.
Show(texts) == shown' = IF disorder' THEN {} ELSE shown \cup texts

MailCommand(u, v) ==
  /\ u /= v
  /\ ~SendedMax(u) /\ ~ReceivedMax(v)
  /\ Issue(<<Add(Mail(u, v, commands'))>>)
  /\ UNCHANGED <<cache, shown, bypassed>>

\* annmail by an admin
AnnMail(u) ==
  /\ Issue(<<Add(Mail(u, All, commands'))>>)
  /\ bypassed' = TRUE
  /\ UNCHANGED <<cache, shown>>

\* mail of a hostbot, to every admin, all with the same id
HostbotMail ==
  /\ Issue([k \in 1..Cardinality(Admin) |-> Add(Mail(Hostbot, SetToSeq(Admin)[k], commands'))])
  /\ bypassed' = TRUE
  /\ UNCHANGED <<cache, shown>>

Mark(u) == [k \in DOMAIN cache |-> [cache[k] EXCEPT !.read = @ \/ cache[k].to = u]]

\* EID_JOIN, PrintMails: new announcements are copied to the user, unread mail is
\* shown, and all of the user's mail is marked as read.
Join(u) ==
  LET news   == Kept(cache, {k \in DOMAIN cache : cache[k].to = All /\ ~AlreadyReaded(u, cache[k].text)})
      unread == {m \in ToSet(cache) : m.to = u /\ ~m.read}
  IN  /\ Issue([k \in DOMAIN news |-> Add(Mail(news[k].from, u, news[k].text))] \o <<Readed(u)>>)
      /\ Show({<<m.text, u>> : m \in unread \cup ToSet(news)})
      /\ cache' = IF unread = {} THEN cache ELSE Mark(u)
      /\ bypassed' = (bypassed \/ news /= <<>>)

\* mailbox
Mailbox(u) ==
  LET own == {m \in ToSet(cache) : m.to = u}
  IN  /\ own /= {}
      /\ Issue(<<Readed(u)>>)
      /\ Show({<<m.text, u>> : m \in own})
      /\ cache' = Mark(u)
      /\ UNCHANGED bypassed

DelMail(u, id) ==
  /\ IsMail(u)
  /\ Issue(<<Delete(u, id)>>)
  /\ UNCHANGED <<cache, shown, bypassed>>

\* Once a day, unless a list is being loaded.
DailyRefresh ==
  /\ ~\E k \in DOMAIN queries : queries[k].op = "list"
  /\ queries' = <<List>> \o queries
  /\ disorder' = (disorder \/ queries /= <<>>)
  /\ UNCHANGED <<table, cache, commands, ever, shown, bypassed>>

\* refresh: a list under way loses its pointer.
Refresh ==
  /\ commands < MaxCommands
  /\ commands' = commands + 1
  /\ queries' = <<List>> \o Kept(queries, {k \in DOMAIN queries : queries[k].op /= "list"})
  /\ disorder' = (disorder \/ queries /= <<>>)
  /\ UNCHANGED <<table, cache, ever, shown, bypassed>>

---------------------------------------------------------------------------
(* The threads execute the queries on the table.                           *)

\* DELETE and RemoveMail: a mail of which the user is the receiver or the sender
Named(m, q) == q.mail.to \in {m.from, m.to} /\ m.id = q.mail.id

Without(rows, q) == Kept(rows, {k \in DOMAIN rows : ~Named(rows[k], q)})

MutMarks(m, q) == q.mail.to \in {m.from, m.to}
Marks(m, q) == m.to = q.mail.to

Written(q) ==
  CASE q.op = "add" -> Append(table, q.mail)
    [] q.op = "readed" -> [k \in DOMAIN table |-> [table[k] EXCEPT !.read = @ \/ Marks(table[k], q)]]
    [] q.op = "remove" -> Without(table, q)
    [] q.op = "list" -> table

Execute(i) ==
  /\ queries[i].stage = "sent"
  /\ table' = Written(queries[i])
  /\ ever' = IF queries[i].op = "add" THEN ever \cup {Letter(queries[i].mail)} ELSE ever
  /\ queries' = [queries EXCEPT ![i].stage = "done",
                                ![i].rows = IF queries[i].op = "list" THEN table ELSE <<>>]
  /\ UNCHANGED <<cache, commands, shown, bypassed, disorder>>

Fail(i) ==
  /\ queries[i].stage = "sent"
  /\ queries' = [queries EXCEPT ![i].stage = "failed"]
  /\ disorder' = TRUE
  /\ UNCHANGED <<table, cache, commands, ever, shown, bypassed>>

---------------------------------------------------------------------------
(* The main loop applies the results to m_Mails.                           *)

MutApplied(q) == q.stage \in {"done", "failed"}
Applied(q) == q.stage = "done"

\* The list of a query that failed is empty and replaces m_Mails all the same.
MutLoaded(q) == cache \o q.rows
Loaded(q) == q.rows

Copied(q) ==
  CASE q.op = "list" -> Loaded(q)
    [] q.op /= "list" /\ ~Applied(q) -> cache
    [] q.op = "add" /\ Applied(q) -> Append(cache, q.mail)
    [] q.op = "readed" /\ Applied(q) -> Mark(q.mail.to)
    [] q.op = "remove" /\ Applied(q) -> Without(cache, q)

Consume(i) ==
  /\ queries[i].stage /= "sent"
  /\ cache' = Copied(queries[i])
  /\ queries' = RemoveAt(queries, i)
  /\ UNCHANGED <<table, commands, ever, shown, bypassed, disorder>>

---------------------------------------------------------------------------
\* The constructor of CBNET asks for the list; the table may hold a mail
\* of an earlier run.
Init ==
  /\ table \in {<<>>} \cup {<<[id |-> 1, from |-> p[1], to |-> p[2], text |-> 0, read |-> FALSE]>> :
                             p \in {p \in User \X (User \cup {All}) : p[1] /= p[2]}}
  /\ ever = {Letter(m) : m \in ToSet(table)}
  /\ cache = <<>>
  /\ queries = <<List>>
  /\ commands = 0
  /\ shown = {}
  /\ bypassed = FALSE /\ disorder = FALSE

Commands ==
  \/ \E u, v \in User : MailCommand(u, v)
  \/ \E u \in User :
       \/ AnnMail(u) \/ Join(u) \/ Mailbox(u)
       \/ \E id \in 1..(MailId + 1) : DelMail(u, id)
  \/ HostbotMail \/ Refresh

Next ==
  \/ Commands \/ DailyRefresh
  \/ \E i \in DOMAIN queries : Execute(i) \/ Fail(i) \/ Consume(i)

Spec == Init /\ [][Next]_vars

IsList(q) == q.op = "list"
IsChange(q) == ~IsList(q)
Some(Is(_), A(_)) == \E i \in DOMAIN queries : Is(queries[i]) /\ A(i)

\* As in InfoCache: queries end and are consumed, a list is asked for every day, and the
\* database does not fail every list for ever.
Fairness ==
  /\ WF_vars(DailyRefresh)
  /\ SF_vars(Some(IsList, Execute))
  /\ WF_vars(Some(IsList, Consume))
  /\ WF_vars(Some(IsChange, Execute) \/ Some(IsChange, Fail) \/ Some(IsChange, Consume))

FairSpec == Spec /\ Fairness

---------------------------------------------------------------------------
(* Properties                                                              *)

Mails == [id : Nat \ {0}, from : User \cup {Hostbot}, to : User \cup {All}, text : 0..MaxCommands,
          read : BOOLEAN]

\* Mails have the fields of CDBMail, and the ids guard gives start at 1.
TypeOK ==
  /\ table \in Seq(Mails) /\ cache \in Seq(Mails)
  /\ \A k \in DOMAIN queries :
       /\ queries[k].op \in {"add", "readed", "remove", "list"}
       /\ queries[k].stage \in {"sent", "done", "failed"}
       /\ queries[k].rows \in Seq(Mails)
  /\ commands \in 0..MaxCommands
  /\ {bypassed, disorder} \subseteq BOOLEAN

\* However queries are reordered or fail, m_Mails shows no mail that the database
\* has not accepted.
MailAccepted == \A m \in ToSet(cache) : Letter(m) \in ever

\* Why: so is every mail of the table, of a loaded list and of a query that succeeded.
IInv ==
  /\ TypeOK /\ MailAccepted
  /\ \A m \in ToSet(table) : Letter(m) \in ever
  /\ \A k \in DOMAIN queries :
       /\ \A m \in ToSet(queries[k].rows) : Letter(m) \in ever
       /\ queries[k].op = "add" /\ queries[k].stage = "done" => Letter(queries[k].mail) \in ever

\* delmail names a mail by its id: no two mails of the table share one as long as
\* each mail was in m_Mails before the next was sent.
IdsDistinct == ~disorder => \A j, k \in DOMAIN table : j /= k => table[j].id /= table[k].id

\* As long as nothing else writes mail, no box ever passes its limits, although
\* they are compared with ==.
LimitKept ==
  ~disorder /\ ~bypassed =>
    \A u \in User : SendedBy(u, table) <= MaxSended /\ ReceivedBy(u, table) <= MaxReceived

\* An announcement enters the box of a user once, however often the user joins.
AnnouncedOnce ==
  ~disorder => \A j, k \in DOMAIN table :
               j /= k => <<table[j].to, table[j].text>> /= <<table[k].to, table[k].text>>

\* No mail counts as read, in the table or in m_Mails, that its receiver was not
\* shown: the UPDATE that marks it marks all of the receiver's mail.
SeenBeforeRead ==
  ~disorder => \A m \in ToSet(table) \cup ToSet(cache) : m.read => <<m.text, m.to>> \in shown

\* Whatever went wrong, the daily refresh makes m_Mails agree with the table again.
Heals == []<>(cache = table)
===========================================================================
