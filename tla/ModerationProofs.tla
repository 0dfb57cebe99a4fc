------------------------- MODULE ModerationProofs -------------------------
(***************************************************************************)
(* Proofs about ChallengeTimer and Moderation.                             *)
(*                                                                         *)
(* The timer alone, for every length of the timer and of the warning and   *)
(* every lag of the main loop within TimeAssumption; then the timer beside *)
(* the channel: Moderation leaves it as it is in ChallengeTimer, guard's   *)
(* idea of the channel follows the channel, and a draft nobody disturbed   *)
(* is moderated.                                                           *)
(***************************************************************************)
EXTENDS Moderation, TLAPS

---------------------------------------------------------------------------
(* The timer                                                               *)

\* The parts of the invariant: the types of the flags and of the numbers, and how
\* they hang together.  A timer runs only during a challenge, and during a
\* challenge the flag of ex is set only past the second warning.
Flags == Challenge \in BOOLEAN /\ Timers \in BOOLEAN /\ Extended \in BOOLEAN
Numbers == Spam \in 0..2 /\ elapsed \in Int /\ lag \in 0..MaxLag
TimerInv == Flags /\ Numbers /\ (Timers => Challenge) /\ ExOnlyLate

\* What the arithmetic needs of the constants.
LEMMA Seconds == /\ First \in Nat /\ Warn \in Nat /\ Over \in Nat
                 /\ Extend \in Nat /\ MaxLag \in Nat
                 /\ Warn < Over
BY TimeAssumption, SMT DEF TimeAssumption

\* The constructor establishes the invariant whatever the flag it leaves
\* uninitialized holds, because no challenge runs.
LEMMA TimerInit == Init => TimerInv
<1> SUFFICES ASSUME Init PROVE TimerInv
  OBVIOUS
<1>1. Flags /\ (Timers => Challenge) /\ ExOnlyLate
  BY Zenon DEF Init, Flags, ExOnlyLate
<1>2. Numbers
  BY Seconds DEF Init, Numbers
<1> QED
  BY <1>1, <1>2 DEF TimerInv

\* The flags stay flags, and a timer runs only during a challenge.
LEMMA FlagStep == Flags /\ (Timers => Challenge) /\ [Next]_vars => (Flags /\ (Timers => Challenge))'
<1> SUFFICES ASSUME Flags, Timers => Challenge, [Next]_vars PROVE (Flags /\ (Timers => Challenge))'
  OBVIOUS
<1> USE DEF Flags
<1>1. CASE StartChallenge
  <2>1. CASE UNCHANGED <<Challenge, Timers, Spam, Extended>>
    BY <2>1, Zenon
  <2>2. CASE Challenge' = TRUE /\ Timers' = TRUE /\ Extended' = FALSE
    BY <2>2, Zenon
  <2> QED
    BY <1>1, <2>1, <2>2, Zenon DEF StartChallenge, Stopped
<1>2. CASE StartPick
  BY <1>2, Zenon DEF StartPick
<1>3. CASE EndChallenge
  BY <1>3, Zenon DEF EndChallenge, Stopped
<1>4. CASE Ex
  BY <1>4, Zenon DEF Ex
<1>5. CASE Update
  BY <1>5, Zenon DEF Update
<1>6. CASE Tick
  BY <1>6, Zenon DEF Tick
<1>7. CASE UNCHANGED vars
  BY <1>7, Zenon DEF vars
<1> QED
  BY <1>1, <1>2, <1>3, <1>4, <1>5, <1>6, <1>7 DEF Next, Users

\* The phase of the timer stays below three, and its time and lag are seconds.
LEMMA NumberStep == Numbers /\ [Next]_vars => Numbers'
<1> SUFFICES ASSUME Numbers, [Next]_vars PROVE Numbers'
  OBVIOUS
<1> USE Seconds DEF Numbers
<1>1. CASE StartChallenge
  BY <1>1 DEF StartChallenge
<1>2. CASE StartPick
  BY <1>2 DEF StartPick
<1>3. CASE EndChallenge
  BY <1>3 DEF EndChallenge
<1>4. CASE Ex
  BY <1>4 DEF Ex
<1>5. CASE Update
  BY <1>5 DEF Update, Restarted, LastMinute, Half
<1>6. CASE Tick
  BY <1>6 DEF Tick
<1>7. CASE UNCHANGED vars
  BY <1>7 DEF vars
<1> QED
  BY <1>1, <1>2, <1>3, <1>4, <1>5, <1>6, <1>7 DEF Next, Users

\* Only the last warning sets the flag of ex, and what moves the time back or
\* starts a challenge takes it away.
LEMMA LateStep == Numbers /\ ExOnlyLate /\ [Next]_vars => ExOnlyLate'
<1> SUFFICES ASSUME Numbers, ExOnlyLate, [Next]_vars, Challenge', Extended' PROVE elapsed' > Warn
  BY DEF ExOnlyLate
<1> USE Seconds DEF Numbers
<1>1. ~StartChallenge
  BY Zenon DEF StartChallenge, Stopped
<1>2. CASE StartPick
  BY <1>2 DEF StartPick, ExOnlyLate
<1>3. ~EndChallenge
  BY Zenon DEF EndChallenge
<1>4. ~Ex
  BY Zenon DEF Ex
<1>5. CASE Update
  BY <1>5 DEF Update, LastMinute, ExOnlyLate
<1>6. CASE Tick
  <2>1. elapsed > Warn
    BY <1>6 DEF Tick, ExOnlyLate
  <2> QED
    BY <1>6, <2>1 DEF Tick
<1>7. CASE UNCHANGED vars
  BY <1>7 DEF vars, ExOnlyLate
<1> QED
  BY <1>1, <1>2, <1>3, <1>4, <1>5, <1>6, <1>7 DEF Next, Users

\* The invariant holds in every state of the timer.
THEOREM TimerInvCorrect == Spec => []TimerInv
<1>1. TimerInv /\ [Next]_vars => TimerInv'
  BY FlagStep, NumberStep, LateStep DEF TimerInv
<1> QED
  BY <1>1, TimerInit, PTL DEF Spec

\* .ex is allowed only in the last minute of the challenge that runs, for every
\* length of the timer: ResetChallenge and the end of the time take the permission
\* back, and the uninitialized flag is never seen by a challenge.
THEOREM ExOnlyLateCorrect == Spec => []ExOnlyLate
<1>1. TimerInv => ExOnlyLate
  BY DEF TimerInv
<1> QED
  BY <1>1, TimerInvCorrect, PTL

\* The flags, the phase and the lag keep their ranges: the phase counter never
\* passes the second warning.
THEOREM TimerTypeCorrect == Spec => []TypeOK
<1>1. TimerInv => TypeOK
  BY Zenon DEF TimerInv, Flags, Numbers, TypeOK
<1> QED
  BY <1>1, TimerInvCorrect, PTL

---------------------------------------------------------------------------
(* The timer beside the channel                                            *)

\* Composed with the channel the timer takes the steps of ChallengeTimer.
LEMMA TimerSteps == [ModNext]_modVars => [Next]_vars
<1> SUFFICES ASSUME [ModNext]_modVars PROVE [Next]_vars
  OBVIOUS
<1>1. CASE Start
  BY <1>1 DEF Start, Next, Users
<1>2. CASE End
  BY <1>2 DEF End, Next, Users
<1>3. CASE Pick
  BY <1>3 DEF Pick, Next, Users
<1>4. CASE \/ Mod \/ Join \/ Drop \/ LogIn \/ ServerReads \/ Operator
           \/ \E m \in BOOLEAN : HearInfo(m) \/ HearChannel(m)
  BY <1>4 DEF Mod, Join, HearInfo, HearChannel, Hear, Drop, LogIn, ServerReads, Operator
<1>5. CASE Timing
  BY <1>5 DEF Timing, Next, Users
<1>6. CASE UNCHANGED modVars
  BY <1>6 DEF modVars
<1> QED
  BY <1>1, <1>2, <1>3, <1>4, <1>5, <1>6 DEF ModNext

\* What holds of the timer alone holds of it beside the channel.
THEOREM TimerImplemented == ModSpec => Spec
<1>1. ModInit => Init
  BY DEF ModInit
<1> QED
  BY <1>1, TimerSteps, PTL DEF ModSpec, Spec

---------------------------------------------------------------------------
\* What is under way are sequences of commands and of events.
Events == {"info", "channel"} \X BOOLEAN
WayType ==
  /\ sent \in Seq({"moderate", "join"}) /\ events \in Seq(Events)
  /\ inside \in BOOLEAN /\ moderated \in BOOLEAN /\ ChannelModerate \in BOOLEAN

\* The last event under way tells the state of the channel; if none is under way,
\* guard knows it already, unless it came into the channel with another in mind.
Told ==
  /\ events /= <<>> => events[Len(events)][2] = moderated
  /\ events = <<>> /\ ~stale => ChannelModerate = moderated

LEMMA EventTypes == \A m \in BOOLEAN : /\ Info(m) \in Events /\ Info(m)[2] = m
                                       /\ Enter(m) \in Events /\ Enter(m)[2] = m
                                       /\ \A n \in BOOLEAN : Info(n) /= Enter(m)
BY DEF Info, Enter, Events

\* What the ends of a stream do to it.
LEMMA StreamEnds ==
  ASSUME NEW T, NEW s \in Seq(T)
  PROVE  /\ \A e \in T : /\ Append(s, e) \in Seq(T) /\ Append(s, e) /= <<>>
                         /\ Append(s, e)[Len(Append(s, e))] = e
         /\ s /= <<>> => /\ Tail(s) \in Seq(T) /\ Head(s) \in T
                         /\ Tail(s) /= <<>> => Tail(s)[Len(Tail(s))] = s[Len(s)]
                         /\ Tail(s) = <<>> => s[Len(s)] = Head(s) /\ s = <<Head(s)>>
<1>1. ASSUME NEW e \in T
      PROVE  /\ Append(s, e) \in Seq(T) /\ Append(s, e) /= <<>>
             /\ Append(s, e)[Len(Append(s, e))] = e
  OBVIOUS
<1>2. ASSUME s /= <<>>
      PROVE  /\ Tail(s) \in Seq(T) /\ Head(s) \in T
             /\ Tail(s) /= <<>> => Tail(s)[Len(Tail(s))] = s[Len(s)]
             /\ Tail(s) = <<>> => s[Len(s)] = Head(s) /\ s = <<Head(s)>>
  <2>1. /\ Tail(s) \in Seq(T) /\ Head(s) \in T /\ Head(s) = s[1]
        /\ Len(s) \in Nat \ {0} /\ Len(Tail(s)) = Len(s) - 1
        /\ \A i \in 1..Len(Tail(s)) : Tail(s)[i] = s[i + 1]
    BY <1>2
  <2>2. ASSUME Tail(s) /= <<>> PROVE Tail(s)[Len(Tail(s))] = s[Len(s)]
    <3>1. Len(Tail(s)) /= 0
      BY <2>1, <2>2
    <3>2. Len(Tail(s)) \in 1..Len(Tail(s)) /\ Len(Tail(s)) + 1 = Len(s)
      BY <2>1, <3>1
    <3> QED
      BY <2>1, <3>2
  <2>3. ASSUME Tail(s) = <<>> PROVE s[Len(s)] = Head(s) /\ s = <<Head(s)>>
    <3>1. Len(s) = 1
      <4> DEFINE l == Len(s)  r == Len(Tail(s))
      <4>1. r = Len(<<>>)
        BY <2>3, Zenon
      <4>2. Len(<<>>) = 0
        OBVIOUS
      <4>3. l \in Nat /\ r = l - 1
        BY <2>1
      <4> HIDE DEF l, r
      <4>4. l = 1
        BY <4>1, <4>2, <4>3
      <4> QED
        BY <4>4 DEF l
    <3>2. s[Len(s)] = Head(s)
      BY <2>1, <3>1
    <3>3. s = <<Head(s)>>
      BY <2>1, <3>1
    <3> QED
      BY <3>2, <3>3
  <2> QED
    BY <2>1, <2>2, <2>3
<1> QED
  BY <1>1, <1>2

\* A step of the channel appends an event that tells of it.
LEMMA ChannelStep ==
  ASSUME WayType, Toggled \/ Moved
  PROVE  /\ inside' \in BOOLEAN /\ moderated' \in BOOLEAN
         /\ events' \in Seq(Events) /\ events' /= <<>> /\ events'[Len(events')][2] = moderated'
<1>1. inside' \in BOOLEAN /\ moderated' \in BOOLEAN
  BY Zenon DEF WayType, Toggled, Moved
<1>2. PICK e \in Events : events' = Append(events, e) /\ e[2] = moderated'
  <2>1. CASE Toggled
    <3>1. Info(moderated') \in Events /\ Info(moderated')[2] = moderated'
      BY <1>1, EventTypes
    <3>2. events' = Append(events, Info(moderated'))
      BY <2>1, Zenon DEF Toggled
    <3> QED
      BY <3>1, <3>2, Zenon
  <2>2. CASE Moved
    <3>1. Enter(moderated') \in Events /\ Enter(moderated')[2] = moderated'
      BY <1>1, EventTypes
    <3> QED
      BY <2>2, <3>1, Zenon DEF Moved
  <2> QED
    BY <2>1, <2>2
<1>3. events' \in Seq(Events) /\ events' /= <<>> /\ events'[Len(events')] = e
  <2>1. events \in Seq(Events)
    BY DEF WayType
  <2> QED
    BY <1>2, <2>1, StreamEnds
<1> QED
  BY <1>1, <1>2, <1>3

LEMMA WayStep == WayType /\ [ModNext]_modVars => WayType'
<1> SUFFICES ASSUME WayType, [ModNext]_modVars PROVE WayType'
  OBVIOUS
<1>1. ASSUME NEW c \in {"moderate", "join"}, Send(c) PROVE sent' \in Seq({"moderate", "join"})
  BY <1>1, StreamEnds DEF Send, WayType
<1>2. CASE Start \/ End \/ Pick \/ Mod \/ Join
  <2>1. sent' \in Seq({"moderate", "join"})
    BY <1>1, <1>2 DEF Start, End, Pick, Mod, Join, Lift, ChannelModerates, WayType
  <2>2. UNCHANGED <<ChannelModerate, events, place>>
    BY <1>2, Zenon DEF Start, End, Pick, Mod, Join
  <2> QED
    BY <2>1, <2>2 DEF WayType, place
<1>3. ASSUME NEW m \in BOOLEAN, HearInfo(m) \/ HearChannel(m) PROVE WayType'
  <2>1. events /= <<>> /\ events' = Tail(events) /\ UNCHANGED <<sent, place>>
    BY <1>3, Zenon DEF HearInfo, HearChannel, Hear
  <2>2. ChannelModerate' \in BOOLEAN
    BY <1>3, Zenon DEF HearInfo, HearChannel, Heard, WayType
  <2> QED
    BY <2>1, <2>2, StreamEnds DEF WayType, place
<1>4. CASE Drop
  <2>1. sent' \in Seq({"moderate", "join"}) /\ events' \in Seq(Events)
    BY <1>4 DEF Drop
  <2>2. inside' \in BOOLEAN /\ moderated' \in BOOLEAN /\ ChannelModerate' \in BOOLEAN
    BY <1>4, Zenon DEF Drop, WayType
  <2> QED
    BY <2>1, <2>2 DEF WayType
<1>5. ASSUME UNCHANGED <<ChannelModerate, stream, place>> PROVE WayType'
  BY <1>5 DEF WayType, stream, place
<1>6. CASE LogIn \/ Timing \/ UNCHANGED modVars
  BY <1>5, <1>6 DEF LogIn, Timing, modVars, channel
<1>7. CASE ServerReads
  <2>1. sent' \in Seq({"moderate", "join"}) /\ UNCHANGED ChannelModerate
    BY <1>7, StreamEnds DEF ServerReads, WayType
  <2>2. (Toggled \/ Moved) \/ UNCHANGED <<events, place>>
    BY <1>7, Zenon DEF ServerReads
  <2> QED
    BY <2>1, <2>2, ChannelStep DEF WayType, place
<1>8. CASE Operator
  BY <1>8, ChannelStep DEF Operator, WayType
<1> QED
  BY <1>2, <1>3, <1>4, <1>6, <1>7, <1>8 DEF ModNext

\* A toggle that the server has read is announced, as is a move, after which guard
\* knows the state of the channel or its idea is stale.
LEMMA ToldStep == WayType /\ Told /\ [ModNext]_modVars => Told'
<1> SUFFICES ASSUME WayType, Told, [ModNext]_modVars PROVE Told'
  OBVIOUS
<1>1. ASSUME UNCHANGED <<events, place, ChannelModerate, stale>> PROVE Told'
  BY <1>1 DEF Told, place
<1>2. CASE Start \/ End \/ Pick \/ Mod \/ Join \/ LogIn
  BY <1>1, <1>2 DEF Start, End, Pick, Mod, Join, LogIn, stream, history
<1>3. ASSUME NEW m \in BOOLEAN, HearInfo(m) \/ HearChannel(m) PROVE Told'
  <2>1. /\ events /= <<>> /\ events' = Tail(events) /\ UNCHANGED moderated
        /\ Head(events)[2] = m
    BY <1>3, EventTypes DEF HearInfo, HearChannel, Hear, place
  <2>2. ChannelModerate' = m \/ stale'
    BY <1>3, Zenon DEF HearInfo, HearChannel, Heard
  <2>3. CASE events' = <<>>
    BY <2>1, <2>2, <2>3, StreamEnds DEF WayType, Told
  <2>4. CASE events' /= <<>>
    BY <2>1, <2>4, StreamEnds DEF WayType, Told
  <2> QED
    BY <2>3, <2>4
<1>4. CASE Drop
  BY <1>4 DEF Drop, Told
<1>5. CASE ServerReads \/ Operator
  <2>1. (Toggled \/ Moved) \/ UNCHANGED <<events, place, ChannelModerate, stale>>
    BY <1>5, Zenon DEF ServerReads, Operator
  <2> QED
    BY <1>1, <2>1, ChannelStep DEF Told
<1>6. CASE Timing \/ UNCHANGED modVars
  BY <1>1, <1>6 DEF Timing, modVars, channel, stream, history
<1> QED
  BY <1>2, <1>3, <1>4, <1>5, <1>6 DEF ModNext

LEMMA ModStart == ModInit => WayType /\ Told
<1> SUFFICES ASSUME ModInit PROVE WayType /\ Told
  OBVIOUS
<1>1. sent \in Seq({"moderate", "join"}) /\ events \in Seq(Events) /\ events = <<>> /\ stale
  BY DEF ModInit
<1>2. inside \in BOOLEAN /\ moderated \in BOOLEAN /\ ChannelModerate \in BOOLEAN
  BY Zenon DEF ModInit
<1> QED
  BY <1>1, <1>2, Zenon DEF WayType, Told

THEOREM ToldCorrect == ModSpec => [](WayType /\ Told)
BY ModStart, WayStep, ToldStep, PTL DEF ModSpec

\* Once nothing is under way guard knows the state of the channel, whoever toggled it
\* and however commands, infos and moves crossed, also from a start in a channel an earlier
\* run left moderated, unless it came there with another state in mind and no info came since.
THEOREM BeliefCorrect == ModSpec => []BeliefFollows
<1>1. WayType /\ Told => BeliefFollows
  BY DEF Told, BeliefFollows, Known, Quiet
<1> QED
  BY <1>1, ToldCorrect, PTL

---------------------------------------------------------------------------
\* What the commands of undisturbed challenges leave: at most one toggle or the info of
\* one, and the channel is, or will be, as the draft wants it.
Answered == sent = <<>> /\ events \in {<<>>, <<Info(moderated)>>} /\ (moderated <=> Picking)
OnItsWay == sent = <<"moderate">> /\ events = <<>> /\ (moderated <=> ~Picking)
Undisturbed ==
  ~disturbed => \/ stale /\ sent = <<>> /\ events = <<>>
                \/ ~stale /\ (Answered \/ OnItsWay)

ModInv == TimerInv /\ WayType /\ Told /\ Undisturbed

\* A step that spares the commands, the channel and the draft.
LEMMA Undisturbing ==
  ASSUME Undisturbed, UNCHANGED <<disturbed, stale, sent, events, moderated, Challenge, Timers>>
  PROVE  Undisturbed'
BY Zenon DEF Undisturbed, Answered, OnItsWay, Picking, Info

\* A command sent with nothing before it.
LEMMA OneSent ==
  ASSUME sent = <<>>, LoggedIn, ChannelModerates
  PROVE  sent' = <<"moderate">>
BY DEF ChannelModerates, Send

\* ResetChallenge in a quiet channel that guard knows leaves one toggle if the channel
\* is moderated, and none if it is not; in any other channel it disturbs.
LEMMA LiftStep ==
  ASSUME Told, Lift, ~Picking', UNCHANGED <<events, moderated, stale>>
  PROVE  Undisturbed'
<1>1. CASE ~Known
  BY <1>1, Zenon DEF Lift, Undisturbed
<1>2. CASE Known
  <2>1. LoggedIn /\ sent = <<>> /\ events = <<>> /\ ~stale /\ ChannelModerate = moderated
    BY <1>2, Zenon DEF Known, Quiet, Told
  <2>2. CASE ChannelModerate
    <3>1. sent' = <<"moderate">>
      BY <2>1, <2>2, OneSent, Zenon DEF Lift, ToLift
    <3> QED
      BY <2>1, <2>2, <3>1, Zenon DEF Undisturbed, OnItsWay
  <2>3. CASE ~ChannelModerate
    <3>1. sent' = <<>>
      BY <2>1, <2>3, Zenon DEF Lift, ToLift
    <3> QED
      BY <2>1, <2>3, <3>1, Zenon DEF Undisturbed, Answered
  <2> QED
    BY <2>2, <2>3, Zenon
<1> QED
  BY <1>1, <1>2

\* startpick in a quiet channel that guard knows leaves one toggle if the channel is not
\* moderated, and none if it is.
LEMMA PickStep ==
  ASSUME ModInv, Pick
  PROVE  Undisturbed'
<1> SUFFICES ASSUME ~disturbed' PROVE Undisturbed'
  BY Zenon DEF Undisturbed
<1>1. LoggedIn /\ sent = <<>> /\ events = <<>> /\ ~stale /\ ChannelModerate = moderated
  BY Zenon DEF Pick, Known, Quiet, ModInv, Told
<1>2. UNCHANGED <<events, moderated, stale>>
  BY Zenon DEF Pick, place
<1>3. Picking'
  BY Zenon DEF Pick, StartPick, Picking, ModInv, TimerInv
<1>4. CASE ChannelModerate
  <2>1. sent' = <<>>
    BY <1>1, <1>4, Zenon DEF Pick
  <2> QED
    BY <1>1, <1>2, <1>3, <1>4, <2>1, Zenon DEF Undisturbed, Answered
<1>5. CASE ~ChannelModerate
  <2>1. sent' = <<"moderate">>
    BY <1>1, <1>5, OneSent, Zenon DEF Pick
  <2> QED
    BY <1>1, <1>2, <1>3, <1>5, <2>1, Zenon DEF Undisturbed, OnItsWay
<1> QED
  BY <1>4, <1>5

\* The server's answer to the one toggle that is under way.
LEMMA ReadStep ==
  ASSUME ModInv, ServerReads
  PROVE  Undisturbed'
<1> SUFFICES ASSUME ~disturbed' PROVE Undisturbed'
  BY Zenon DEF Undisturbed
<1>0. ~disturbed
  BY DEF ServerReads
<1>1. sent /= <<>> /\ UNCHANGED <<Challenge, Timers, stale>> /\ sent' = Tail(sent)
  BY Zenon DEF ServerReads, vars
<1>2. OnItsWay /\ ~stale
  BY <1>0, <1>1, Zenon DEF ModInv, Undisturbed, Answered
<1>3. Head(sent) = "moderate" /\ sent' = <<>>
  BY <1>1, <1>2 DEF OnItsWay
<1>4. Toggled
  BY <1>3 DEF ServerReads
<1>5. moderated' = ~moderated /\ events' = <<Info(~moderated)>>
  BY <1>2, <1>4 DEF Toggled, OnItsWay
<1>6. Answered'
  <2>1. Picking' <=> Picking
    BY <1>1, Zenon DEF Picking
  <2>2. events' = <<Info(moderated')>>
    BY <1>5
  <2> QED
    BY <1>2, <1>3, <1>5, <2>1, <2>2, Zenon DEF Answered, OnItsWay, Info
<1> QED
  BY <1>1, <1>2, <1>6, Zenon DEF Undisturbed

\* Only the info of that toggle can be heard.
LEMMA HearStep ==
  ASSUME ModInv, NEW m \in BOOLEAN, HearInfo(m) \/ HearChannel(m)
  PROVE  Undisturbed'
<1> SUFFICES ASSUME ~disturbed' PROVE Undisturbed'
  BY Zenon DEF Undisturbed
<1>0. ~disturbed
  BY DEF HearInfo, HearChannel, Hear
<1>1. /\ events /= <<>> /\ Head(events) \in {Info(m), Enter(m)} /\ events' = Tail(events)
      /\ UNCHANGED <<Challenge, Timers, sent, moderated>>
  BY Zenon DEF HearInfo, HearChannel, Hear, place, vars
<1>2. Answered /\ events = <<Info(moderated)>>
  BY <1>0, <1>1, Zenon DEF ModInv, Undisturbed, Answered, OnItsWay
<1>3. Head(events) = Info(moderated) /\ events' = <<>>
  BY <1>1, <1>2
<1>4. ~stale'
  <2>1. moderated \in BOOLEAN
    BY DEF ModInv, WayType
  <2>2. Head(events) /= Enter(m)
    BY <1>3, <2>1, EventTypes
  <2> QED
    BY <2>2, Zenon DEF HearInfo, HearChannel, Hear
<1>5. Answered'
  BY <1>1, <1>2, <1>3, Zenon DEF Answered, Picking
<1> QED
  BY <1>4, <1>5, Zenon DEF Undisturbed

LEMMA UndisturbedStep == ModInv /\ [ModNext]_modVars => Undisturbed'
<1> SUFFICES ASSUME ModInv, [ModNext]_modVars PROVE Undisturbed'
  OBVIOUS
<1>1. CASE Start
  <2>1. CASE Challenge'
    <3>1. ~Picking' /\ Lift
      BY <1>1, <2>1, Zenon DEF Start, StartChallenge, Picking
    <3> QED
      BY <1>1, <3>1, LiftStep, Zenon DEF Start, place, ModInv
  <2>2. CASE ~Challenge'
    <3>1. UNCHANGED <<Challenge, Timers>>
      BY <1>1, <2>2, Zenon DEF Start, StartChallenge
    <3> QED
      BY <1>1, <2>2, <3>1, Undisturbing, Zenon DEF Start, place, ModInv
  <2> QED
    BY <2>1, <2>2
<1>2. CASE End
  <2>1. ~Picking' /\ Lift
    BY <1>2, Zenon DEF End, EndChallenge, Picking
  <2> QED
    BY <1>2, <2>1, LiftStep, Zenon DEF End, place, ModInv
<1>3. CASE Pick
  BY <1>3, PickStep
<1>4. CASE Mod \/ Join \/ Operator
  BY <1>4, Zenon DEF Mod, Join, Operator, Undisturbed
<1>5. ASSUME NEW m \in BOOLEAN, HearInfo(m) \/ HearChannel(m) PROVE Undisturbed'
  BY <1>5, HearStep
<1>6. CASE Drop
  BY <1>6, Zenon DEF Drop, Undisturbed
<1>7. CASE LogIn
  BY <1>7, Undisturbing, Zenon DEF LogIn, vars, stream, place, history, ModInv
<1>8. CASE ServerReads
  BY <1>8, ReadStep
<1>9. CASE Timing
  <2>1. UNCHANGED <<Challenge, Timers>>
    BY <1>9, Zenon DEF Timing, Ex, Update, Tick
  <2> QED
    BY <1>9, <2>1, Undisturbing, Zenon DEF Timing, channel, stream, place, history, ModInv
<1>10. CASE UNCHANGED modVars
  BY <1>10, Undisturbing, Zenon DEF modVars, vars, channel, stream, place, history, ModInv
<1> QED
  BY <1>1, <1>2, <1>3, <1>4, <1>5, <1>6, <1>7, <1>8, <1>9, <1>10 DEF ModNext

THEOREM ModInvCorrect == ModSpec => []ModInv
<1>1. ModInit => ModInv
  <2> SUFFICES ASSUME ModInit PROVE ModInv
    OBVIOUS
  <2>1. TimerInv
    BY TimerInit DEF ModInit
  <2>2. Undisturbed
    BY Zenon DEF ModInit, Undisturbed
  <2> QED
    BY <2>1, <2>2, ModStart DEF ModInv
<1>2. ModInv /\ [ModNext]_modVars => ModInv'
  <2>1. TimerInv /\ [ModNext]_modVars => TimerInv'
    BY TimerSteps, FlagStep, NumberStep, LateStep DEF TimerInv
  <2> QED
    BY <2>1, WayStep, ToldStep, UndisturbedStep DEF ModInv
<1> QED
  BY <1>1, <1>2, PTL DEF ModSpec

\* As long as each command of a challenge finds what was sent before it answered and a
\* channel guard knows, and nobody else toggles or moves guard, the channel is moderated
\* during the draft and at no other time.
THEOREM ModeratedCorrect == ModSpec => []DraftModerated
<1>1. ModInv => DraftModerated
  <2> SUFFICES ASSUME ModInv, Known, ~disturbed PROVE moderated <=> Picking
    BY DEF DraftModerated
  <2>1. sent = <<>> /\ ~stale
    BY Zenon DEF Known, Quiet
  <2>2. ~OnItsWay
    BY <2>1 DEF OnItsWay
  <2> QED
    BY <2>1, <2>2, Zenon DEF ModInv, Undisturbed, Answered
<1> QED
  BY <1>1, ModInvCorrect, PTL
===========================================================================
