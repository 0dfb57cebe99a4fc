---------------------------- MODULE Moderation ----------------------------
(***************************************************************************)
(* The moderation of the channel during a draft (guard/bnet.cpp), composed *)
(* with the timer of the challenge, whose commands it belongs to.          *)
(*                                                                         *)
(* /moderate toggles: what it does depends on the channel when the server  *)
(* reads it, whether to send it on what guard last heard of a channel.     *)
(* Between the two lie commands and events under way, connections that     *)
(* were lost, and other channels: the flag survives both, and the server   *)
(* does not say what channel guard comes into.                             *)
(***************************************************************************)
EXTENDS ChallengeTimer, Sequences

CONSTANT WayBound  \* bound of the model on commands and events under way

ASSUME WayAssumption == WayBound \in Nat

VARIABLES
  LoggedIn,         \* m_LoggedIn
  ChannelModerate,  \* m_ChannelModerate
  sent,             \* /moderate and /join the server has not read, in their order
  events,           \* EID_INFO and EID_CHANNEL on their way, and what the channel was then
  inside,           \* the server has guard in a channel
  moderated,        \* and that one is moderated
  stale,            \* history: guard came into the channel with another state in mind,
                    \* or is in none, and has heard no info since
  disturbed         \* history: since the last quiet ResetChallenge a toggle was sent, or
                    \* spared, before the answers to those before it, or refused, others
                    \* toggled, or guard was to move

stream == <<sent, events>>
place == <<inside, moderated>>
channel == <<LoggedIn, ChannelModerate, stream, place>>
history == <<stale, disturbed>>
modVars == <<vars, channel, history>>

Info(m)  == <<"info", m>>
Enter(m) == <<"channel", m>>

Picking == Challenge /\ ~Timers
Quiet == sent = <<>> /\ events = <<>>
Known == LoggedIn /\ Quiet /\ ~stale

---------------------------------------------------------------------------
(* Commands.  Those a whisper may carry come by UDP too, without a login.  *)

\* SendChatCommand, past the queue; without a login it does nothing.
Send(c) == sent' = IF LoggedIn THEN Append(sent, c) ELSE sent
ChannelModerates == Send("moderate")
Room == Len(sent) + Len(events) < WayBound

\* ResetChallenge, before a challenge starts and when one ends
MutToLift == TRUE
ToLift == ChannelModerate

Lift ==
  /\ IF ToLift THEN ChannelModerates ELSE UNCHANGED sent
  /\ disturbed' = ~Known

\* challenge is not heard in a whisper.
Start ==
  /\ LoggedIn /\ Room
  /\ StartChallenge
  /\ IF Challenge' THEN Lift ELSE UNCHANGED <<sent, disturbed>>
  /\ UNCHANGED <<LoggedIn, ChannelModerate, events, place, stale>>

End ==
  /\ Room
  /\ EndChallenge
  /\ Lift
  /\ UNCHANGED <<LoggedIn, ChannelModerate, events, place, stale>>

Pick ==
  /\ Room
  /\ StartPick
  /\ IF ChannelModerate THEN UNCHANGED sent ELSE ChannelModerates
  /\ disturbed' = (disturbed \/ ~Known)
  /\ UNCHANGED <<LoggedIn, ChannelModerate, events, place, stale>>

\* mod by an admin, whatever the channel is
Mod ==
  /\ LoggedIn /\ Room
  /\ ChannelModerates
  /\ disturbed' = TRUE
  /\ UNCHANGED <<vars, LoggedIn, ChannelModerate, events, place, stale>>

\* channel by an admin, and once after a login the channel of the configuration
Join ==
  /\ LoggedIn /\ Room
  /\ Send("join")
  /\ disturbed' = TRUE
  /\ UNCHANGED <<vars, LoggedIn, ChannelModerate, events, place, stale>>

---------------------------------------------------------------------------
(* Events                                                                  *)

Hear(e) ==
  /\ LoggedIn /\ events /= <<>> /\ Head(events) = e
  /\ events' = Tail(events)
  /\ UNCHANGED <<vars, LoggedIn, sent, place, disturbed>>

\* ProcessChatEvent, EID_INFO
MutHeard(m) == ChannelModerate \/ m
Heard(m) == m

HearInfo(m) ==
  /\ Hear(Info(m))
  /\ ChannelModerate' = Heard(m)
  /\ stale' = FALSE

\* EID_CHANNEL notes the name of the channel and leaves m_ChannelModerate alone.
HearChannel(m) ==
  /\ Hear(Enter(m))
  /\ UNCHANGED ChannelModerate
  /\ stale' = (ChannelModerate /= m)

\* Neither the challenge nor m_ChannelModerate is reset with the connection, and
\* what was under way is lost.
Drop ==
  /\ LoggedIn
  /\ LoggedIn' = FALSE
  /\ sent' = <<>> /\ events' = <<>>
  /\ inside' = FALSE /\ moderated' = FALSE
  /\ stale' = TRUE
  /\ UNCHANGED <<vars, ChannelModerate, disturbed>>

LogIn ==
  /\ ~LoggedIn /\ LoggedIn' = TRUE
  /\ UNCHANGED <<vars, ChannelModerate, stream, place, history>>

---------------------------------------------------------------------------
(* The server                                                              *)

Toggled ==
  /\ inside
  /\ moderated' = ~moderated
  /\ events' = Append(events, Info(~moderated))
  /\ UNCHANGED inside

\* Into a channel in whatever state.
Moved ==
  /\ inside' = TRUE
  /\ moderated' \in BOOLEAN
  /\ events' = Append(events, Enter(moderated'))

\* A toggle is refused without the rights of an operator, or outside of channels.
ServerReads ==
  /\ sent /= <<>>
  /\ sent' = Tail(sent)
  /\ \/ Head(sent) = "moderate" /\ Toggled /\ UNCHANGED disturbed
     \/ Head(sent) = "join" /\ Moved /\ UNCHANGED disturbed
     \/ disturbed' = TRUE /\ UNCHANGED <<events, place>>
  /\ UNCHANGED <<vars, LoggedIn, ChannelModerate, stale>>

\* Another operator of the channel toggles, or throws guard out into another channel.
Operator ==
  /\ LoggedIn /\ inside /\ Room
  /\ Toggled \/ Moved
  /\ disturbed' = TRUE
  /\ UNCHANGED <<vars, LoggedIn, ChannelModerate, sent, stale>>

---------------------------------------------------------------------------
\* A start of guard: the channel is as the last run or others left it.
ModInit ==
  /\ Init
  /\ LoggedIn = FALSE /\ ChannelModerate = FALSE
  /\ sent = <<>> /\ events = <<>>
  /\ inside = FALSE /\ moderated = FALSE
  /\ stale = TRUE /\ disturbed = FALSE

Timing == (Ex \/ Update \/ Tick) /\ UNCHANGED <<channel, history>>

ModNext ==
  \/ Start \/ End \/ Pick \/ Mod \/ Join
  \/ \E m \in BOOLEAN : HearInfo(m) \/ HearChannel(m)
  \/ Drop \/ LogIn
  \/ ServerReads \/ Operator
  \/ Timing

ModSpec == ModInit /\ [][ModNext]_modVars

\* Main loop and clock go on as in ChallengeTimer.
ModFairSpec ==
  /\ ModSpec
  /\ WF_modVars(Update /\ UNCHANGED <<channel, history>>)
  /\ WF_modVars(Tick /\ UNCHANGED <<channel, history>>)

---------------------------------------------------------------------------
(* Properties                                                              *)

\* Once nothing is under way m_ChannelModerate is the state of the channel,
\* whoever toggled it and in whatever order commands, infos and moves crossed,
\* unless guard came into this channel, after a start, a login or a move, with
\* another state in mind and has heard no info since.
BeliefFollows == Known => ChannelModerate = moderated

\* When the commands of challenges each found what was sent before them answered
\* and a channel guard knew, nothing was refused and nobody else toggled or moved
\* guard, the channel is moderated during the draft and at no other time; the first
\* quiet ResetChallenge after a disturbance sees to that again.
DraftModerated == Known /\ ~disturbed => (moderated <=> Picking)
===========================================================================
