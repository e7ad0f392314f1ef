--------------------------- MODULE ChannelsProofs ---------------------------
(***************************************************************************)
(* Proofs about Channels and LeakGuard, the components MCChannels checks.  *)
(***************************************************************************)
EXTENDS Channels, LeakGuard, FiniteSetTheorems, SequenceTheorems, TLAPS

-----------------------------------------------------------------------------
(* Channels: types, for any channels, thresholds and bounds.               *)

\* What is played for a set of channels is commands.
LEMMA LinesOfType ==
    ASSUME NEW S \in SUBSET Channel
    PROVE  LinesOf(S) \in Seq(Command)
<1> DEFINE order == SetToSeq(S)
<1>1. IsFiniteSet(S) /\ Cardinality(S) \in Nat
  BY ChannelsAssumption, FS_Subset, FS_CardinalityType
<1>2. order \in [1 .. Cardinality(S) -> S]
  <2>1. ExistsBijection(1 .. Cardinality(S), S)
    BY <1>1, FS_CardinalityType
  <2>2. \E f \in [1 .. Cardinality(S) -> S] : IsInjective(f)
    BY <2>1 DEF ExistsBijection, Bijection, Injection, IsInjective
  <2>3. QED
    BY <2>2 DEF SetToSeq
<1>3. order \in Seq(Channel) /\ Len(order) = Cardinality(S)
  BY <1>1, <1>2
<1> HIDE DEF order
<1>4. Len(order) \in Nat
  BY <1>1, <1>3
<1>5. ASSUME NEW i \in 1 .. 2 * Len(order)
      PROVE  [cmd |-> IF i % 2 = 1 THEN "INVITE" ELSE "JOIN", chan |-> order[(i + 1) \div 2]] \in Command
  <2>1. (i + 1) \div 2 \in 1 .. Len(order)
    BY <1>4
  <2>2. order[(i + 1) \div 2] \in Channel
    BY <1>3, <2>1
  <2>3. QED
    BY <2>2 DEF Command
<1>6. LinesOf(S) = [i \in 1 .. 2 * Len(order) |->
          [cmd |-> IF i % 2 = 1 THEN "INVITE" ELSE "JOIN", chan |-> order[(i + 1) \div 2]]]
  BY DEF LinesOf, order
<1>7. 2 * Len(order) \in Nat
  BY <1>4
<1>8. QED
  BY <1>5, <1>6, <1>7

\* One more line for the server, from whichever thread.
LEMMA CommandSent ==
    ASSUME TypeOK, NEW c \in Channel, NEW cmd \in {"INVITE", "JOIN", "PART"},
           toServer' = Append(toServer, [cmd |-> cmd, chan |-> c])
    PROVE  toServer' \in Seq(Command)
BY DEF TypeOK, Command

\* One more line from the server, about us or a stranger.
LEMMA EchoTold ==
    ASSUME TypeOK, NEW c \in Channel, NEW cmd \in {"JOIN", "PART", "KICK"}
    PROVE  /\ Append(toBot, Own(cmd, c)) \in Seq(Echo)
           /\ Append(toBot, [cmd |-> cmd, nick |-> "tmp", chan |-> c, own |-> FALSE]) \in Seq(Echo)
<1>1. Own(cmd, c) \in Echo /\ [cmd |-> cmd, nick |-> "tmp", chan |-> c, own |-> FALSE] \in Echo
  BY DEF TypeOK, Own, Echo
<1>2. toBot \in Seq(Echo)
  BY DEF TypeOK
<1>3. QED
  BY <1>1, <1>2

\* The line read is about a channel.
LEMMA LineRead ==
    ASSUME TypeOK, NEW cmd, Reads(cmd)
    PROVE  /\ toBot' = Tail(toBot) /\ Tail(toBot) \in Seq(Echo)
           /\ Head(toBot) \in Echo /\ Head(toBot).chan \in Channel
<1>1. toBot \in Seq(Echo) /\ toBot # << >> /\ toBot' = Tail(toBot)
  BY DEF TypeOK, Reads
<1>2. Head(toBot) \in Echo /\ Tail(toBot) \in Seq(Echo)
  BY <1>1
<1>3. QED
  BY <1>1, <1>2 DEF Echo

LEMMA TypesInit == Init => TypeOK
<1> SUFFICES ASSUME Init PROVE TypeOK
  OBVIOUS
<1>1. startup \in Seq(Command) /\ configured \subseteq Channel
  BY DEF Init
<1>2. /\ replay \in Seq(Command) /\ toServer \in Seq(Command) /\ toBot \in Seq(Echo)
  BY DEF Init
<1>3. /\ kick_history \in [Channel -> Nat] /\ rejoin \in [Channel -> Nat]
      /\ lateJoin \in [Channel -> Nat]
  BY DEF Init
<1>4. ourNick \in {"NICK", "tmp"}
  BY DEF Init
<1>5. QED
  BY <1>1, <1>2, <1>3, <1>4 DEF Init, TypeOK

LEMMA ReaderKeepsTypes == TypeOK /\ handle_server_line => TypeOK'
<1> SUFFICES ASSUME TypeOK, handle_server_line PROVE TypeOK'
  OBVIOUS
<1>1. PICK cmd : Reads(cmd)
  BY DEF handle_server_line, ReadJoin, ReadPart, ReadKick
<1>2. /\ toBot' \in Seq(Echo) /\ Head(toBot).chan \in Channel
      /\ UNCHANGED <<serverVars, toServer, startup, startup_thread, startup_done, replay, lateJoin>>
  BY <1>1, LineRead DEF Reads
<1>3. joined' \subseteq Channel
  BY <1>2 DEF TypeOK, handle_server_line, ReadJoin, ReadPart, ReadKick
<1>4. kick_history' \in [Channel -> Nat] /\ rejoin' \in [Channel -> Nat]
  <2>1. /\ kick_history' \in {kick_history, [kick_history EXCEPT ![Head(toBot).chan] = @ + 1]}
        /\ rejoin' \in {rejoin, [rejoin EXCEPT ![Head(toBot).chan] = @ + 1]}
    BY DEF handle_server_line, ReadJoin, ReadPart, ReadKick
  <2>2. kick_history \in [Channel -> Nat] /\ rejoin \in [Channel -> Nat]
    BY DEF TypeOK
  <2>3. Head(toBot).chan \in Channel
    BY <1>2
  <2>4. QED
    BY <2>1, <2>2, <2>3
<1>5. QED
  BY <1>2, <1>3, <1>4 DEF TypeOK, serverVars

LEMMA ThreadsKeepTypes ==
    ASSUME TypeOK,
           \/ Startup \/ Converge \/ ConvergeReplays
           \/ \E c \in Channel : Rejoin(c) \/ LateJoin(c) \/ KickForgotten(c) \/ Operator(c)
    PROVE  TypeOK'
<1>1. CASE Startup
  <2>1. startup \in Seq(Command) /\ toServer \in Seq(Command) /\ configured \in SUBSET Channel
    BY DEF TypeOK
  <2>2. LinesOf(configured) \in Seq(Command)
    BY <2>1, LinesOfType
  <2>3. startup' \in Seq(Command) /\ toServer' \in Seq(Command)
    <3>1. CASE StartupOpens
      BY <2>1, <2>2, <3>1 DEF StartupOpens
    <3>2. CASE StartupPlays
      BY <2>1, <3>2 DEF StartupPlays
    <3>3. CASE StartupDone
      BY <2>1, <3>3 DEF StartupDone
    <3>4. QED
      BY <1>1, <3>1, <3>2, <3>3 DEF Startup
  <2>4. /\ startup_thread' \in {"opens", "plays", "done", "nofile"}
        /\ startup_done' \in BOOLEAN
    BY <1>1 DEF Startup, StartupOpens, StartupPlays, StartupDone, TypeOK
  <2>5. QED
    BY <1>1, <2>3, <2>4 DEF Startup, TypeOK, serverVars
<1>2. CASE Converge
  <2>1. Missing \in SUBSET Channel
    BY DEF Missing, TypeOK
  <2>2. replay' \in Seq(Command)
    BY <1>2, <2>1, LinesOfType DEF Converge
  <2>3. QED
    BY <1>2, <2>2 DEF Converge, TypeOK, serverVars
<1>3. CASE ConvergeReplays
  <2>1. replay' \in Seq(Command) /\ toServer' \in Seq(Command)
    BY <1>3 DEF ConvergeReplays, TypeOK
  <2>2. QED
    BY <1>3, <2>1 DEF ConvergeReplays, TypeOK, serverVars
<1>4. ASSUME NEW c \in Channel, Rejoin(c)
      PROVE  TypeOK'
  <2>1. toServer' \in Seq(Command)
    BY <1>4, CommandSent DEF Rejoin
  <2>2. rejoin' \in [Channel -> Nat] /\ lateJoin' \in [Channel -> Nat]
    BY <1>4 DEF Rejoin, TypeOK
  <2>3. QED
    BY <1>4, <2>1, <2>2 DEF Rejoin, TypeOK, serverVars
<1>5. ASSUME NEW c \in Channel, LateJoin(c)
      PROVE  TypeOK'
  <2>1. toServer' \in Seq(Command)
    BY <1>5, CommandSent DEF LateJoin
  <2>2. lateJoin' \in [Channel -> Nat]
    BY <1>5 DEF LateJoin, TypeOK
  <2>3. QED
    BY <1>5, <2>1, <2>2 DEF LateJoin, TypeOK, serverVars
<1>6. ASSUME NEW c \in Channel, KickForgotten(c)
      PROVE  TypeOK'
  <2>1. kick_history' \in [Channel -> Nat]
    BY <1>6 DEF KickForgotten, TypeOK
  <2>2. QED
    BY <1>6, <2>1 DEF KickForgotten, TypeOK, serverVars
<1>7. ASSUME NEW c \in Channel, Operator(c)
      PROVE  TypeOK'
  <2>1. toServer' \in Seq(Command)
    BY <1>7, CommandSent DEF Operator, TypeOK
  <2>2. configured' \subseteq Channel /\ startup_file' \in BOOLEAN /\ changes' \in Nat
    <3>1. configured' \subseteq Channel /\ changes' \in Nat
      BY <1>7 DEF Operator, TypeOK
    <3>2. startup_file' = startup_file \/ startup_file' = TRUE
      BY <1>7 DEF Operator
    <3>3. startup_file \in BOOLEAN
      BY DEF TypeOK
    <3>4. QED
      BY <3>1, <3>2, <3>3
  <2>3. /\ startup' = startup /\ replay' = replay /\ toBot' = toBot /\ joined' = joined
        /\ startup_thread' = startup_thread /\ startup_done' = startup_done
        /\ kick_history' = kick_history /\ rejoin' = rejoin /\ lateJoin' = lateJoin
        /\ asked' = asked /\ members' = members /\ banned' = banned /\ invited' = invited
        /\ ourNick' = ourNick /\ strangerSpoke' = strangerSpoke /\ kicks' = kicks
    BY <1>7 DEF Operator, botVars
  <2>4. QED
    BY <2>1, <2>2, <2>3 DEF TypeOK
<1>8. QED
  BY <1>1, <1>2, <1>3, <1>4, <1>5, <1>6, <1>7

LEMMA NetworkKeepsTypes ==
    ASSUME TypeOK,
           \/ Serve \/ Rename
           \/ \E c \in Channel : ChanServ(c) \/ Kick(c) \/ Ban(c) \/ Stranger(c)
    PROVE  TypeOK'
<1>1. ASSUME Serve
      PROVE  /\ toServer # << >> /\ toServer' = Tail(toServer)
             /\ Tail(toServer) \in Seq(Command) /\ Head(toServer).chan \in Channel
  <2>1. toServer \in Seq(Command) /\ toServer # << >> /\ toServer' = Tail(toServer)
    BY <1>1 DEF Serve, ServeJoin, ServePart, ServeInvite, TypeOK
  <2>2. Head(toServer) \in Command /\ Tail(toServer) \in Seq(Command)
    BY <2>1
  <2>3. QED
    BY <2>1, <2>2 DEF Command
<1>2. CASE ServeJoin
  <2>1. /\ toServer' \in Seq(Command) /\ Head(toServer).chan \in Channel
    BY <1>1, <1>2 DEF Serve
  <2>2. /\ members' \subseteq Channel /\ invited' \subseteq Channel
    BY <1>2, <2>1 DEF ServeJoin, TypeOK
  <2>3. toBot' \in Seq(Echo)
    <3>1. toBot' \in {toBot, Append(toBot, Own("JOIN", Head(toServer).chan))}
      BY <1>2 DEF ServeJoin
    <3>2. QED
      BY <2>1, <3>1, EchoTold DEF TypeOK
  <2>4. QED
    BY <1>2, <2>1, <2>2, <2>3 DEF ServeJoin, TypeOK, botVars
<1>3. CASE ServePart
  <2>1. /\ toServer' \in Seq(Command) /\ Head(toServer).chan \in Channel
    BY <1>1, <1>3 DEF Serve
  <2>2. members' \subseteq Channel
    BY <1>3 DEF ServePart, TypeOK
  <2>3. toBot' \in Seq(Echo)
    <3>1. toBot' \in {toBot, Append(toBot, Own("PART", Head(toServer).chan))}
      BY <1>3 DEF ServePart
    <3>2. QED
      BY <2>1, <3>1, EchoTold DEF TypeOK
  <2>4. QED
    BY <1>3, <2>1, <2>2, <2>3 DEF ServePart, TypeOK, botVars
<1>4. CASE ServeInvite
  BY <1>1, <1>4 DEF Serve, ServeInvite, TypeOK, botVars
<1>5. CASE Rename
  BY <1>5 DEF Rename, TypeOK, botVars
<1>6. ASSUME NEW c \in Channel, ChanServ(c)
      PROVE  TypeOK'
  BY <1>6 DEF ChanServ, TypeOK, botVars
<1>7. ASSUME NEW c \in Channel, Kick(c)
      PROVE  TypeOK'
  <2>1. toBot' \in Seq(Echo)
    <3>1. toBot' = Append(toBot, Own("KICK", c))
      BY <1>7 DEF Kick
    <3>2. QED
      BY <3>1, EchoTold
  <2>2. members' \subseteq Channel /\ kicks' \in Nat
    BY <1>7 DEF Kick, TypeOK
  <2>3. QED
    BY <1>7, <2>1, <2>2 DEF Kick, TypeOK, botVars
<1>8. ASSUME NEW c \in Channel, Ban(c)
      PROVE  TypeOK'
  BY <1>8 DEF Ban, TypeOK, botVars
<1>9. ASSUME NEW c \in Channel, Stranger(c)
      PROVE  TypeOK'
  <2>1. toBot' \in Seq(Echo)
    <3>1. PICK cmd \in {"JOIN", "PART", "KICK"} :
             toBot' = Append(toBot, [cmd |-> cmd, nick |-> "tmp", chan |-> c, own |-> FALSE])
      BY <1>9 DEF Stranger
    <3>2. QED
      BY <3>1, EchoTold
  <2>2. changes' \in Nat
    BY <1>9 DEF Stranger, TypeOK
  <2>3. QED
    BY <1>9, <2>1, <2>2 DEF Stranger, TypeOK, botVars
<1>10. QED
  BY <1>2, <1>3, <1>4, <1>5, <1>6, <1>7, <1>8, <1>9 DEF Serve

LEMMA TypesStep == TypeOK /\ [Next]_vars => TypeOK'
<1> SUFFICES ASSUME TypeOK, [Next]_vars PROVE TypeOK'
  OBVIOUS
<1>1. CASE Next
  BY <1>1, ReaderKeepsTypes, ThreadsKeepTypes, NetworkKeepsTypes DEF Next
<1>2. CASE UNCHANGED vars
  BY <1>2 DEF vars, botVars, serverVars, TypeOK
<1>3. QED
  BY <1>1, <1>2

(* The state of the channels is well typed: bot.py's `joined`, its kick     *)
(* history and its timers, and what the network holds.                      *)
THEOREM ChannelsTypeCorrect == Spec => []TypeOK
BY TypesInit, TypesStep, PTL DEF Spec

-----------------------------------------------------------------------------
(* No more rejoins under way than KICK_MAX.  A timer under way is of a kick *)
(* the window still counts, which bounds their number when one is started:  *)
(* the count itself goes past KICK_MAX, with each kick given up on.         *)
TimersCounted ==
    \A c \in Channel : rejoin[c] + lateJoin[c] <= kick_history[c] /\ rejoin[c] + lateJoin[c] <= KICK_MAX

LEMMA TimersInit == Init => TimersCounted
BY ChannelsAssumption DEF Init, TimersCounted

LEMMA TimersStep == TypeOK /\ TimersCounted /\ [Next]_vars => TimersCounted'
<1> SUFFICES ASSUME TypeOK, TimersCounted, [Next]_vars PROVE TimersCounted'
  OBVIOUS
<1> USE DEF TimersCounted
<1>1. \A c \in Channel : kick_history[c] \in Nat /\ rejoin[c] \in Nat /\ lateJoin[c] \in Nat
  BY DEF TypeOK
<1>2. CASE ReadKick
  <2> DEFINE k == Head(toBot).chan
  <2>1. UNCHANGED lateJoin
    BY <1>2 DEF ReadKick, Reads
  <2>2. ASSUME Head(toBot).nick = "NICK", kick_history[k] + 1 <= KICK_MAX
        PROVE  /\ kick_history' = [kick_history EXCEPT ![k] = @ + 1]
               /\ rejoin' = [rejoin EXCEPT ![k] = @ + 1]
    <3>1. k \in Channel
      BY <1>2, LineRead DEF ReadKick
    <3>2. ~(kick_history[k] + 1 > KICK_MAX)
      BY <1>1, <2>2, <3>1, ChannelsAssumption
    <3>3. QED
      BY <1>2, <2>2, <3>2 DEF ReadKick
  <2>3. ASSUME Head(toBot).nick # "NICK" \/ kick_history[k] + 1 > KICK_MAX
        PROVE  /\ UNCHANGED rejoin
               /\ kick_history' \in {kick_history, [kick_history EXCEPT ![k] = @ + 1]}
    BY <1>2, <2>3 DEF ReadKick
  <2>4. k \in Channel
    BY <1>2, LineRead DEF ReadKick
  <2> HIDE DEF k
  <2>5. CASE Head(toBot).nick = "NICK" /\ kick_history[k] + 1 <= KICK_MAX
    <3>1. KICK_MAX \in Nat /\ kick_history \in [Channel -> Nat] /\ rejoin \in [Channel -> Nat]
      BY ChannelsAssumption DEF TypeOK
    <3>2. ASSUME NEW c \in Channel
          PROVE  /\ kick_history'[c] = IF c = k THEN kick_history[c] + 1 ELSE kick_history[c]
                 /\ rejoin'[c] = IF c = k THEN rejoin[c] + 1 ELSE rejoin[c]
                 /\ lateJoin'[c] = lateJoin[c]
      BY <2>1, <2>2, <2>5, <3>1
    <3>3. QED
      BY <1>1, <2>5, <3>1, <3>2
  <2>6. CASE ~(Head(toBot).nick = "NICK" /\ kick_history[k] + 1 <= KICK_MAX)
    <3>1. Head(toBot).nick # "NICK" \/ kick_history[k] + 1 > KICK_MAX
      BY <1>1, <2>4, <2>6, ChannelsAssumption
    <3>2. QED
      <4>1. kick_history \in [Channel -> Nat]
        BY DEF TypeOK
      <4>2. ASSUME NEW c \in Channel
            PROVE  /\ kick_history'[c] \in {kick_history[c], kick_history[c] + 1}
                   /\ rejoin'[c] = rejoin[c] /\ lateJoin'[c] = lateJoin[c]
        BY <2>1, <2>3, <3>1, <4>1
      <4>3. QED
        BY <1>1, <4>2, ChannelsAssumption
  <2>7. QED
    BY <2>5, <2>6
<1>3. ASSUME NEW c \in Channel, Rejoin(c)
      PROVE  TimersCounted'
  BY <1>1, <1>3 DEF Rejoin, TypeOK
<1>4. ASSUME NEW c \in Channel, LateJoin(c)
      PROVE  TimersCounted'
  BY <1>1, <1>4, ChannelsAssumption DEF LateJoin, TypeOK
<1>5. ASSUME NEW c \in Channel, KickForgotten(c)
      PROVE  TimersCounted'
  BY <1>1, <1>5 DEF KickForgotten, TypeOK
<1>6. ASSUME UNCHANGED <<kick_history, rejoin, lateJoin>>
      PROVE  TimersCounted'
  BY <1>6
<1>7. ASSUME ReadJoin \/ ReadPart \/ Startup \/ Converge \/ ConvergeReplays \/ Serve \/ Rename
      PROVE  UNCHANGED <<kick_history, rejoin, lateJoin>>
  BY <1>7 DEF ReadJoin, ReadPart, Reads, Startup, Converge, ConvergeReplays, Serve, ServeJoin,
              ServePart, ServeInvite, Rename, botVars
<1>8. ASSUME NEW c \in Channel, Operator(c) \/ ChanServ(c) \/ Kick(c) \/ Ban(c) \/ Stranger(c)
      PROVE  UNCHANGED <<kick_history, rejoin, lateJoin>>
  BY <1>8 DEF Operator, ChanServ, Kick, Ban, Stranger, botVars
<1>9. CASE UNCHANGED vars
  BY <1>6, <1>9 DEF vars, botVars
<1>10. QED
  BY <1>2, <1>3, <1>4, <1>5, <1>6, <1>7, <1>8, <1>9 DEF Next, handle_server_line

(* Never more rejoins of a channel under way than the window's KICK_MAX     *)
(* (bot.py, the KICK handler and _rejoin), however kicks and windows fall.  *)
THEOREM RejoinsAlwaysBounded == Spec => []RejoinsBounded
<1>1. Spec => [](TypeOK /\ TimersCounted)
  BY TypesInit, TypesStep, TimersInit, TimersStep, PTL DEF Spec
<1>2. TimersCounted => RejoinsBounded
  BY DEF TimersCounted, RejoinsBounded
<1>3. QED
  BY <1>1, <1>2, PTL

-----------------------------------------------------------------------------
(* Where we are, as the unread lines tell it.  The bot recognises its own   *)
(* lines because a nick of ours that is not the configured one is the       *)
(* fallback it registered with; and a line it takes for its own without     *)
(* being so is a stranger's.                                                *)
Recognised ==
    /\ ourNick = "tmp" => Fallback
    /\ \A i \in 1 .. Len(toBot) : toBot[i].own => _is_me(toBot[i].nick)
    /\ strangerSpoke \/ \A i \in 1 .. Len(toBot) : toBot[i].own

\* The last unread line about us in a channel, or `joined`, says where we are.
AboutUs(c, i) == i \in 1 .. Len(toBot) /\ toBot[i].own /\ toBot[i].chan = c

LastWord(c) ==
    \/ (\A i \in 1 .. Len(toBot) : ~AboutUs(c, i)) /\ (c \in members <=> c \in joined)
    \/ \E i \in 1 .. Len(toBot) :
          /\ AboutUs(c, i)
          /\ \A j \in 1 .. Len(toBot) : AboutUs(c, j) => j <= i
          /\ c \in members <=> toBot[i].cmd = "JOIN"

Placed == strangerSpoke \/ \A c \in Channel : LastWord(c)

LEMMA PlacedIsMembership == TypeOK /\ Placed => JoinedIsMembershipAlone
<1> SUFFICES ASSUME TypeOK, ~strangerSpoke, \A c \in Channel : LastWord(c)
             PROVE  JoinedIsMembership
  BY DEF JoinedIsMembershipAlone, Placed
<1> SUFFICES ASSUME NEW c \in Channel
             PROVE  LET about == {i \in DOMAIN toBot : toBot[i].own /\ toBot[i].chan = c}
                    IN c \in members <=>
                          IF about = {} THEN c \in joined
                          ELSE toBot[CHOOSE i \in about : \A j \in about : j <= i].cmd = "JOIN"
  BY DEF JoinedIsMembership
<1> DEFINE about == {i \in DOMAIN toBot : toBot[i].own /\ toBot[i].chan = c}
<1>1. DOMAIN toBot = 1 .. Len(toBot) /\ Len(toBot) \in Nat
  BY DEF TypeOK
<1>2. \A i : i \in about <=> AboutUs(c, i)
  BY <1>1 DEF AboutUs
<1> HIDE DEF about
<1>3. CASE about = {}
  <2>1. \A i : ~AboutUs(c, i)
    BY <1>2, <1>3
  <2>2. c \in members <=> c \in joined
    BY <2>1 DEF LastWord
  <2>3. QED
    BY <1>3, <2>2 DEF about
<1>4. CASE about # {}
  <2>1. PICK i \in 1 .. Len(toBot) :
          /\ i \in about
          /\ \A j \in about : j <= i
          /\ c \in members <=> toBot[i].cmd = "JOIN"
    BY <1>2, <1>4 DEF LastWord, AboutUs
  <2>2. ASSUME NEW k \in about, \A j \in about : j <= k
        PROVE  k = i
    <3>1. k \in 1 .. Len(toBot)
      BY <1>2 DEF AboutUs
    <3>2. k <= i /\ i <= k
      BY <2>1, <2>2
    <3>3. QED
      BY <1>1, <3>1, <3>2
  <2>3. i = CHOOSE k \in about : \A j \in about : j <= k
    BY <2>1, <2>2
  <2>4. QED
    BY <1>4, <2>1, <2>3 DEF about
<1>5. QED
  BY <1>3, <1>4 DEF about

LEMMA RecognisedStep == TypeOK /\ Recognised /\ [Next]_vars => Recognised'
<1> SUFFICES ASSUME TypeOK, Recognised, [Next]_vars PROVE Recognised'
  OBVIOUS
<1>1. toBot \in Seq(Echo) /\ Len(toBot) \in Nat /\ ourNick \in {"NICK", "tmp"}
  BY DEF TypeOK
<1>2. \A i \in 1 .. Len(toBot) : toBot[i].own => _is_me(toBot[i].nick)
  BY DEF Recognised
<1>3. (strangerSpoke => strangerSpoke') /\ (ourNick' = "tmp" => ourNick = "tmp")
  <2>1. ASSUME handle_server_line \/ Startup \/ Converge \/ ConvergeReplays \/ Serve
        PROVE  UNCHANGED <<strangerSpoke, ourNick>>
    BY <2>1 DEF handle_server_line, ReadJoin, ReadPart, ReadKick, Reads, Startup, Converge,
                ConvergeReplays, Serve, ServeJoin, ServePart, ServeInvite, serverVars
  <2>2. ASSUME NEW c \in Channel, Rejoin(c) \/ LateJoin(c) \/ KickForgotten(c) \/ Operator(c)
                                  \/ ChanServ(c) \/ Kick(c) \/ Ban(c)
        PROVE  UNCHANGED <<strangerSpoke, ourNick>>
    BY <2>2 DEF Rejoin, LateJoin, KickForgotten, Operator, ChanServ, Kick, Ban, serverVars
  <2>3. ASSUME NEW c \in Channel, Stranger(c)
        PROVE  strangerSpoke' = TRUE /\ UNCHANGED ourNick
    BY <2>3 DEF Stranger
  <2>4. ASSUME Rename
        PROVE  UNCHANGED strangerSpoke /\ ourNick' = "NICK"
    BY <2>4 DEF Rename
  <2>5. CASE UNCHANGED vars
    BY <2>5 DEF vars, serverVars
  <2>6. ASSUME UNCHANGED <<strangerSpoke, ourNick>>
        PROVE  (strangerSpoke => strangerSpoke') /\ (ourNick' = "tmp" => ourNick = "tmp")
    BY <2>6
  <2>7. ASSUME Next
        PROVE  \/ UNCHANGED <<strangerSpoke, ourNick>>
               \/ strangerSpoke' = TRUE /\ UNCHANGED ourNick
               \/ UNCHANGED strangerSpoke /\ ourNick' = "NICK"
    BY <2>1, <2>2, <2>3, <2>4, <2>7 DEF Next
  <2>8. ASSUME strangerSpoke' = TRUE, UNCHANGED ourNick
        PROVE  (strangerSpoke => strangerSpoke') /\ (ourNick' = "tmp" => ourNick = "tmp")
    BY <2>8
  <2>9. ASSUME UNCHANGED strangerSpoke, ourNick' = "NICK"
        PROVE  (strangerSpoke => strangerSpoke') /\ (ourNick' = "tmp" => ourNick = "tmp")
    BY <2>9
  <2>10. QED
    BY <2>5, <2>6, <2>7, <2>8, <2>9
<1>4. ASSUME toBot # << >>, toBot' = Tail(toBot)
      PROVE  Recognised'
  <2>1. Len(toBot') = Len(toBot) - 1 /\ \A i \in 1 .. Len(toBot') : toBot'[i] = toBot[i + 1]
    BY <1>1, <1>4
  <2>2. \A i \in 1 .. Len(toBot') : i + 1 \in 1 .. Len(toBot)
    BY <1>1, <2>1
  <2>3. QED
    BY <1>3, <2>1, <2>2 DEF Recognised, _is_me
<1>5. ASSUME NEW l \in Echo, toBot' = Append(toBot, l),
             l.own => _is_me(l.nick), l.own \/ strangerSpoke'
      PROVE  Recognised'
  <2>1. /\ Len(toBot') = Len(toBot) + 1 /\ toBot'[Len(toBot) + 1] = l
        /\ \A i \in 1 .. Len(toBot) : toBot'[i] = toBot[i]
    BY <1>1, <1>5
  <2>2. \A i \in 1 .. Len(toBot') : i \in 1 .. Len(toBot) \/ i = Len(toBot) + 1
    BY <1>1, <2>1
  <2>3. QED
    BY <1>3, <1>5, <2>1, <2>2 DEF Recognised, _is_me
<1>6. ASSUME UNCHANGED toBot
      PROVE  Recognised'
  BY <1>3, <1>6 DEF Recognised, _is_me
<1>7. ASSUME NEW c \in Channel, NEW cmd \in {"JOIN", "PART", "KICK"},
             toBot' = Append(toBot, Own(cmd, c))
      PROVE  Recognised'
  <2>1. Own(cmd, c) \in Echo /\ Own(cmd, c).own /\ Own(cmd, c).nick = ourNick
    BY <1>1 DEF Own, Echo
  <2>2. _is_me(ourNick)
    BY <1>1 DEF Recognised, _is_me
  <2>3. QED
    BY <1>5, <1>7, <2>1, <2>2
<1>8. CASE handle_server_line
  BY <1>4, <1>8 DEF handle_server_line, ReadJoin, ReadPart, ReadKick, Reads
<1>9. ASSUME Startup \/ Converge \/ ConvergeReplays \/ Rename \/ ServeInvite
      PROVE  Recognised'
  BY <1>6, <1>9 DEF Startup, Converge, ConvergeReplays, Rename, ServeInvite
<1>10. ASSUME ServeJoin \/ ServePart
      PROVE  Recognised'
  <2>1. Head(toServer).chan \in Channel
    <3>1. toServer \in Seq(Command) /\ toServer # << >>
      BY <1>10 DEF ServeJoin, ServePart, TypeOK
    <3>2. Head(toServer) \in Command
      BY <3>1
    <3>3. QED
      BY <3>2 DEF Command
  <2>2. \E cmd \in {"JOIN", "PART"} : toBot' \in {toBot, Append(toBot, Own(cmd, Head(toServer).chan))}
    BY <1>10 DEF ServeJoin, ServePart
  <2>3. QED
    BY <1>6, <1>7, <2>1, <2>2
<1>11. ASSUME NEW c \in Channel, Rejoin(c) \/ LateJoin(c) \/ KickForgotten(c) \/ Operator(c)
                                 \/ ChanServ(c) \/ Ban(c)
      PROVE  Recognised'
  BY <1>6, <1>11 DEF Rejoin, LateJoin, KickForgotten, Operator, ChanServ, Ban
<1>12. ASSUME NEW c \in Channel, Kick(c)
      PROVE  Recognised'
  BY <1>7, <1>12 DEF Kick
<1>13. ASSUME NEW c \in Channel, Stranger(c)
      PROVE  Recognised'
  <2>1. PICK cmd \in {"JOIN", "PART", "KICK"} :
           toBot' = Append(toBot, [cmd |-> cmd, nick |-> "tmp", chan |-> c, own |-> FALSE])
    BY <1>13 DEF Stranger
  <2>2. [cmd |-> cmd, nick |-> "tmp", chan |-> c, own |-> FALSE] \in Echo
    BY DEF Echo
  <2>3. QED
    BY <1>5, <1>13, <2>1, <2>2 DEF Stranger
<1>14. CASE UNCHANGED vars
  BY <1>6, <1>14 DEF vars
<1>15. QED
  BY <1>8, <1>9, <1>10, <1>11, <1>12, <1>13, <1>14 DEF Next, Serve

\* A line about us is added as the server moves us.
LEMMA MovedAndTold ==
    ASSUME TypeOK, Placed, NEW k \in Channel, NEW cmd \in {"JOIN", "PART", "KICK"},
           toBot' = Append(toBot, Own(cmd, k)), UNCHANGED <<joined, strangerSpoke>>,
           members' = IF cmd = "JOIN" THEN members \cup {k} ELSE members \ {k}
    PROVE  Placed'
<1> SUFFICES ASSUME ~strangerSpoke, NEW c \in Channel PROVE LastWord(c)'
  BY DEF Placed
<1>1. LastWord(c)
  BY DEF Placed
<1>2. toBot \in Seq(Echo) /\ Own(cmd, k) \in Echo /\ Len(toBot) \in Nat
  BY DEF TypeOK, Own, Echo
<1>3. Own(cmd, k).own /\ Own(cmd, k).chan = k /\ Own(cmd, k).cmd = cmd
  BY DEF Own
<1>4. /\ Len(toBot') = Len(toBot) + 1 /\ toBot'[Len(toBot) + 1] = Own(cmd, k)
      /\ \A i \in 1 .. Len(toBot) : toBot'[i] = toBot[i]
  BY <1>2
<1>5. \A i : AboutUs(c, i)' <=> AboutUs(c, i) \/ (i = Len(toBot) + 1 /\ c = k)
  BY <1>2, <1>3, <1>4 DEF AboutUs
<1>6. CASE c = k
  <2> SUFFICES ASSUME NEW n \in Nat, n = Len(toBot) + 1 PROVE LastWord(c)'
    BY <1>2
  <2>1. n \in 1 .. Len(toBot') /\ AboutUs(c, n)' /\ \A j \in 1 .. Len(toBot') : j <= n
    <3>1. Len(toBot') \in Nat /\ n \in 1 .. Len(toBot') /\ \A j \in 1 .. Len(toBot') : j <= n
      BY <1>2, <1>4
    <3>2. AboutUs(c, n)'
      BY <1>5, <1>6
    <3>3. QED
      BY <3>1, <3>2
  <2>2. c \in members' <=> toBot'[n].cmd = "JOIN"
    BY <1>3, <1>4, <1>6
  <2>3. QED
    BY <2>1, <2>2 DEF LastWord
<1>7. CASE c # k
  <2>1. c \in members' <=> c \in members
    BY <1>7
  <2>2. \A i : AboutUs(c, i)' <=> AboutUs(c, i)
    BY <1>5, <1>7
  <2>3. \A i : AboutUs(c, i) => i \in 1 .. Len(toBot) /\ i \in 1 .. Len(toBot') /\ toBot'[i] = toBot[i]
    BY <1>2, <1>4 DEF AboutUs
  <2>4. \A i : AboutUs(c, i)' => AboutUs(c, i)
    BY <2>2
  <2>5. QED
    BY <1>1, <2>1, <2>2, <2>3 DEF LastWord
<1>8. QED
  BY <1>6, <1>7

\* The reader reads a line: its word, if it was the last, is now `joined`.
LEMMA WordRead ==
    ASSUME TypeOK, Recognised, Placed, handle_server_line
    PROVE  Placed'
<1>1. PICK cmd \in {"JOIN", "PART", "KICK"} : Reads(cmd)
  BY DEF handle_server_line, ReadJoin, ReadPart, ReadKick
<1>2. UNCHANGED <<members, strangerSpoke>> /\ toBot' = Tail(toBot) /\ toBot # << >>
  BY <1>1 DEF Reads, serverVars
<1> DEFINE k == Head(toBot).chan
<1> SUFFICES ASSUME ~strangerSpoke, NEW c \in Channel PROVE LastWord(c)'
  BY <1>2 DEF Placed
<1>3. LastWord(c)
  BY DEF Placed
<1>4. toBot \in Seq(Echo) /\ Len(toBot) \in Nat /\ Head(toBot) = toBot[1] /\ 1 \in 1 .. Len(toBot)
  BY <1>2 DEF TypeOK
<1>5. /\ Len(toBot') = Len(toBot) - 1
      /\ \A i \in 1 .. Len(toBot') : toBot'[i] = toBot[i + 1]
  BY <1>2, <1>4
<1>6. toBot[1].own /\ _is_me(toBot[1].nick)
  BY <1>4 DEF Recognised
<1>7. joined' = IF toBot[1].cmd = "JOIN" THEN joined \cup {k} ELSE joined \ {k}
  BY <1>4, <1>6 DEF handle_server_line, ReadJoin, ReadPart, ReadKick, Reads
<1>8. k = toBot[1].chan
  BY <1>4
<1> HIDE DEF k
<1>9. \A i \in Nat : AboutUs(c, i)' <=> AboutUs(c, i + 1) /\ i \in 1 .. Len(toBot')
  BY <1>4, <1>5 DEF AboutUs
<1>10. \A i : AboutUs(c, i) => i = 1 \/ (i - 1 \in 1 .. Len(toBot') /\ i - 1 \in Nat /\ i \in Nat)
  BY <1>4, <1>5 DEF AboutUs
<1>11. \A i \in 1 .. Len(toBot') : i \in Nat
  BY <1>4, <1>5
<1>12. CASE \A i \in 1 .. Len(toBot) : ~AboutUs(c, i)
  <2>1. c # k
    BY <1>4, <1>6, <1>8, <1>12 DEF AboutUs
  <2>2. c \in members <=> c \in joined
    BY <1>3, <1>12 DEF LastWord
  <2>3. \A i \in 1 .. Len(toBot') : ~AboutUs(c, i)'
    BY <1>9, <1>11, <1>12 DEF AboutUs
  <2>4. c \in members' <=> c \in joined'
    BY <1>2, <1>7, <2>1, <2>2
  <2>5. QED
    BY <2>3, <2>4 DEF LastWord
<1>13. ASSUME NEW i \in 1 .. Len(toBot), AboutUs(c, i),
              \A j \in 1 .. Len(toBot) : AboutUs(c, j) => j <= i,
              c \in members <=> toBot[i].cmd = "JOIN"
       PROVE  LastWord(c)'
  <2>1. CASE i = 1
    <3>1. c = k
      BY <1>8, <1>13, <2>1 DEF AboutUs
    <3>2. \A j \in 1 .. Len(toBot') : ~AboutUs(c, j)'
      <4> SUFFICES ASSUME NEW j \in 1 .. Len(toBot'), AboutUs(c, j + 1) PROVE FALSE
        BY <1>9, <1>11
      <4>1. j + 1 \in 1 .. Len(toBot)
        BY DEF AboutUs
      <4>2. j + 1 <= 1
        BY <1>13, <2>1, <4>1
      <4>3. QED
        BY <1>11, <4>2
    <3>3. c \in members' <=> c \in joined'
      BY <1>2, <1>7, <1>13, <2>1, <3>1
    <3>4. QED
      BY <3>2, <3>3 DEF LastWord
  <2>2. CASE i # 1
    <3>1. i - 1 \in 1 .. Len(toBot') /\ i - 1 \in Nat
      BY <1>10, <1>13, <2>2
    <3>2. AboutUs(c, i - 1)'
      <4>1. (i - 1) + 1 = i
        BY <1>4
      <4>2. QED
        BY <1>9, <1>13, <3>1, <4>1
    <3>3. ASSUME NEW j \in 1 .. Len(toBot'), AboutUs(c, j)'
          PROVE  j <= i - 1
      <4>1. AboutUs(c, j + 1)
        BY <1>9, <1>11, <3>3
      <4>2. j + 1 \in 1 .. Len(toBot)
        BY <4>1 DEF AboutUs
      <4>3. j + 1 <= i
        BY <1>13, <4>1, <4>2
      <4>4. QED
        BY <1>11, <4>3, <3>1
    <3>4. toBot'[i - 1] = toBot[i]
      <4>1. (i - 1) + 1 = i
        BY <1>4
      <4>2. QED
        BY <1>5, <3>1, <4>1
    <3>5. c \in members' <=> toBot'[i - 1].cmd = "JOIN"
      BY <1>2, <1>13, <3>4
    <3>6. QED
      BY <3>1, <3>2, <3>3, <3>5 DEF LastWord
  <2>3. QED
    BY <2>1, <2>2
<1>14. QED
  BY <1>3, <1>12, <1>13 DEF LastWord

LEMMA PlacedStep == TypeOK /\ Recognised /\ Placed /\ [Next]_vars => Placed'
<1> SUFFICES ASSUME TypeOK, Recognised, Placed, [Next]_vars PROVE Placed'
  OBVIOUS
<1>1. ASSUME UNCHANGED <<toBot, joined, members, strangerSpoke>>
      PROVE  Placed'
  BY <1>1 DEF Placed, LastWord, AboutUs
<1>2. ASSUME Startup \/ Converge \/ ConvergeReplays \/ Rename \/ ServeInvite
      PROVE  Placed'
  <2>1. UNCHANGED <<toBot, joined, members, strangerSpoke>>
    BY <1>2 DEF Startup, Converge, ConvergeReplays, Rename, ServeInvite, botVars, serverVars
  <2>2. QED
    BY <1>1, <2>1
<1>3. ASSUME NEW c \in Channel, Rejoin(c) \/ LateJoin(c) \/ KickForgotten(c) \/ Operator(c)
                                \/ ChanServ(c) \/ Ban(c)
      PROVE  Placed'
  <2>1. UNCHANGED <<toBot, joined, members, strangerSpoke>>
    BY <1>3 DEF Rejoin, LateJoin, KickForgotten, Operator, ChanServ, Ban, botVars, serverVars
  <2>2. QED
    BY <1>1, <2>1
<1>4. CASE ServeJoin \/ ServePart
  <2> DEFINE k == Head(toServer).chan
  <2>1. k \in Channel
    <3>1. toServer \in Seq(Command) /\ toServer # << >>
      BY <1>4 DEF ServeJoin, ServePart, TypeOK
    <3>2. Head(toServer) \in Command
      BY <3>1
    <3>3. QED
      BY <3>2 DEF Command
  <2>2. UNCHANGED <<joined, strangerSpoke>>
    BY <1>4 DEF ServeJoin, ServePart, botVars
  <2>3. \/ UNCHANGED <<toBot, members>>
        \/ toBot' = Append(toBot, Own("JOIN", k)) /\ members' = members \cup {k}
        \/ toBot' = Append(toBot, Own("PART", k)) /\ members' = members \ {k}
    BY <1>4 DEF ServeJoin, ServePart
  <2> HIDE DEF k
  <2>4. CASE UNCHANGED <<toBot, members>>
    BY <1>1, <2>2, <2>4
  <2>5. CASE toBot' = Append(toBot, Own("JOIN", k)) /\ members' = members \cup {k}
    BY <2>1, <2>2, <2>5, MovedAndTold
  <2>6. CASE toBot' = Append(toBot, Own("PART", k)) /\ members' = members \ {k}
    BY <2>1, <2>2, <2>6, MovedAndTold
  <2>7. QED
    BY <2>3, <2>4, <2>5, <2>6
<1>5. ASSUME NEW c \in Channel, Kick(c)
      PROVE  Placed'
  <2>1. /\ toBot' = Append(toBot, Own("KICK", c)) /\ members' = members \ {c}
        /\ UNCHANGED <<joined, strangerSpoke>>
    BY <1>5 DEF Kick, botVars
  <2>2. QED
    BY <2>1, MovedAndTold
<1>6. ASSUME NEW c \in Channel, Stranger(c)
      PROVE  Placed'
  BY <1>6 DEF Stranger, Placed
<1>7. CASE UNCHANGED vars
  BY <1>1, <1>7 DEF vars, botVars, serverVars
<1>8. CASE handle_server_line
  BY <1>8, WordRead
<1>9. QED
  BY <1>2, <1>3, <1>4, <1>5, <1>6, <1>7, <1>8 DEF Next, Serve

LEMMA MembershipInit == Init => Recognised /\ Placed
<1> SUFFICES ASSUME Init PROVE Recognised /\ Placed
  OBVIOUS
<1>1. toBot = << >> /\ Len(toBot) = 0
  BY DEF Init
<1>2. ourNick = "tmp" => Fallback
  BY DEF Init
<1>3. QED
  BY <1>1, <1>2 DEF Init, Recognised, Placed, LastWord

(* What bot.py believes of its channels is where it is, once what was sent  *)
(* is read: true of any channels, kicks, bans and commands, as long as      *)
(* nobody takes up the throwaway nick given back.                           *)
THEOREM JoinedAlwaysMembership == Spec => []JoinedIsMembershipAlone
<1>1. Spec => [](TypeOK /\ Recognised /\ Placed)
  BY TypesInit, TypesStep, MembershipInit, RecognisedStep, PlacedStep, PTL DEF Spec
<1>2. QED
  BY <1>1, PlacedIsMembership, PTL

-----------------------------------------------------------------------------
(* LeakGuard: types, for any instances, texts and bounds.                   *)

\* The threads are finitely many, and so a file is free when a name is.
Files == LET n == Cardinality(Thread) IN n \in Nat /\ File = 1 .. 2 + n

LEMMA ThreadsAndFiles == IsFiniteSet(Thread) /\ Files
<1>1. IsFiniteSet({"reader", "writer"})
  <2>1. IsFiniteSet({"reader"}) /\ IsFiniteSet({"writer"})
    BY FS_Singleton
  <2>2. {"reader", "writer"} = {"reader"} \cup {"writer"}
    OBVIOUS
  <2>3. QED
    BY <2>1, <2>2, FS_Union
<1>2. IsFiniteSet(Thread)
  BY <1>1, LeakAssumption, FS_Product DEF Thread
<1>3. QED
  BY <1>2, FS_CardinalityType DEF Files, File

LEMMA FreeFile ==
    ASSUME NEW names, NEW jobs \in [Thread -> Job], IsFiniteSet(names), Cardinality(names \ {0}) < 2
    PROVE  \E f \in File : f \notin Live(names, jobs)
<1> DEFINE fd == [th \in Thread |-> jobs[th].fd]
           open == {jobs[th].fd : th \in Thread}
           used == (names \ {0}) \cup open
<1>1. IsFiniteSet(Thread) /\ Cardinality(Thread) \in Nat /\ File = 1 .. 2 + Cardinality(Thread)
  BY ThreadsAndFiles DEF Files
<1>2. IsFiniteSet(open) /\ Cardinality(open) <= Cardinality(Thread) /\ Cardinality(open) \in Nat
  <2>1. fd \in Surjection(Thread, open)
    BY DEF Surjection
  <2> HIDE DEF fd, open
  <2>2. QED
    BY <1>1, <2>1, FS_Surjection, FS_CardinalityType
<1>3. IsFiniteSet(names \ {0}) /\ Cardinality(names \ {0}) \in Nat
  BY FS_Subset, FS_CardinalityType
<1>4. IsFiniteSet(used) /\ Cardinality(used) \in Nat /\ Cardinality(used) <= Cardinality(Thread) + 1
  <2> HIDE DEF open
  <2>1. /\ IsFiniteSet(used)
        /\ Cardinality(used) = Cardinality(names \ {0}) + Cardinality(open)
                                 - Cardinality((names \ {0}) \cap open)
    BY <1>2, <1>3, FS_Union
  <2>2. IsFiniteSet((names \ {0}) \cap open) /\ Cardinality((names \ {0}) \cap open) \in Nat
    BY <1>2, FS_Subset, FS_CardinalityType
  <2> HIDE DEF used
  <2>3. Cardinality(used) \in Nat
    BY <2>1, FS_CardinalityType
  <2>4. QED
    BY <1>1, <1>2, <1>3, <2>1, <2>2, <2>3
<1>5. IsFiniteSet(File) /\ Cardinality(File) = 2 + Cardinality(Thread)
  BY <1>1, FS_Interval
<1>6. ~(File \subseteq used)
  <2> HIDE DEF used
  <2>1. CASE File \subseteq used
    <3>1. Cardinality(File) <= Cardinality(used)
      BY <1>4, <2>1, FS_Subset
    <3>2. QED
      BY <1>1, <1>4, <1>5, <3>1
  <2>2. QED
    BY <2>1
<1>7. QED
  BY <1>1, <1>6 DEF Live

\* The k-th fresh line of a file is one of them, and each is the k-th for some k.
LEMMA FreshLinesProperties ==
    ASSUME LeakTypeOK, NEW file \in File \cup {0}
    PROVE  /\ Lines(file) \in Seq(Entry) /\ FreshLines(file) \in Seq(Entry)
           /\ \A e \in Entry : Contains(Lines(file), e) /\ Fresh(e) => Contains(FreshLines(file), e)
<1> DEFINE s == Lines(file)
           fresh == {i \in DOMAIN Lines(file) : Fresh(Lines(file)[i])}
           upTo(i) == Cardinality({j \in fresh : j <= i})
           n == Cardinality(fresh)
           rank == [i \in fresh |-> upTo(i)]
<1>1. s \in Seq(Entry) /\ Len(s) \in Nat /\ DOMAIN s = 1 .. Len(s)
  BY DEF LeakTypeOK, Lines
<1>2. IsFiniteSet(fresh) /\ n \in Nat /\ fresh \subseteq 1 .. Len(s)
  <2>1. IsFiniteSet(1 .. Len(s)) /\ fresh \subseteq 1 .. Len(s)
    BY <1>1, FS_Interval
  <2> HIDE DEF fresh, s
  <2>2. QED
    BY <2>1, FS_Subset, FS_CardinalityType
<1>3. FreshLines(file) = [k \in 1 .. n |-> s[CHOOSE i \in fresh : upTo(i) = k]]
  BY DEF FreshLines
<1>4. \A i \in fresh : s[i] \in Entry
  BY <1>1, <1>2
<1>4a. \A i \in 1 .. Len(s) : Fresh(s[i]) => i \in fresh
  BY <1>1
<1> HIDE DEF s, fresh, n
<1>5. ASSUME NEW i \in fresh
      PROVE  /\ IsFiniteSet({j \in fresh : j <= i}) /\ upTo(i) \in 1 .. n
             /\ \A k \in fresh : upTo(k) = upTo(i) => k = i
  <2> DEFINE below(k) == {j \in fresh : j <= k}
  <2>1. \A k \in fresh : IsFiniteSet(below(k)) /\ Cardinality(below(k)) \in Nat
                         /\ Cardinality(below(k)) <= n
    BY <1>2, FS_Subset, FS_CardinalityType DEF n
  <2>2. i \in below(i)
    BY <1>2
  <2>3. Cardinality(below(i)) # 0
    BY <2>1, <2>2, FS_EmptySet
  <2>4. ASSUME NEW k \in fresh, NEW m \in fresh, k < m
        PROVE  Cardinality(below(k)) # Cardinality(below(m))
    <3>1. below(k) \subseteq below(m)
      <4>1. \A j \in fresh : j \in Int
        BY <1>1, <1>2
      <4>2. \A j \in fresh : j <= k => j <= m
        BY <2>4, <4>1
      <4>3. QED
        BY <4>2
    <3>2. m \in below(m) /\ m \notin below(k)
      BY <1>2, <2>4
    <3>3. below(k) # below(m)
      BY <3>2
    <3> HIDE DEF below
    <3>4. QED
      BY <2>1, <3>1, <3>3, FS_Subset
  <2>5. ASSUME NEW k \in fresh, upTo(k) = upTo(i)
        PROVE  k = i
    <3>1. ~(k < i) /\ ~(i < k)
      BY <2>4, <2>5
    <3>2. QED
      BY <1>2, <3>1
  <2>6. QED
    BY <1>2, <2>1, <2>3, <2>5
<1>6. rank \in Injection(fresh, 1 .. n)
  <2>1. rank \in [fresh -> 1 .. n]
    BY <1>5
  <2>2. \A i, k \in fresh : rank[i] = rank[k] => i = k
    BY <1>5
  <2>3. QED
    BY <2>1, <2>2 DEF Injection, IsInjective
<1>7. rank \in Surjection(fresh, 1 .. n)
  <2>1. IsFiniteSet(1 .. n) /\ Cardinality(1 .. n) = n
    BY <1>2, FS_Interval
  <2> HIDE DEF rank
  <2>2. QED
    BY <1>6, <2>1, FS_Injection DEF n
<1>8. ASSUME NEW k \in 1 .. n
      PROVE  s[CHOOSE i \in fresh : upTo(i) = k] \in Entry
  <2>1. \E i \in fresh : upTo(i) = k
    BY <1>7 DEF Surjection
  <2> HIDE DEF upTo
  <2>2. (CHOOSE i \in fresh : upTo(i) = k) \in fresh
    BY <2>1
  <2>3. QED
    BY <1>4, <2>2
<1>9. FreshLines(file) \in Seq(Entry) /\ Len(FreshLines(file)) = n
  <2> HIDE DEF upTo
  <2>1. QED
    BY <1>2, <1>3, <1>8, SMTT(60)
<1>10. ASSUME NEW i \in 1 .. Len(s), Fresh(s[i])
       PROVE  Contains(FreshLines(file), s[i])
  <2>1. i \in fresh
    BY <1>4a, <1>10
  <2>2. upTo(i) \in 1 .. n
    BY <1>5, <2>1
  <2>3. (CHOOSE k \in fresh : upTo(k) = upTo(i)) = i
    <3>1. \A k \in fresh : upTo(k) = upTo(i) => k = i
      BY <1>5, <2>1
    <3> HIDE DEF upTo
    <3>2. QED
      BY <2>1, <3>1
  <2> HIDE DEF upTo
  <2>4. FreshLines(file)[upTo(i)] = s[i]
    BY <1>3, <2>2, <2>3
  <2>5. QED
    BY <1>9, <2>2, <2>4 DEF Contains
<1>11. QED
  BY <1>1, <1>9, <1>10 DEF Contains, s

\* A new file is one of the files, and nobody has it.
LEMMA NewFileFree ==
    ASSUME LeakTypeOK, store = 0 \/ tmp = 0
    PROVE  NewFile \in File /\ NewFile \notin Live({store, tmp}, job)
<1> DEFINE names == {store, tmp}
<1>1. IsFiniteSet(names) /\ Cardinality(names \ {0}) < 2
  <2>1. PICK x : names = {0, x}
    OBVIOUS
  <2>2. IsFiniteSet({0}) /\ IsFiniteSet({x}) /\ Cardinality({x}) = 1 /\ Cardinality({}) = 0
    BY FS_Singleton, FS_EmptySet
  <2>3. names = {0} \cup {x}
    BY <2>1
  <2>4. names \ {0} = {x} \/ names \ {0} = {}
    BY <2>1
  <2> HIDE DEF names
  <2>5. IsFiniteSet(names)
    BY <2>2, <2>3, FS_Union
  <2>6. QED
    BY <2>2, <2>4, <2>5
<1>2. \E f \in File : f \notin Live(names, job)
  <2> HIDE DEF names
  <2>1. job \in [Thread -> Job]
    BY DEF LeakTypeOK
  <2>2. QED
    BY <1>1, <2>1, FreeFile
<1>3. QED
  BY <1>2 DEF NewFile

\* What a thread has in hand stays well typed, field by field.
LEMMA JobFields ==
    /\ \A p \in Proc : NoJob(p) \in Job
    /\ \A j \in Job : /\ j.line \in Entry /\ j.target \in Target /\ j.fd \in File \cup {0}
                      /\ j.keep \in Seq(Entry) /\ j.known \subseteq Entry
    /\ \A j \in Job, f \in File \cup {0} : [j EXCEPT !.fd = f] \in Job
    /\ \A j \in Job, q \in Seq(Entry) : [j EXCEPT !.keep = q] \in Job
    /\ \A j \in Job, n \in Nat : [j EXCEPT !.line.time = n] \in Job
<1>1. \A p \in Proc : NoJob(p) \in Job
  <2>1. (CHOOSE t \in Text : TRUE) \in Text
    BY LeakAssumption
  <2>2. << >> \in Seq(Entry)
    OBVIOUS
  <2>3. QED
    BY <2>1, <2>2 DEF NoJob, Job, Entry, Target
<1>2. QED
  BY <1>1 DEF Job, Entry

FileTypes == store \in File \cup {0} /\ tmp \in File \cup {0} /\ content \in [File -> Seq(Entry)]
LockTypes ==
    /\ pc \in [Thread -> Label] /\ lock \in [Proc -> Thread \cup {Free}]
    /\ \A th \in Thread : Locked(th) <=> lock[ProcOf(th)] = th
HistoryTypes == clock \in Nat /\ heard \subseteq Entry /\ lines \in Nat /\ requests \in Nat

LEMMA LeakTypes == LeakTypeOK <=> FileTypes /\ LockTypes /\ job \in [Thread -> Job] /\ HistoryTypes
BY DEF LeakTypeOK, FileTypes, LockTypes, HistoryTypes

LEMMA LeakTypesNext ==
    LeakTypeOK' <=> FileTypes' /\ LockTypes' /\ job' \in [Thread -> Job] /\ HistoryTypes'
BY DEF LeakTypeOK, FileTypes, LockTypes, HistoryTypes, Locked

Holding == {"append", "size", "read", "tmp", "write", "replace"}

LEMMA ProcOfThread == \A th \in Thread : ProcOf(th) \in Proc /\ th # Free
BY DEF Thread, ProcOf, Free

LEMMA Stepped ==
    ASSUME LeakTypeOK, NEW th \in Thread, NEW from, NEW to \in Label, Step(th, from, to)
    PROVE  /\ pc[th] = from /\ pc'[th] = to /\ pc' \in [Thread -> Label]
           /\ \A o \in Thread : o # th => pc'[o] = pc[o]
BY DEF Step, LeakTypeOK

\* A step that neither takes nor lets go of the lock.
LEMMA LockKept ==
    ASSUME LeakTypeOK, NEW th \in Thread, NEW from, NEW to \in Label, Step(th, from, to),
           UNCHANGED lock, from \in Holding <=> to \in Holding
    PROVE  LockTypes'
<1>1. /\ pc[th] = from /\ pc'[th] = to /\ pc' \in [Thread -> Label]
      /\ \A o \in Thread : o # th => pc'[o] = pc[o]
  BY Stepped
<1>2. ASSUME NEW o \in Thread
      PROVE  Locked(o)' <=> lock'[ProcOf(o)] = o
  <2>1. Locked(o) <=> lock[ProcOf(o)] = o
    BY DEF LeakTypeOK
  <2>2. Locked(o)' <=> Locked(o)
    BY <1>1 DEF Locked, Holding
  <2>3. QED
    BY <2>1, <2>2
<1>3. QED
  BY <1>1, <1>2 DEF LockTypes, LeakTypeOK

LEMMA LockTaken ==
    ASSUME LeakTypeOK, NEW th \in Thread, NEW from, NEW to \in Holding, Step(th, from, to),
           lock[ProcOf(th)] = Free, lock' = [lock EXCEPT ![ProcOf(th)] = th]
    PROVE  LockTypes'
<1>1. /\ pc[th] = from /\ pc'[th] = to /\ pc' \in [Thread -> Label]
      /\ \A o \in Thread : o # th => pc'[o] = pc[o]
  BY Stepped DEF Holding, Label
<1>2. lock \in [Proc -> Thread \cup {Free}] /\ lock' \in [Proc -> Thread \cup {Free}]
  BY ProcOfThread DEF LeakTypeOK
<1>3. ASSUME NEW o \in Thread
      PROVE  Locked(o)' <=> lock'[ProcOf(o)] = o
  <2>1. Locked(o) <=> lock[ProcOf(o)] = o
    BY DEF LeakTypeOK
  <2>2. CASE o = th
    BY <1>1, <1>2, <2>2, ProcOfThread DEF Locked, Holding
  <2>3. CASE o # th
    <3>1. Locked(o)' <=> Locked(o)
      BY <1>1, <2>3 DEF Locked
    <3>2. lock'[ProcOf(o)] = o <=> lock[ProcOf(o)] = o
      BY <1>2, <2>3, ProcOfThread
    <3>3. QED
      BY <2>1, <3>1, <3>2
  <2>4. QED
    BY <2>2, <2>3
<1>4. QED
  BY <1>1, <1>2, <1>3 DEF LockTypes

LEMMA LockLetGo ==
    ASSUME LeakTypeOK, NEW th \in Thread, NEW from \in Holding, Release(th, from)
    PROVE  /\ LockTypes' /\ job' \in [Thread -> Job] /\ pc[th] = from /\ pc'[th] = AfterRecord(th)
           /\ \A o \in Thread : o # th => pc'[o] = pc[o] /\ job'[o] = job[o]
           /\ job'[th] = IF th[2] = "reader" THEN NoJob(ProcOf(th)) ELSE job[th]
<1>1. AfterRecord(th) \in Label \ Holding
  BY DEF AfterRecord, Label, Holding
<1>2. /\ pc[th] = from /\ pc'[th] = AfterRecord(th) /\ pc' \in [Thread -> Label]
      /\ \A o \in Thread : o # th => pc'[o] = pc[o]
  BY <1>1, Stepped DEF Release
<1>3. lock \in [Proc -> Thread \cup {Free}] /\ lock' = [lock EXCEPT ![ProcOf(th)] = Free]
  BY DEF LeakTypeOK, Release
<1>4. lock' \in [Proc -> Thread \cup {Free}]
  BY <1>3, ProcOfThread
<1>5. lock[ProcOf(th)] = th
  BY <1>2 DEF LeakTypeOK, Locked, Holding
<1>6. ASSUME NEW o \in Thread
      PROVE  Locked(o)' <=> lock'[ProcOf(o)] = o
  <2>1. Locked(o) <=> lock[ProcOf(o)] = o
    BY DEF LeakTypeOK
  <2>2. CASE o = th
    <3>1. ~Locked(o)'
      BY <1>1, <1>2, <2>2 DEF Locked, Holding
    <3>2. lock'[ProcOf(o)] # o
      BY <1>3, <2>2, ProcOfThread
    <3>3. QED
      BY <3>1, <3>2
  <2>3. CASE o # th
    <3>1. Locked(o)' <=> Locked(o)
      BY <1>2, <2>3 DEF Locked
    <3>2. lock'[ProcOf(o)] = o <=> lock[ProcOf(o)] = o
      BY <1>3, <1>5, <2>3, ProcOfThread
    <3>3. QED
      BY <2>1, <3>1, <3>2
  <2>4. QED
    BY <2>2, <2>3
<1>7. /\ job' \in [Thread -> Job] /\ job'[th] = IF th[2] = "reader" THEN NoJob(ProcOf(th)) ELSE job[th]
      /\ \A o \in Thread : o # th => job'[o] = job[o]
  <2>1. job \in [Thread -> Job] /\ NoJob(ProcOf(th)) \in Job
    BY JobFields, ProcOfThread DEF LeakTypeOK
  <2>2. job' = IF th[2] = "reader" THEN [job EXCEPT ![th] = NoJob(ProcOf(th))] ELSE job
    BY DEF Release, Done
  <2>3. CASE th[2] = "reader"
    BY <2>1, <2>2, <2>3
  <2>4. CASE th[2] # "reader"
    BY <2>1, <2>2, <2>4
  <2>5. QED
    BY <2>3, <2>4
<1>8. QED
  BY <1>2, <1>4, <1>6, <1>7 DEF LockTypes

\* A job of one thread replaced by a well typed one.
LEMMA JobReplaced ==
    ASSUME LeakTypeOK, NEW th \in Thread, NEW j \in Job, job' = [job EXCEPT ![th] = j]
    PROVE  job' \in [Thread -> Job] /\ job'[th] = j /\ \A o \in Thread : o # th => job'[o] = job[o]
BY DEF LeakTypeOK

LEMMA NewJobGiven ==
    ASSUME LeakTypeOK, NEW th \in Thread, NEW t \in Text, NEW target \in Target,
           NEW known, known \subseteq Entry, NewJob(th, t, target, known)
    PROVE  /\ job' \in [Thread -> Job] /\ \A o \in Thread : o # th => job'[o] = job[o]
           /\ job'[th].target = target /\ job'[th].known = known /\ job'[th].line.text = t
<1> DEFINE j == [line |-> [time |-> clock, host |-> ProcOf(th), text |-> t],
                 target |-> target, fd |-> 0, keep |-> << >>, known |-> known]
<1>1. j \in Job
  <2>1. clock \in Nat
    BY DEF LeakTypeOK
  <2>2. << >> \in Seq(Entry)
    OBVIOUS
  <2>3. QED
    BY <2>1, <2>2, ProcOfThread DEF Job, Entry
<1>2. job' = [job EXCEPT ![th] = j]
  BY DEF NewJob
<1>3. j.target = target /\ j.known = known /\ j.line.text = t
  OBVIOUS
<1> HIDE DEF j
<1>4. QED
  BY <1>1, <1>2, <1>3, JobReplaced

\* The files that live keep what they have.
LEMMA CollectedType ==
    ASSUME NEW c \in [File -> Seq(Entry)], NEW live
    PROVE  /\ Collected(c, live) \in [File -> Seq(Entry)]
           /\ \A f \in File : f \in live => Collected(c, live)[f] = c[f]
<1>1. << >> \in Seq(Entry)
  OBVIOUS
<1>2. QED
  BY <1>1 DEF Collected

LEMMA NoFile == 0 \notin File
BY ThreadsAndFiles DEF Files

-----------------------------------------------------------------------------
(* What the guard remembers.  One instance has a reserved channel, as in    *)
(* the bot.reserved of the repository: only its threads record, one at a    *)
(* time, under its lock, and so the file is one thread's until it lets go.  *)
OneReserved == \A p, q \in Mine : p = q

Recording == {"open"} \cup Holding

\* What th is about to send names no reserved channel and shares no words.
Clean(th) ==
    /\ job[th].line.text \notin Names
    /\ \A e \in job[th].known : Fresh(e) => <<job[th].line.text, e.text>> \notin Shares

\* What th does next is what its files, its lines and its check allow.
Fine(th) ==
    /\ pc[th] \in Recording => ProcOf(th) \in Mine /\ job[th].target = "reserved"
    /\ pc[th] = "check" =>
          job[th].known \subseteq heard /\ (job[th].target = "reserved" => ProcOf(th) \in Mine)
    /\ pc[th] = "send" /\ job[th].target = "channel" => Clean(th)
    /\ pc[th] = "append" => store # 0 /\ job[th].fd = store
    /\ pc[th] \in {"tmp", "write"} => \A e \in heard : Fresh(e) => Contains(job[th].keep, e)
    /\ pc[th] = "write" => job[th].fd = tmp
    /\ pc[th] \in {"write", "replace"} => tmp # 0 /\ store # tmp
    /\ pc[th] = "replace" => \A e \in heard : Fresh(e) => Contains(content[tmp], e)

AllFine == \A th \in Thread : Fine(th)

\* A temporary file is there only while it is written and put in place.
TmpInUse == tmp # 0 => \E th \in Thread : pc[th] \in {"write", "replace"}

LeakInv == LeakTypeOK /\ AllFine /\ TmpInUse /\ StoreKeepsWindow /\ WordsStayInside

\* The holder of the lock is the only one of all the instances.
LEMMA OneHolder ==
    ASSUME OneReserved, LeakTypeOK, AllFine, NEW th \in Thread, ProcOf(th) \in Mine
    PROVE  /\ lock[ProcOf(th)] = Free => \A o \in Thread : pc[o] \notin Holding
           /\ pc[th] \in Holding => \A o \in Thread : o # th => pc[o] \notin Holding
<1>1. ASSUME NEW o \in Thread, pc[o] \in Holding
      PROVE  lock[ProcOf(th)] = o
  <2>1. Locked(o)
    BY <1>1 DEF Locked, Holding
  <2>2. ProcOf(o) \in Mine
    BY <1>1 DEF AllFine, Fine, Recording
  <2>3. ProcOf(o) = ProcOf(th)
    BY <2>2 DEF OneReserved
  <2>4. lock[ProcOf(o)] = o
    BY <2>1 DEF LeakTypeOK
  <2>5. QED
    BY <2>3, <2>4
<1>2. QED
  BY <1>1, ProcOfThread

\* What is fresh was fresh before.
LEMMA Fresher ==
    ASSUME LeakTypeOK, clock' \in Nat, clock <= clock'
    PROVE  \A e \in Entry : Fresh(e)' => Fresh(e)
BY LeakAssumption DEF LeakTypeOK, Fresh, Entry

\* A thread that does not move stays fine, whatever another does.
LEMMA OthersFine ==
    ASSUME LeakTypeOK, NEW o \in Thread, Fine(o), pc'[o] = pc[o], job'[o] = job[o],
           heard \subseteq heard', clock' \in Nat, clock <= clock',
           pc[o] \in Holding => UNCHANGED <<store, tmp, content, heard>>
    PROVE  Fine(o)'
<1>1. \A e \in Entry : Fresh(e)' => Fresh(e)
  BY Fresher
<1>2. heard \subseteq Entry /\ job[o] \in Job
  BY DEF LeakTypeOK
<1>3. job[o].known \subseteq Entry
  BY <1>2, JobFields
<1>4. pc[o] = "send" /\ job[o].target = "channel" => Clean(o)'
  BY <1>1, <1>3 DEF Fine, Clean
<1>5. CASE pc[o] \notin Holding
  BY <1>4, <1>5 DEF Fine, Holding, Recording
<1>6. CASE pc[o] \in Holding
  <2>1. UNCHANGED <<store, tmp, content, heard>>
    BY <1>6
  <2>2. \A e \in heard : Fresh(e)' => Fresh(e)
    BY <1>1, <1>2
  <2>3. pc[o] \in {"tmp", "write"} => \A e \in heard : Fresh(e)' => Contains(job[o].keep, e)
    BY <2>2 DEF Fine
  <2>4. pc[o] = "replace" => \A e \in heard : Fresh(e)' => Contains(content[tmp], e)
    BY <2>2 DEF Fine
  <2>5. QED
    BY <1>6, <2>1, <2>3, <2>4 DEF Fine, Holding
<1>7. QED
  BY <1>5, <1>6

LEMMA OthersAllFine ==
    ASSUME LeakTypeOK, AllFine, NEW th \in Thread,
           \A o \in Thread : o # th => pc'[o] = pc[o] /\ job'[o] = job[o],
           heard \subseteq heard', clock' \in Nat, clock <= clock',
           \/ \A o \in Thread : o # th => pc[o] \notin Holding
           \/ UNCHANGED <<store, tmp, content, heard>>,
           Fine(th)'
    PROVE  AllFine'
<1>1. ASSUME NEW o \in Thread, o # th PROVE Fine(o)'
  BY <1>1, OthersFine DEF AllFine
<1>2. QED
  BY <1>1 DEF AllFine

LEMMA WindowKept ==
    ASSUME LeakTypeOK, StoreKeepsWindow, UNCHANGED heard, clock' \in Nat, clock <= clock',
           Lines(store)' = Lines(store)
    PROVE  StoreKeepsWindow'
<1>1. \A e \in Entry : Fresh(e)' => Fresh(e)
  BY Fresher
<1>2. heard \subseteq Entry
  BY DEF LeakTypeOK
<1>3. ASSUME NEW e \in heard, Fresh(e)'
      PROVE  Contains(Lines(store)', e)
  <2>1. Contains(Lines(store), e)
    BY <1>1, <1>2, <1>3 DEF StoreKeepsWindow
  <2>2. QED
    BY <2>1
<1>4. QED
  BY <1>3 DEF StoreKeepsWindow

LEMMA SentKept == WordsStayInside /\ UNCHANGED sent => WordsStayInside'
BY DEF WordsStayInside

\* A step of th that leaves the files and the time alone.
LEMMA Quiet ==
    ASSUME LeakInv, NEW th \in Thread,
           \A o \in Thread : o # th => pc'[o] = pc[o] /\ job'[o] = job[o],
           UNCHANGED <<clock, store, tmp, content, heard, sent>>,
           pc[th] \notin {"write", "replace"}, Fine(th)'
    PROVE  AllFine' /\ TmpInUse' /\ StoreKeepsWindow' /\ WordsStayInside'
<1>1. clock' \in Nat /\ clock <= clock' /\ heard \subseteq heard'
  BY DEF LeakInv, LeakTypeOK
<1>2. AllFine'
  BY <1>1, OthersAllFine DEF LeakInv
<1>3. TmpInUse'
  BY DEF LeakInv, TmpInUse
<1>4. StoreKeepsWindow'
  <2>1. Lines(store)' = Lines(store)
    BY DEF Lines
  <2>2. QED
    BY <1>1, <2>1, WindowKept DEF LeakInv
<1>5. QED
  BY <1>2, <1>3, <1>4, SentKept DEF LeakInv

LEMMA InvHear ==
    ASSUME LeakInv, NEW th \in Thread, NEW t \in Text, Hear(th, t)
    PROVE  LeakInv'
<1>1. /\ pc[th] = "idle" /\ pc'[th] = "open" /\ pc' \in [Thread -> Label]
      /\ \A o \in Thread : o # th => pc'[o] = pc[o]
  BY Stepped DEF Hear, LeakInv, Label
<1>2. /\ job' \in [Thread -> Job] /\ \A o \in Thread : o # th => job'[o] = job[o]
      /\ job'[th].target = "reserved"
  BY NewJobGiven DEF Hear, LeakInv, Target
<1>3. /\ UNCHANGED <<clock, store, tmp, content, lock, heard, sent, requests>>
      /\ lines' = lines + 1 /\ ProcOf(th) \in Mine
  BY DEF Hear
<1>4. Fine(th)'
  BY <1>1, <1>2, <1>3 DEF Fine, Holding, Recording
<1>5. LockTypes'
  BY <1>3, LockKept DEF Hear, LeakInv, Label, Holding
<1>6. LeakTypeOK'
  BY <1>2, <1>3, <1>5, LeakTypes, LeakTypesNext DEF LeakInv, FileTypes, HistoryTypes
<1>7. AllFine' /\ TmpInUse' /\ StoreKeepsWindow' /\ WordsStayInside'
  BY <1>1, <1>2, <1>3, <1>4, Quiet
<1>8. QED
  BY <1>6, <1>7 DEF LeakInv

LEMMA InvAsk ==
    ASSUME LeakInv, NEW th \in Thread, NEW t \in Text, NEW target \in Target, Ask(th, t, target)
    PROVE  LeakInv'
<1>1. /\ pc[th] = "idle" /\ pc'[th] = "check" /\ pc' \in [Thread -> Label]
      /\ \A o \in Thread : o # th => pc'[o] = pc[o]
  BY Stepped DEF Ask, LeakInv, Label
<1>2. heard \subseteq Entry
  BY DEF LeakInv, LeakTypeOK
<1>3. /\ job' \in [Thread -> Job] /\ \A o \in Thread : o # th => job'[o] = job[o]
      /\ job'[th].target = target /\ job'[th].known = heard
  BY <1>2, NewJobGiven DEF Ask, LeakInv
<1>4. /\ UNCHANGED <<clock, store, tmp, content, lock, heard, sent>>
      /\ lines' \in {lines, lines + 1} /\ requests' = requests + 1
      /\ target = "reserved" => ProcOf(th) \in Mine
  BY DEF Ask
<1>5. Fine(th)'
  BY <1>1, <1>3, <1>4 DEF Fine, Holding, Recording
<1>6. LockTypes'
  BY <1>4, LockKept DEF Ask, LeakInv, Label, Holding
<1>7. LeakTypeOK'
  BY <1>3, <1>4, <1>6, LeakTypes, LeakTypesNext DEF LeakInv, FileTypes, HistoryTypes
<1>8. AllFine' /\ TmpInUse' /\ StoreKeepsWindow' /\ WordsStayInside'
  BY <1>1, <1>3, <1>4, <1>5, Quiet
<1>9. QED
  BY <1>7, <1>8 DEF LeakInv

LEMMA InvBlock ==
    ASSUME LeakInv, NEW th \in Thread, Block(th)
    PROVE  LeakInv'
<1>1. /\ pc[th] = "check" /\ pc'[th] = "idle" /\ pc' \in [Thread -> Label]
      /\ \A o \in Thread : o # th => pc'[o] = pc[o]
  BY Stepped DEF Block, LeakInv, Label
<1>2. job' \in [Thread -> Job] /\ \A o \in Thread : o # th => job'[o] = job[o]
  BY JobReplaced, JobFields, ProcOfThread DEF Block, Done, LeakInv
<1>3. UNCHANGED <<clock, store, tmp, content, lock, heard, sent, lines, requests>>
  BY DEF Block
<1>4. Fine(th)'
  BY <1>1, <1>3 DEF Fine, Holding, Recording
<1>5. LockTypes'
  BY <1>3, LockKept DEF Block, LeakInv, Label, Holding
<1>6. LeakTypeOK'
  BY <1>2, <1>3, <1>5, LeakTypes, LeakTypesNext DEF LeakInv, FileTypes, HistoryTypes
<1>7. AllFine' /\ TmpInUse' /\ StoreKeepsWindow' /\ WordsStayInside'
  BY <1>1, <1>2, <1>3, <1>4, Quiet
<1>8. QED
  BY <1>6, <1>7 DEF LeakInv

\* What passes was checked against a store that holds all that was known.
LEMMA InvPass ==
    ASSUME LeakInv, NEW th \in Thread, Pass(th)
    PROVE  LeakInv'
<1> DEFINE next == IF job[th].target = "reserved" THEN "open" ELSE "send"
           j == [job[th] EXCEPT !.line.time = clock]
<1>1. /\ pc[th] = "check" /\ pc'[th] = next /\ pc' \in [Thread -> Label]
      /\ \A o \in Thread : o # th => pc'[o] = pc[o]
  BY Stepped DEF Pass, LeakInv, Label
<1>2. job[th] \in Job /\ clock \in Nat
  BY DEF LeakInv, LeakTypeOK
<1>3. j \in Job /\ j.target = job[th].target /\ j.known = job[th].known
      /\ j.line.text = job[th].line.text
  BY <1>2, JobFields DEF Job, Entry
<1>4. job' = [job EXCEPT ![th] = j]
  BY DEF Pass
<1> HIDE DEF j
<1>5. job' \in [Thread -> Job] /\ job'[th] = j /\ \A o \in Thread : o # th => job'[o] = job[o]
  BY <1>3, <1>4, JobReplaced DEF LeakInv
<1>6. UNCHANGED <<clock, store, tmp, content, lock, heard, sent, lines, requests>>
  BY DEF Pass
<1>7. /\ job[th].known \subseteq heard
      /\ job[th].target = "reserved" => ProcOf(th) \in Mine
  BY <1>1 DEF LeakInv, AllFine, Fine
<1>8. ASSUME job[th].target = "channel"
      PROVE  Clean(th)'
  <2>1. /\ job[th].line.text \notin Names
        /\ ~Words(th, job[th].line.text)
    BY <1>8 DEF Pass, Blocked
  <2>2. ASSUME NEW e \in job[th].known, Fresh(e)
        PROVE  <<job[th].line.text, e.text>> \notin Shares
    <3>1. Contains(Lines(store), e)
      BY <1>7, <2>2 DEF LeakInv, StoreKeepsWindow
    <3>2. Lines(store) \in Seq(Entry)
      BY FreshLinesProperties DEF LeakInv, LeakTypeOK
    <3>3. e \in Range(Lines(store))
      BY <3>1, <3>2 DEF Contains, Range
    <3>4. QED
      BY <2>1, <2>2, <3>3 DEF Words
  <2>3. \A e : Fresh(e)' <=> Fresh(e)
    BY <1>6 DEF Fresh
  <2>4. QED
    BY <1>3, <1>5, <2>1, <2>2, <2>3 DEF Clean
<1>9. Fine(th)'
  BY <1>1, <1>3, <1>5, <1>6, <1>7, <1>8 DEF Fine, Holding, Recording
<1>10. LockTypes'
  BY <1>6, LockKept DEF Pass, LeakInv, Label, Holding
<1>11. LeakTypeOK'
  BY <1>5, <1>6, <1>10, LeakTypes, LeakTypesNext DEF LeakInv, FileTypes, HistoryTypes
<1>12. AllFine' /\ TmpInUse' /\ StoreKeepsWindow' /\ WordsStayInside'
  BY <1>1, <1>5, <1>6, <1>9, Quiet
<1>13. QED
  BY <1>11, <1>12 DEF LeakInv

\* The store is opened, made when there was none: then nothing fresh is remembered.
LEMMA InvOpen ==
    ASSUME OneReserved, LeakInv, NEW th \in Thread, Open(th)
    PROVE  LeakInv'
<1>1. /\ pc[th] = "open" /\ pc'[th] = "append" /\ pc' \in [Thread -> Label]
      /\ \A o \in Thread : o # th => pc'[o] = pc[o]
  BY Stepped DEF Open, LeakInv, Label
<1>2. /\ UNCHANGED <<clock, tmp, content, heard, sent, lines, requests>>
      /\ store' = IF store = 0 THEN NewFile ELSE store
      /\ job' = [job EXCEPT ![th].fd = store']
  BY DEF Open
<1>3. store \in File \cup {0} /\ job[th] \in Job /\ clock \in Nat
  BY DEF LeakInv, LeakTypeOK
<1>4. store' \in File /\ store' # 0
  BY <1>2, <1>3, NewFileFree, NoFile DEF LeakInv
<1>5. /\ job' \in [Thread -> Job] /\ \A o \in Thread : o # th => job'[o] = job[o]
      /\ job'[th].fd = store' /\ job'[th].target = job[th].target
  <2> DEFINE j == [job[th] EXCEPT !.fd = store']
  <2>1. j \in Job /\ j.fd = store' /\ j.target = job[th].target
    BY <1>3, <1>4, JobFields DEF Job
  <2>2. job' = [job EXCEPT ![th] = j]
    BY <1>2
  <2> HIDE DEF j
  <2>3. QED
    BY <2>1, <2>2, JobReplaced DEF LeakInv
<1>6. ProcOf(th) \in Mine /\ job[th].target = "reserved"
  BY <1>1 DEF LeakInv, AllFine, Fine, Recording
<1>7. \A o \in Thread : pc[o] \notin Holding
  BY <1>6, OneHolder DEF Open, LeakInv
<1>8. Fine(th)'
  BY <1>1, <1>4, <1>5, <1>6 DEF Fine, Holding, Recording
<1>9. AllFine'
  BY <1>1, <1>2, <1>3, <1>5, <1>7, <1>8, OthersAllFine DEF LeakInv
<1>10. LockTypes'
  BY LockTaken DEF Open, LeakInv, Holding
<1>11. LeakTypeOK'
  BY <1>2, <1>4, <1>5, <1>10, LeakTypes, LeakTypesNext DEF LeakInv, FileTypes, HistoryTypes
<1>12. TmpInUse'
  BY <1>1, <1>2, <1>7 DEF LeakInv, TmpInUse, Holding
<1>13. StoreKeepsWindow'
  <2>1. CASE store = 0
    <3>1. Lines(store) = << >>
      BY <2>1 DEF Lines
    <3>2. \A e \in heard : ~Fresh(e)
      BY <3>1 DEF LeakInv, StoreKeepsWindow, Contains
    <3>3. QED
      BY <1>2, <3>2 DEF StoreKeepsWindow, Fresh
  <2>2. CASE store # 0
    <3>1. Lines(store)' = Lines(store)
      BY <1>2, <2>2 DEF Lines
    <3>2. QED
      BY <1>2, <1>3, <3>1, WindowKept DEF LeakInv
  <2>3. QED
    BY <2>1, <2>2
<1>14. QED
  BY <1>2, <1>9, <1>11, <1>12, <1>13, SentKept DEF LeakInv

\* The line is written where the next check looks for it.
LEMMA InvAppendLine ==
    ASSUME OneReserved, LeakInv, NEW th \in Thread, AppendLine(th)
    PROVE  LeakInv'
<1> DEFINE line == job[th].line
           grown == [content EXCEPT ![job[th].fd] = Append(@, line)]
<1>1. /\ pc[th] = "append" /\ pc'[th] = "size" /\ pc' \in [Thread -> Label]
      /\ \A o \in Thread : o # th => pc'[o] = pc[o]
  BY Stepped DEF AppendLine, LeakInv, Label
<1>2. /\ UNCHANGED <<clock, store, tmp, lock, sent, lines, requests>>
      /\ job' = [job EXCEPT ![th].fd = 0]
      /\ content' = Collected(grown, Live({store, tmp}, job'))
      /\ heard' = heard \cup {line}
  BY DEF AppendLine
<1>3. /\ store \in File \cup {0} /\ job[th] \in Job /\ clock \in Nat /\ heard \subseteq Entry
      /\ content \in [File -> Seq(Entry)]
  BY DEF LeakInv, LeakTypeOK
<1>4. /\ job' \in [Thread -> Job] /\ \A o \in Thread : o # th => job'[o] = job[o]
      /\ job'[th].target = job[th].target
  <2> DEFINE j == [job[th] EXCEPT !.fd = 0]
  <2>1. j \in Job /\ j.target = job[th].target
    BY <1>3, JobFields DEF Job
  <2>2. job' = [job EXCEPT ![th] = j]
    BY <1>2
  <2> HIDE DEF j
  <2>3. QED
    BY <2>1, <2>2, JobReplaced DEF LeakInv
<1>5. /\ ProcOf(th) \in Mine /\ job[th].target = "reserved"
      /\ store # 0 /\ job[th].fd = store
  BY <1>1 DEF LeakInv, AllFine, Fine, Recording, Holding
<1>6. \A o \in Thread : o # th => pc[o] \notin Holding
  BY <1>1, <1>5, OneHolder DEF LeakInv, Holding
<1>7. line \in Entry
  BY <1>3, JobFields
<1> HIDE DEF line
<1>8. /\ grown \in [File -> Seq(Entry)] /\ store \in File
      /\ grown[store] = Append(content[store], line)
  BY <1>3, <1>5, <1>7
<1> HIDE DEF grown
<1>9. store \in Live({store, tmp}, job')
  BY DEF Live
<1>10. content' \in [File -> Seq(Entry)] /\ content'[store] = Append(content[store], line)
  BY <1>2, <1>8, <1>9, CollectedType
<1>11. Fine(th)'
  BY <1>1, <1>4, <1>5 DEF Fine, Holding, Recording
<1>12. AllFine'
  BY <1>1, <1>2, <1>3, <1>4, <1>6, <1>11, OthersAllFine DEF LeakInv
<1>13. LockTypes'
  BY <1>2, LockKept DEF AppendLine, LeakInv, Label, Holding
<1>14. LeakTypeOK'
  BY <1>2, <1>3, <1>4, <1>7, <1>10, <1>13, LeakTypes, LeakTypesNext DEF LeakInv, FileTypes, HistoryTypes
<1>15. TmpInUse'
  BY <1>1, <1>2, <1>6 DEF LeakInv, TmpInUse, Holding
<1>16. StoreKeepsWindow'
  <2>1. Lines(store) = content[store] /\ Lines(store)' = Append(content[store], line)
    BY <1>2, <1>5, <1>10 DEF Lines
  <2>2. content[store] \in Seq(Entry)
    BY <1>3, <1>8
  <2>3. /\ Len(Append(content[store], line)) = Len(content[store]) + 1 /\ Len(content[store]) \in Nat
        /\ Append(content[store], line)[Len(content[store]) + 1] = line
        /\ \A i \in 1 .. Len(content[store]) : Append(content[store], line)[i] = content[store][i]
    BY <1>7, <2>2
  <2>4. Contains(Append(content[store], line), line)
    BY <2>3 DEF Contains
  <2>5. \A e : Contains(content[store], e) => Contains(Append(content[store], line), e)
    BY <2>3 DEF Contains
  <2>6. ASSUME NEW e \in heard', Fresh(e)'
        PROVE  Contains(Lines(store)', e)
    <3>1. Fresh(e)
      BY <1>2, <2>6 DEF Fresh
    <3>2. CASE e \in heard
      BY <2>1, <2>5, <3>1, <3>2 DEF LeakInv, StoreKeepsWindow
    <3>3. CASE e = line
      BY <2>1, <2>4, <3>3
    <3>4. QED
      BY <1>2, <3>2, <3>3
  <2>7. QED
    BY <2>6 DEF StoreKeepsWindow
<1>17. QED
  BY <1>2, <1>12, <1>14, <1>15, <1>16, SentKept DEF LeakInv

\* The lock is let go with the file as it is.
LEMMA InvKeepSmall ==
    ASSUME LeakInv, NEW th \in Thread, KeepSmall(th)
    PROVE  LeakInv'
<1>1. /\ LockTypes' /\ job' \in [Thread -> Job] /\ pc[th] = "size" /\ pc'[th] = AfterRecord(th)
      /\ \A o \in Thread : o # th => pc'[o] = pc[o] /\ job'[o] = job[o]
      /\ job'[th] = IF th[2] = "reader" THEN NoJob(ProcOf(th)) ELSE job[th]
  BY LockLetGo DEF KeepSmall, LeakInv, Holding
<1>2. UNCHANGED <<clock, store, tmp, content, heard, sent, lines, requests>>
  BY DEF KeepSmall
<1>3. job[th].target = "reserved"
  BY <1>1 DEF LeakInv, AllFine, Fine, Recording, Holding
<1>4. Fine(th)'
  BY <1>1, <1>3 DEF Fine, Holding, Recording, AfterRecord
<1>5. LeakTypeOK'
  BY <1>1, <1>2, LeakTypes, LeakTypesNext DEF LeakInv, FileTypes, HistoryTypes
<1>6. AllFine' /\ TmpInUse' /\ StoreKeepsWindow' /\ WordsStayInside'
  BY <1>1, <1>2, <1>4, Quiet
<1>7. QED
  BY <1>5, <1>6 DEF LeakInv

LEMMA InvStartPrune ==
    ASSUME LeakInv, NEW th \in Thread, StartPrune(th)
    PROVE  LeakInv'
<1>1. /\ pc[th] = "size" /\ pc'[th] = "read" /\ pc' \in [Thread -> Label]
      /\ \A o \in Thread : o # th => pc'[o] = pc[o]
  BY Stepped DEF StartPrune, LeakInv, Label
<1>2. UNCHANGED <<clock, store, tmp, content, lock, job, heard, sent, lines, requests>>
  BY DEF StartPrune
<1>3. ProcOf(th) \in Mine /\ job[th].target = "reserved"
  BY <1>1 DEF LeakInv, AllFine, Fine, Recording, Holding
<1>4. Fine(th)'
  BY <1>1, <1>2, <1>3 DEF Fine, Holding, Recording
<1>5. LockTypes'
  BY <1>2, LockKept DEF StartPrune, LeakInv, Label, Holding
<1>6. LeakTypeOK'
  BY <1>2, <1>5, LeakTypes, LeakTypesNext DEF LeakInv, FileTypes, HistoryTypes
<1>7. AllFine' /\ TmpInUse' /\ StoreKeepsWindow' /\ WordsStayInside'
  BY <1>1, <1>2, <1>4, Quiet
<1>8. QED
  BY <1>6, <1>7 DEF LeakInv

\* What is kept is all that is remembered and fresh.
LEMMA InvPruneRead ==
    ASSUME LeakInv, NEW th \in Thread, PruneRead(th)
    PROVE  LeakInv'
<1>1. /\ pc[th] = "read" /\ pc'[th] = "tmp" /\ pc' \in [Thread -> Label]
      /\ \A o \in Thread : o # th => pc'[o] = pc[o]
  BY Stepped DEF PruneRead, LeakInv, Label
<1>2. /\ UNCHANGED <<clock, store, tmp, content, lock, heard, sent, lines, requests>>
      /\ job' = [job EXCEPT ![th].keep = FreshLines(store)]
  BY DEF PruneRead
<1>3. job[th] \in Job /\ store \in File \cup {0} /\ heard \subseteq Entry
  BY DEF LeakInv, LeakTypeOK
<1>4. /\ FreshLines(store) \in Seq(Entry)
      /\ \A e \in heard : Fresh(e) => Contains(FreshLines(store), e)
  BY <1>3, FreshLinesProperties DEF LeakInv, StoreKeepsWindow
<1>5. /\ job' \in [Thread -> Job] /\ \A o \in Thread : o # th => job'[o] = job[o]
      /\ job'[th].target = job[th].target /\ job'[th].keep = FreshLines(store)
  <2> DEFINE j == [job[th] EXCEPT !.keep = FreshLines(store)]
  <2>1. j \in Job /\ j.target = job[th].target /\ j.keep = FreshLines(store)
    BY <1>3, <1>4, JobFields DEF Job
  <2>2. job' = [job EXCEPT ![th] = j]
    BY <1>2
  <2> HIDE DEF j
  <2>3. QED
    BY <2>1, <2>2, JobReplaced DEF LeakInv
<1>6. ProcOf(th) \in Mine /\ job[th].target = "reserved"
  BY <1>1 DEF LeakInv, AllFine, Fine, Recording, Holding
<1>7. \A e \in heard' : Fresh(e)' => Contains(job'[th].keep, e)
  BY <1>2, <1>4, <1>5 DEF Fresh
<1>8. Fine(th)'
  BY <1>1, <1>5, <1>6, <1>7 DEF Fine, Holding, Recording
<1>9. LockTypes'
  BY <1>2, LockKept DEF PruneRead, LeakInv, Label, Holding
<1>10. LeakTypeOK'
  BY <1>2, <1>5, <1>9, LeakTypes, LeakTypesNext DEF LeakInv, FileTypes, HistoryTypes
<1>11. AllFine' /\ TmpInUse' /\ StoreKeepsWindow' /\ WordsStayInside'
  BY <1>1, <1>2, <1>5, <1>8, Quiet
<1>12. QED
  BY <1>10, <1>11 DEF LeakInv

\* The temporary file is a new one: the holder is the only one to make it.
LEMMA InvPruneOpen ==
    ASSUME OneReserved, LeakInv, NEW th \in Thread, PruneOpen(th)
    PROVE  LeakInv'
<1>1. /\ pc[th] = "tmp" /\ pc'[th] = "write" /\ pc' \in [Thread -> Label]
      /\ \A o \in Thread : o # th => pc'[o] = pc[o]
  BY Stepped DEF PruneOpen, LeakInv, Label
<1>2. /\ UNCHANGED <<clock, store, lock, heard, sent, lines, requests>>
      /\ tmp' = IF tmp = 0 THEN NewFile ELSE tmp
      /\ content' = [content EXCEPT ![tmp'] = << >>]
      /\ job' = [job EXCEPT ![th].fd = tmp']
  BY DEF PruneOpen
<1>3. /\ job[th] \in Job /\ store \in File \cup {0} /\ heard \subseteq Entry /\ clock \in Nat
      /\ content \in [File -> Seq(Entry)]
  BY DEF LeakInv, LeakTypeOK
<1>4. /\ ProcOf(th) \in Mine /\ job[th].target = "reserved"
      /\ \A e \in heard : Fresh(e) => Contains(job[th].keep, e)
  BY <1>1 DEF LeakInv, AllFine, Fine, Recording, Holding
<1>5. \A o \in Thread : o # th => pc[o] \notin Holding
  BY <1>1, <1>4, OneHolder DEF LeakInv, Holding
<1>6. tmp = 0
  BY <1>1, <1>5 DEF LeakInv, TmpInUse, Holding
<1>7. tmp' \in File /\ tmp' # 0 /\ tmp' # store
  BY <1>2, <1>6, NewFileFree, NoFile DEF LeakInv, Live
<1>8. /\ job' \in [Thread -> Job] /\ \A o \in Thread : o # th => job'[o] = job[o]
      /\ job'[th].target = job[th].target /\ job'[th].fd = tmp' /\ job'[th].keep = job[th].keep
  <2> DEFINE j == [job[th] EXCEPT !.fd = tmp']
  <2>1. j \in Job /\ j.target = job[th].target /\ j.fd = tmp' /\ j.keep = job[th].keep
    BY <1>3, <1>7, JobFields DEF Job
  <2>2. job' = [job EXCEPT ![th] = j]
    BY <1>2
  <2> HIDE DEF j
  <2>3. QED
    BY <2>1, <2>2, JobReplaced DEF LeakInv
<1>9. content' \in [File -> Seq(Entry)] /\ (store # 0 => content'[store] = content[store])
  <2>1. << >> \in Seq(Entry)
    OBVIOUS
  <2>2. QED
    BY <1>2, <1>3, <1>7, <2>1
<1>10. \A e \in heard' : Fresh(e)' => Contains(job'[th].keep, e)
  BY <1>2, <1>4, <1>8 DEF Fresh
<1>11. Fine(th)'
  BY <1>1, <1>2, <1>4, <1>7, <1>8, <1>10 DEF Fine, Holding, Recording
<1>12. AllFine'
  BY <1>1, <1>2, <1>3, <1>5, <1>8, <1>11, OthersAllFine DEF LeakInv
<1>13. LockTypes'
  BY <1>2, LockKept DEF PruneOpen, LeakInv, Label, Holding
<1>14. LeakTypeOK'
  BY <1>2, <1>7, <1>8, <1>9, <1>13, LeakTypes, LeakTypesNext DEF LeakInv, FileTypes, HistoryTypes
<1>15. TmpInUse'
  BY <1>1 DEF TmpInUse
<1>16. StoreKeepsWindow'
  <2>1. Lines(store)' = Lines(store)
    BY <1>2, <1>9 DEF Lines
  <2>2. QED
    BY <1>2, <1>3, <2>1, WindowKept DEF LeakInv
<1>17. QED
  BY <1>2, <1>12, <1>14, <1>15, <1>16, SentKept DEF LeakInv

\* What was kept is in the temporary file, whatever was there.
LEMMA InvPruneWrite ==
    ASSUME OneReserved, LeakInv, NEW th \in Thread, PruneWrite(th)
    PROVE  LeakInv'
<1> DEFINE keep == job[th].keep
           j == [[job[th] EXCEPT !.fd = 0] EXCEPT !.keep = << >>]
           rest == SubSeq(content[tmp], Len(keep) + 1, Len(content[tmp]))
           written == [content EXCEPT ![tmp] = keep \o rest]
<1>1. /\ pc[th] = "write" /\ pc'[th] = "replace" /\ pc' \in [Thread -> Label]
      /\ \A o \in Thread : o # th => pc'[o] = pc[o]
  BY Stepped DEF PruneWrite, LeakInv, Label
<1>2. /\ ProcOf(th) \in Mine /\ job[th].target = "reserved" /\ job[th].fd = tmp
      /\ tmp # 0 /\ store # tmp
      /\ \A e \in heard : Fresh(e) => Contains(job[th].keep, e)
  BY <1>1 DEF LeakInv, AllFine, Fine, Recording, Holding
<1>3. /\ UNCHANGED <<clock, store, tmp, lock, heard, sent, lines, requests>>
      /\ content' = Collected(written, Live({store, tmp}, job'))
      /\ job' = [job EXCEPT ![th] = j]
  BY <1>2 DEF PruneWrite
<1>4. /\ job[th] \in Job /\ store \in File \cup {0} /\ heard \subseteq Entry /\ clock \in Nat
      /\ tmp \in File /\ content \in [File -> Seq(Entry)]
  BY <1>2 DEF LeakInv, LeakTypeOK
<1>5. j \in Job /\ j.target = job[th].target
  <2>1. << >> \in Seq(Entry)
    OBVIOUS
  <2>2. QED
    BY <1>4, <2>1, JobFields DEF Job
<1> HIDE DEF j
<1>6. /\ job' \in [Thread -> Job] /\ \A o \in Thread : o # th => job'[o] = job[o]
      /\ job'[th].target = "reserved"
  BY <1>2, <1>3, <1>5, JobReplaced DEF LeakInv
<1>7. \A o \in Thread : o # th => pc[o] \notin Holding
  BY <1>1, <1>2, OneHolder DEF LeakInv, Holding
<1>8. keep \in Seq(Entry) /\ rest \in Seq(Entry)
  <2>1. keep \in Seq(Entry) /\ content[tmp] \in Seq(Entry)
    BY <1>4, JobFields
  <2> HIDE DEF keep
  <2>2. Len(keep) + 1 \in 1 .. Len(keep) + 1 /\ Len(content[tmp]) \in Nat
    BY <2>1
  <2>3. rest \in Seq(Entry)
    BY <2>1, <2>2, SubSeqProperties
  <2>4. QED
    BY <2>1, <2>3
<1>9. \A e \in heard : Fresh(e) => Contains(keep, e)
  BY <1>2
<1> HIDE DEF keep, rest
<1>10. /\ keep \o rest \in Seq(Entry)
       /\ \A e : Contains(keep, e) => Contains(keep \o rest, e)
  <2>1. /\ Len(keep \o rest) = Len(keep) + Len(rest) /\ Len(keep) \in Nat /\ Len(rest) \in Nat
        /\ \A i \in 1 .. Len(keep) : (keep \o rest)[i] = keep[i]
    BY <1>8
  <2>2. QED
    BY <1>8, <2>1 DEF Contains
<1>11. written \in [File -> Seq(Entry)] /\ written[tmp] = keep \o rest
       /\ (store # 0 => written[store] = content[store])
  BY <1>2, <1>4, <1>10
<1> HIDE DEF written
<1>12. tmp \in Live({store, tmp}, job') /\ store \in Live({store, tmp}, job')
  BY DEF Live
<1>13. /\ content' \in [File -> Seq(Entry)] /\ content'[tmp] = keep \o rest
       /\ (store # 0 => content'[store] = content[store])
  BY <1>3, <1>4, <1>11, <1>12, CollectedType
<1>14. \A e \in heard' : Fresh(e)' => Contains(content'[tmp'], e)
  <2>1. \A e \in heard : Fresh(e)' => Fresh(e)
    BY <1>3 DEF Fresh
  <2>2. QED
    BY <1>3, <1>9, <1>10, <1>13, <2>1
<1>15. Fine(th)'
  BY <1>1, <1>2, <1>3, <1>6, <1>14 DEF Fine, Holding, Recording
<1>16. AllFine'
  BY <1>1, <1>3, <1>4, <1>6, <1>7, <1>15, OthersAllFine DEF LeakInv
<1>17. LockTypes'
  BY <1>3, LockKept DEF PruneWrite, LeakInv, Label, Holding
<1>18. LeakTypeOK'
  BY <1>3, <1>6, <1>13, <1>17, LeakTypes, LeakTypesNext DEF LeakInv, FileTypes, HistoryTypes
<1>19. TmpInUse'
  BY <1>1 DEF TmpInUse
<1>20. StoreKeepsWindow'
  <2>1. Lines(store)' = Lines(store)
    BY <1>3, <1>13 DEF Lines
  <2>2. QED
    BY <1>3, <1>4, <2>1, WindowKept DEF LeakInv
<1>21. QED
  BY <1>3, <1>16, <1>18, <1>19, <1>20, SentKept DEF LeakInv

\* The file that takes the store's name has all that is remembered and fresh.
LEMMA InvPruneReplace ==
    ASSUME OneReserved, LeakInv, NEW th \in Thread, PruneReplace(th)
    PROVE  LeakInv'
<1>1. /\ LockTypes' /\ job' \in [Thread -> Job] /\ pc[th] = "replace" /\ pc'[th] = AfterRecord(th)
      /\ \A o \in Thread : o # th => pc'[o] = pc[o] /\ job'[o] = job[o]
      /\ job'[th] = IF th[2] = "reader" THEN NoJob(ProcOf(th)) ELSE job[th]
  BY LockLetGo DEF PruneReplace, LeakInv, Holding
<1>2. /\ ProcOf(th) \in Mine /\ job[th].target = "reserved" /\ tmp # 0
      /\ \A e \in heard : Fresh(e) => Contains(content[tmp], e)
  BY <1>1 DEF LeakInv, AllFine, Fine, Recording, Holding
<1>3. /\ UNCHANGED <<clock, heard, sent, lines, requests>> /\ store' = tmp /\ tmp' = 0
      /\ content' = Collected(content, Live({store', tmp'}, job'))
  BY <1>2 DEF PruneReplace
<1>4. /\ heard \subseteq Entry /\ clock \in Nat /\ tmp \in File /\ content \in [File -> Seq(Entry)]
  BY <1>2 DEF LeakInv, LeakTypeOK
<1>5. \A o \in Thread : o # th => pc[o] \notin Holding
  BY <1>1, <1>2, OneHolder DEF LeakInv, Holding
<1>6. tmp \in Live({store', tmp'}, job')
  BY <1>3 DEF Live
<1>7. content' \in [File -> Seq(Entry)] /\ content'[tmp] = content[tmp]
  BY <1>3, <1>4, <1>6, CollectedType
<1>8. Fine(th)'
  BY <1>1, <1>2 DEF Fine, Holding, Recording, AfterRecord
<1>9. AllFine'
  BY <1>1, <1>3, <1>4, <1>5, <1>8, OthersAllFine DEF LeakInv
<1>10. LeakTypeOK'
  BY <1>1, <1>3, <1>4, <1>7, LeakTypes, LeakTypesNext DEF LeakInv, FileTypes, HistoryTypes
<1>11. TmpInUse'
  BY <1>3 DEF TmpInUse
<1>12. StoreKeepsWindow'
  <2>1. Lines(store)' = content[tmp]
    BY <1>2, <1>3, <1>7 DEF Lines
  <2>2. \A e : Fresh(e)' <=> Fresh(e)
    BY <1>3 DEF Fresh
  <2>3. QED
    BY <1>2, <1>3, <2>1, <2>2 DEF StoreKeepsWindow
<1>13. QED
  BY <1>3, <1>9, <1>10, <1>11, <1>12, SentKept DEF LeakInv

\* What leaves was found clean.
LEMMA InvSend ==
    ASSUME LeakInv, NEW th \in Thread, Send(th)
    PROVE  LeakInv'
<1>1. /\ pc[th] = "send" /\ pc'[th] = "idle" /\ pc' \in [Thread -> Label]
      /\ \A o \in Thread : o # th => pc'[o] = pc[o]
  BY Stepped DEF Send, LeakInv, Label
<1>2. job' \in [Thread -> Job] /\ \A o \in Thread : o # th => job'[o] = job[o]
  BY JobReplaced, JobFields, ProcOfThread DEF Send, Done, LeakInv
<1>3. UNCHANGED <<clock, store, tmp, content, lock, heard, lines, requests>>
  BY DEF Send
<1>4. Fine(th)'
  BY <1>1 DEF Fine, Holding, Recording
<1>5. LockTypes'
  BY <1>3, LockKept DEF Send, LeakInv, Label, Holding
<1>6. LeakTypeOK'
  BY <1>2, <1>3, <1>5, LeakTypes, LeakTypesNext DEF LeakInv, FileTypes, HistoryTypes
<1>7. clock' \in Nat /\ clock <= clock' /\ heard \subseteq heard'
  BY <1>3 DEF LeakInv, LeakTypeOK
<1>8. AllFine'
  BY <1>1, <1>2, <1>3, <1>4, <1>7, OthersAllFine DEF LeakInv
<1>9. TmpInUse'
  BY <1>1, <1>3 DEF LeakInv, TmpInUse
<1>10. StoreKeepsWindow'
  <2>1. Lines(store)' = Lines(store)
    BY <1>3 DEF Lines
  <2>2. QED
    BY <1>3, <1>7, <2>1, WindowKept DEF LeakInv
<1>11. WordsStayInside'
  <2> DEFINE s == [text |-> job[th].line.text, target |-> job[th].target,
                   known |-> {e \in job[th].known : Fresh(e)}]
  <2>1. sent' = sent \cup {s}
    BY DEF Send
  <2>2. s.target = "channel" =>
          s.text \notin Names /\ \A e \in s.known : <<s.text, e.text>> \notin Shares
    BY <1>1 DEF LeakInv, AllFine, Fine, Clean
  <2> HIDE DEF s
  <2>3. QED
    BY <2>1, <2>2 DEF LeakInv, WordsStayInside
<1>12. QED
  BY <1>6, <1>8, <1>9, <1>10, <1>11 DEF LeakInv

LEMMA InvTick ==
    ASSUME LeakInv, Tick
    PROVE  LeakInv'
<1>1. UNCHANGED <<store, tmp, content, lock, pc, job, heard, sent, lines, requests>>
      /\ clock' = clock + 1
  BY DEF Tick
<1>2. clock' \in Nat /\ clock <= clock'
  BY <1>1 DEF LeakInv, LeakTypeOK
<1>3. AllFine'
  BY <1>1, <1>2, OthersFine DEF LeakInv, AllFine
<1>4. LeakTypeOK'
  BY <1>1, <1>2 DEF LeakInv, LeakTypeOK, Locked
<1>5. StoreKeepsWindow'
  <2>1. Lines(store)' = Lines(store)
    BY <1>1 DEF Lines
  <2>2. QED
    BY <1>1, <1>2, <2>1, WindowKept DEF LeakInv
<1>6. QED
  BY <1>1, <1>3, <1>4, <1>5, SentKept DEF LeakInv, TmpInUse

LEMMA InvAtFirst == LeakInit => LeakInv
<1> SUFFICES ASSUME LeakInit PROVE LeakInv
  OBVIOUS
<1>1. FileTypes
  <2>1. << >> \in Seq(Entry)
    OBVIOUS
  <2>2. QED
    BY <2>1 DEF LeakInit, FileTypes
<1>2. LockTypes
  <2>1. pc \in [Thread -> Label] /\ lock \in [Proc -> Thread \cup {Free}]
    BY DEF LeakInit, Label
  <2>2. \A th \in Thread : ~Locked(th) /\ lock[ProcOf(th)] # th
    BY ProcOfThread DEF LeakInit, Locked
  <2>3. QED
    BY <2>1, <2>2 DEF LockTypes
<1>3. job \in [Thread -> Job]
  BY JobFields, ProcOfThread DEF LeakInit
<1>4. HistoryTypes
  BY DEF LeakInit, HistoryTypes
<1>5. LeakTypeOK
  BY <1>1, <1>2, <1>3, <1>4, LeakTypes
<1>6. AllFine
  BY DEF LeakInit, AllFine, Fine, Holding, Recording
<1>7. QED
  BY <1>5, <1>6 DEF LeakInit, LeakInv, TmpInUse, StoreKeepsWindow, WordsStayInside

LEMMA InvInductive ==
    ASSUME OneReserved
    PROVE  LeakInv /\ [LeakNext]_leakVars => LeakInv'
<1> SUFFICES ASSUME LeakInv, [LeakNext]_leakVars PROVE LeakInv'
  OBVIOUS
<1>1. ASSUME NEW th \in Thread, NEW t \in Text,
             Hear(th, t) \/ \E target \in Target : Ask(th, t, target)
      PROVE  LeakInv'
  BY <1>1, InvHear, InvAsk
<1>2. ASSUME NEW th \in Thread, Record(th)
      PROVE  LeakInv'
  BY <1>2, InvOpen, InvAppendLine, InvKeepSmall, InvStartPrune, InvPruneRead, InvPruneOpen,
     InvPruneWrite, InvPruneReplace DEF Record
<1>3. ASSUME NEW th \in Thread, Block(th) \/ Pass(th) \/ Send(th)
      PROVE  LeakInv'
  BY <1>3, InvBlock, InvPass, InvSend
<1>4. CASE UNCHANGED leakVars
  <2>1. LeakTypeOK'
    BY <1>4 DEF leakVars, LeakInv, LeakTypeOK, Locked
  <2>2. AllFine'
    BY <1>4 DEF leakVars, LeakInv, AllFine, Fine, Clean, Fresh
  <2>3. TmpInUse' /\ StoreKeepsWindow' /\ WordsStayInside'
    BY <1>4 DEF leakVars, LeakInv, TmpInUse, StoreKeepsWindow, WordsStayInside, Fresh, Lines
  <2>4. QED
    BY <2>1, <2>2, <2>3 DEF LeakInv
<1>5. QED
  BY <1>1, <1>2, <1>3, <1>4, InvTick DEF LeakNext

LEMMA InvAlways ==
    ASSUME OneReserved
    PROVE  LeakSpec => []LeakInv
<1>1. LeakInv /\ [LeakNext]_leakVars => LeakInv'
  BY InvInductive
<1>2. QED
  BY <1>1, InvAtFirst, PTL DEF LeakSpec

(* The store forgets no line before its time, and its types hold: with one  *)
(* instance that records, leak_guard.py's lock is enough, however its       *)
(* prunes, its threads and the checks of the others interleave.             *)
THEOREM StoreAlwaysKeepsWindow ==
    ASSUME OneReserved
    PROVE  LeakSpec => [](LeakTypeOK /\ StoreKeepsWindow)
<1>1. LeakInv => LeakTypeOK /\ StoreKeepsWindow
  BY DEF LeakInv
<1>2. QED
  BY <1>1, InvAlways, PTL

(* What a reserved channel heard before a line's check, in the last TTL,    *)
(* shares no run of words with what leaves to another channel.              *)
THEOREM WordsAlwaysStayInside ==
    ASSUME OneReserved
    PROVE  LeakSpec => []WordsStayInside
<1>1. LeakInv => WordsStayInside
  BY DEF LeakInv
<1>2. QED
  BY <1>1, InvAlways, PTL
=============================================================================
